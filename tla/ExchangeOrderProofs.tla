------------------------- MODULE ExchangeOrderProofs -------------------------
(***************************************************************************)
(* Theorems about wallets, deposit addresses and orders, for any requests, *)
(* members, coins, pairs, forms and bounds.                                *)
(*                                                                         *)
(* The argument: a row is inserted only if no row of the member has its    *)
(* coin, under whatever name; the address a reset is about to write is one *)
(* the node made for its member and nobody else has (PendingIsFresh), and  *)
(* the wallet it writes to is the member's (KnownWallet).  An order comes  *)
(* to its INSERT only with both wallets found and its form validated.      *)
(* What a member was shown stays: of a member whose resets do not overlap  *)
(* one reset is at work at a time, and it writes a bare row (WatchInv).    *)
(* Orders are never deleted, and one that ended stays so: what a page held *)
(* is still there to be counted, or has ended (ListsIInv).                 *)
(***************************************************************************)
EXTENDS OrderLists, FiniteSetTheorems, FunctionTheorems, TLAPS

(***************************************************************************)
(* Wallets.                                                                *)
(***************************************************************************)
Live == {"coin", "find", "save", "allocate", "update", "answered"}

\* A handler at work has a member and a name; past the market's answer, of a coin.
KnownCoin(r) ==
    LET q == wreq[r]
    IN  /\ q.pc \in Live => q.memberId \in Members /\ q.coinName \in CoinNames
        /\ q.pc \in {"find", "save"} => UnitOf[q.coinName] # NoCoin
        /\ q.pc \in {"allocate", "update"} => q.op = "reset" /\ q.coinName = BTC
        /\ q.op = "none" => q.pc = "idle"

\* The wallet a handler holds is its member's, of the coin asked for.
KnownWallet(r) ==
    LET q == wreq[r]
    IN  q.pc \in {"allocate", "update", "answered"} =>
            /\ q.wallet.id \in DOMAIN wallets
            /\ wallets[q.wallet.id].memberId = q.memberId
            /\ SameCoin(wallets[q.wallet.id].coinName, q.coinName)

\* The address a handler is about to write is nobody's so far.
PendingIsFresh(r) ==
    wreq[r].pc = "update" =>
        /\ wreq[r].wallet.address \in DOMAIN allocated
        /\ allocated[wreq[r].wallet.address] = wreq[r].memberId
        /\ \A i \in DOMAIN wallets : wallets[i].address # wreq[r].wallet.address
        /\ \A q \in Requests \ {r} :
             wreq[q].pc = "update" => wreq[q].wallet.address # wreq[r].wallet.address

RowsBearUnits == \A i \in DOMAIN wallets : UnitOf[wallets[i].coinName] = wallets[i].coinName

WalletTypes ==
    /\ WalletTypeOK
    /\ RowsBearUnits
    /\ \A r \in Requests : KnownCoin(r) /\ KnownWallet(r)

WalletIInv ==
    /\ WalletTypes
    /\ \A r \in Requests : PendingIsFresh(r)
    /\ OneWalletPerCoin
    /\ AddressOfOneMember
    /\ ResetGivesAddress

\* The handler's answer has been taken over by the order that asked for it.
Taken(r) == /\ wreq' = [wreq EXCEPT ![r] = Idle]
            /\ UNCHANGED <<wallets, allocated, shown, overlapped, failures>>

Locked(i) == /\ wallets' = [wallets EXCEPT ![i].isLock = TRUE]
             /\ UNCHANGED <<allocated, wreq, shown, overlapped, failures>>

\* What the steps of the specification do to the wallets.
WalletAction ==
    \/ \E r \in Requests :
         \/ \E op \in {"find", "reset"}, m \in Members, name \in CoinNames : Start(r, op, m, name)
         \/ WalletCall(r) \/ Answer(r) \/ Taken(r)
    \/ \E m \in Members : FindWallet(m)
    \/ \E i \in DOMAIN wallets : Locked(i)
    \/ UNCHANGED <<wallets, allocated, wreq, shown, overlapped>> /\ failures' \in 0..MaxFailures

-----------------------------------------------------------------------------
(* Types of the wallets. *)

\* At the start there is no wallet, and every handler is idle.
LEMMA WalletInitOK == WalletInit => WalletIInv
  BY WalletConstants
  DEF WalletInit, WalletIInv, WalletTypes, WalletTypeOK, RowsBearUnits, KnownCoin, KnownWallet,
      PendingIsFresh, OneWalletPerCoin, AddressOfOneMember, ResetGivesAddress, Idle, NoWallet,
      NoAddress, Live

\* What a handler is, when there are n wallets and k addresses.
Handlers(n, k) ==
    [pc : {"idle", "coin", "find", "save", "allocate", "update", "answered", "failed", "done"},
     op : {"none", "find", "reset"}, memberId : Members \cup {"none"},
     coinName : CoinNames \cup {NoCoin},
     wallet : [id : 0..n, address : 0..k, isLock : BOOLEAN]]

\* A handler keeps its type when the tables grow.
LEMMA HandlersGrow ==
    ASSUME NEW n \in Nat, NEW k \in Nat, NEW m \in Nat, NEW l \in Nat, n <= m, k <= l
    PROVE  Handlers(n, k) \subseteq Handlers(m, l)
  <1>1. 0..n \subseteq 0..m /\ 0..k \subseteq 0..l
    OBVIOUS
  <1> QED
    BY <1>1 DEF Handlers

\* The handlers after a call that was answered, or whose answer was lost.
LEMMA AnsweredTypes ==
    ASSUME NEW n \in Nat, NEW k \in Nat, wreq \in [Requests -> Handlers(n, k)],
           failures \in 0..MaxFailures,
           NEW r \in Requests, NEW pc \in {"allocate", "update", "answered"},
           NEW w \in [id : 0..n, address : 0..k, isLock : BOOLEAN],
           Answered(r, pc, w)
    PROVE  /\ wreq' \in [Requests -> Handlers(n, k)]
           /\ failures' \in 0..MaxFailures
           /\ \A q \in Requests \ {r} : wreq'[q] = wreq[q]
           /\ wreq'[r].memberId = wreq[r].memberId
           /\ wreq'[r].coinName = wreq[r].coinName
           /\ wreq'[r].op = wreq[r].op
           /\ wreq'[r].pc \in {pc, "failed"}
           /\ wreq'[r].pc = pc => wreq'[r].wallet = w
  <1>1. wreq[r] \in Handlers(n, k)
    OBVIOUS
  <1>2. /\ [wreq[r] EXCEPT !.pc = pc, !.wallet = w] \in Handlers(n, k)
        /\ [wreq[r] EXCEPT !.pc = "failed"] \in Handlers(n, k)
    BY <1>1 DEF Handlers
  <1>3. CASE /\ wreq' = [wreq EXCEPT ![r].pc = pc, ![r].wallet = w]
             /\ UNCHANGED failures
    <2>1. wreq' = [wreq EXCEPT ![r] = [wreq[r] EXCEPT !.pc = pc, !.wallet = w]]
      BY <1>3, <1>1 DEF Handlers
    <2> QED
      BY <1>1, <1>3, <2>1, <1>2 DEF Handlers
  <1>4. CASE failures < MaxFailures /\ failures' = failures + 1 /\ Goto(r, "failed")
    <2>1. wreq' = [wreq EXCEPT ![r] = [wreq[r] EXCEPT !.pc = "failed"]]
      BY <1>4, <1>1 DEF Handlers, Goto
    <2> QED
      BY <1>1, <1>4, <2>1, <1>2, WalletConstants DEF Handlers
  <1> QED
    BY <1>3, <1>4 DEF Answered

\* The types, with what a handler is given a name.
LEMMA TypesByHandlers ==
    WalletTypeOK <=>
        /\ wallets \in Seq([memberId : Members, coinName : CoinNames,
                            address : 0..Len(allocated), isLock : BOOLEAN])
        /\ allocated \in Seq(Members)
        /\ wreq \in [Requests -> Handlers(Len(wallets), Len(allocated))]
        /\ shown \subseteq [memberId : Members, address : 1..Len(allocated)]
        /\ overlapped \subseteq Members
        /\ failures \in 0..MaxFailures
  BY DEF WalletTypeOK, Handlers

\* What a row of the wallets is.
LEMMA WalletRow ==
    ASSUME WalletTypeOK, NEW i \in DOMAIN wallets
    PROVE  /\ Len(wallets) \in Nat /\ i \in 1..Len(wallets)
           /\ wallets[i] \in [memberId : Members, coinName : CoinNames,
                              address : 0..Len(allocated), isLock : BOOLEAN]
  <1> DEFINE Row == [memberId : Members, coinName : CoinNames,
                     address : 0..Len(allocated), isLock : BOOLEAN]
  <1>1. wallets \in Seq(Row)
    BY DEF WalletTypeOK
  <1> HIDE DEF Row
  <1>2. Len(wallets) \in Nat /\ i \in 1..Len(wallets) /\ wallets[i] \in Row
    BY <1>1
  <1> QED
    BY <1>2 DEF Row

\* A step that leaves the tables alone and takes one handler on keeps the types, if the
\* handler's new record is a good one.
LEMMA HandlerStep ==
    ASSUME WalletTypes, NEW r \in Requests,
           UNCHANGED <<wallets, allocated>>,
           wreq' \in [Requests -> Handlers(Len(wallets), Len(allocated))],
           \A q \in Requests \ {r} : wreq'[q] = wreq[q],
           KnownCoin(r)', KnownWallet(r)',
           shown' \subseteq [memberId : Members, address : 1..Len(allocated)],
           overlapped' \subseteq Members, failures' \in 0..MaxFailures
    PROVE  WalletTypes'
  <1>1. WalletTypeOK'
    BY TypesByHandlers DEF WalletTypes, WalletTypeOK, Handlers
  <1>2. RowsBearUnits'
    BY DEF WalletTypes, RowsBearUnits
  <1>3. \A q \in Requests \ {r} : KnownCoin(q)' /\ KnownWallet(q)'
    BY DEF WalletTypes, KnownCoin, KnownWallet, SameCoin
  <1> QED
    BY <1>1, <1>2, <1>3 DEF WalletTypes

\* A request that starts keeps the types.
LEMMA StartTypes ==
    ASSUME WalletTypes, NEW r \in Requests, NEW op \in {"find", "reset"}, NEW m \in Members,
           NEW name \in CoinNames, Start(r, op, m, name)
    PROVE  WalletTypes'
  <1>1. NoWallet \in [id : 0..Len(wallets), address : 0..Len(allocated), isLock : BOOLEAN]
    BY DEF WalletTypes, WalletTypeOK, NoWallet, NoAddress
  <1>2. wreq' \in [Requests -> Handlers(Len(wallets), Len(allocated))]
    BY <1>1, TypesByHandlers DEF WalletTypes, Start, Handlers
  <1>3. KnownCoin(r)' /\ KnownWallet(r)'
    BY TypesByHandlers DEF WalletTypes, Start, KnownCoin, KnownWallet, Live
  <1> QED
    BY <1>2, <1>3, HandlerStep, TypesByHandlers DEF WalletTypes, Start

\* So does the market's answer,
LEMMA FindCoinInfoTypes ==
    ASSUME WalletTypes, NEW r \in Requests, FindCoinInfo(r)
    PROVE  WalletTypes'
  <1>1. PICK pc \in {"failed", "find"} :
          /\ wreq' = [wreq EXCEPT ![r].pc = pc]
          /\ pc = "find" => UnitOf[wreq[r].coinName] # NoCoin
    BY DEF FindCoinInfo, Goto, FindByUnit
  <1>2. wreq' \in [Requests -> Handlers(Len(wallets), Len(allocated))]
    BY <1>1, TypesByHandlers DEF WalletTypes, Handlers
  <1>3. KnownCoin(r)' /\ KnownWallet(r)'
    BY <1>1, TypesByHandlers DEF WalletTypes, FindCoinInfo, KnownCoin, KnownWallet, Live, Handlers
  <1> QED
    BY <1>1, <1>2, <1>3, HandlerStep, TypesByHandlers DEF WalletTypes, FindCoinInfo

\* the SELECT of the wallet, which hands its row on,
LEMMA FindExistingTypes ==
    ASSUME WalletTypes, NEW r \in Requests, FindExisting(r)
    PROVE  WalletTypes'
  <1>1. CASE Goto(r, "save")
    <2>1. wreq' \in [Requests -> Handlers(Len(wallets), Len(allocated))]
      BY <1>1, TypesByHandlers DEF WalletTypes, Handlers, Goto
    <2>2. KnownCoin(r)' /\ KnownWallet(r)'
      BY <1>1, TypesByHandlers
      DEF WalletTypes, FindExisting, KnownCoin, KnownWallet, Live, Handlers, Goto
    <2> QED
      BY <1>1, <2>1, <2>2, HandlerStep, TypesByHandlers DEF WalletTypes, FindExisting, Goto
  <1>2. CASE \E i \in FindByMemberIDAndCoinName(wreq[r].memberId, wreq[r].coinName) :
                 wreq' = [wreq EXCEPT ![r].pc = AfterEnsure(r, Snapshot(i)),
                                      ![r].wallet = Snapshot(i)]
    <2>1. PICK i \in FindByMemberIDAndCoinName(wreq[r].memberId, wreq[r].coinName) :
                 wreq' = [wreq EXCEPT ![r].pc = AfterEnsure(r, Snapshot(i)),
                                      ![r].wallet = Snapshot(i)]
      BY <1>2
    <2>2. /\ i \in DOMAIN wallets /\ wallets[i].memberId = wreq[r].memberId
          /\ SameCoin(wallets[i].coinName, wreq[r].coinName)
      BY DEF FindByMemberIDAndCoinName, FindByMemberID
    <2>3. Snapshot(i) \in [id : 0..Len(wallets), address : 0..Len(allocated), isLock : BOOLEAN]
      <3>1. /\ Len(wallets) \in Nat /\ i \in 1..Len(wallets)
            /\ wallets[i] \in [memberId : Members, coinName : CoinNames,
                               address : 0..Len(allocated), isLock : BOOLEAN]
        BY <2>2, WalletRow DEF WalletTypes
      <3> QED
        BY <3>1 DEF Snapshot
    <2>4. /\ AfterEnsure(r, Snapshot(i)) \in {"allocate", "answered"}
          /\ AfterEnsure(r, Snapshot(i)) = "allocate" =>
                 wreq[r].op = "reset" /\ wreq[r].coinName = BTC
      BY DEF AfterEnsure
    <2>5. wreq' \in [Requests -> Handlers(Len(wallets), Len(allocated))]
      <3> DEFINE q == [wreq[r] EXCEPT !.pc = AfterEnsure(r, Snapshot(i)), !.wallet = Snapshot(i)]
      <3>1. wreq[r] \in Handlers(Len(wallets), Len(allocated))
        BY TypesByHandlers DEF WalletTypes
      <3>2. q \in Handlers(Len(wallets), Len(allocated))
        BY <3>1, <2>3, <2>4 DEF Handlers
      <3>3. wreq' = [wreq EXCEPT ![r] = q]
        BY <2>1, <3>1 DEF Handlers
      <3> HIDE DEF q
      <3> QED
        BY <3>2, <3>3, TypesByHandlers DEF WalletTypes
    <2>6. wreq'[r] = [wreq[r] EXCEPT !.pc = AfterEnsure(r, Snapshot(i)), !.wallet = Snapshot(i)]
      BY <2>1, TypesByHandlers DEF WalletTypes, Handlers
    <2>7. KnownCoin(r)'
      BY <2>6, <2>4, TypesByHandlers DEF WalletTypes, FindExisting, KnownCoin, Live, Handlers
    <2>8. KnownWallet(r)'
      BY <2>6, <2>2, TypesByHandlers
      DEF WalletTypes, FindExisting, KnownWallet, Handlers, Snapshot, SameCoin
    <2> QED
      BY <2>1, <2>5, <2>7, <2>8, HandlerStep, TypesByHandlers DEF WalletTypes, FindExisting
  <1> QED
    BY <1>1, <1>2 DEF FindExisting

\* A table grows by a row: what is known of the handlers and of the other rows stays.
LEMMA GrowStep ==
    ASSUME WalletTypes, NEW r \in Requests, NEW row,
           row \in [memberId : Members, coinName : CoinNames,
                    address : 0..Len(allocated), isLock : BOOLEAN],
           UnitOf[row.coinName] = row.coinName,
           wallets' = Append(wallets, row), UNCHANGED <<allocated, shown, overlapped>>,
           wreq' \in [Requests -> Handlers(Len(wallets) + 1, Len(allocated))],
           \A q \in Requests \ {r} : wreq'[q] = wreq[q],
           KnownCoin(r)', KnownWallet(r)',
           failures' \in 0..MaxFailures
    PROVE  WalletTypes'
  <1>1. /\ wallets' \in Seq([memberId : Members, coinName : CoinNames,
                             address : 0..Len(allocated), isLock : BOOLEAN])
        /\ Len(wallets') = Len(wallets) + 1
        /\ DOMAIN wallets' = 1..(Len(wallets) + 1) /\ DOMAIN wallets = 1..Len(wallets)
        /\ \A i \in DOMAIN wallets : i \in DOMAIN wallets' /\ wallets'[i] = wallets[i]
        /\ wallets'[Len(wallets) + 1] = row
    BY TypesByHandlers DEF WalletTypes
  <1>2. WalletTypeOK'
    BY <1>1, TypesByHandlers DEF WalletTypes, WalletTypeOK, Handlers
  <1>3. RowsBearUnits'
    BY <1>1 DEF WalletTypes, RowsBearUnits
  <1>4. ASSUME NEW q \in Requests \ {r} PROVE KnownCoin(q)' /\ KnownWallet(q)'
    <2>1. KnownCoin(q) /\ KnownWallet(q) /\ wreq'[q] = wreq[q]
      BY DEF WalletTypes
    <2>2. KnownCoin(q)'
      BY <2>1 DEF KnownCoin
    <2>3. KnownWallet(q)'
      BY <2>1, <1>1 DEF KnownWallet, SameCoin
    <2> QED
      BY <2>2, <2>3
  <1> QED
    BY <1>2, <1>3, <1>4 DEF WalletTypes

\* What the INSERT hands on: the new id, and no address.
LEMMA InsertedWallet ==
    ASSUME NEW n \in Nat, NEW k \in Nat
    PROVE  /\ Inserted(n) \in [id : 0..n, address : 0..k, isLock : BOOLEAN]
           /\ Inserted(n).id = n /\ Inserted(n).address = NoAddress
  <1> DEFINE none == [id |-> 0, address |-> 0, isLock |-> FALSE]
  <1>1. Inserted(n) = [none EXCEPT !.id = n]
    BY DEF Inserted, NoWallet, NoAddress
  <1>2. none \in [id : 0..n, address : 0..k, isLock : BOOLEAN] /\ none.address = 0
    OBVIOUS
  <1> HIDE DEF none
  <1> QED
    BY <1>1, <1>2 DEF NoAddress

\* The INSERT keeps the types, or is refused by the unique key.
LEMMA SaveTypes ==
    ASSUME WalletTypes, NEW r \in Requests, Save(r)
    PROVE  WalletTypes'
  <1> DEFINE m == wreq[r].memberId
             name == wreq[r].coinName
             wallet == Inserted(Len(wallets) + 1)
             row == NewWallet(m, name)
  <1>0. /\ wreq[r] \in Handlers(Len(wallets), Len(allocated)) /\ wreq[r].pc = "save"
        /\ Len(wallets) \in Nat /\ Len(allocated) \in Nat
    BY TypesByHandlers DEF WalletTypes, Save
  <1>1. CASE KeyTaken(m, UnitOf[name])
    <2>1. Goto(r, "failed") /\ UNCHANGED <<wallets, allocated, shown, overlapped, failures>>
      BY <1>1 DEF Save
    <2>2. wreq' \in [Requests -> Handlers(Len(wallets), Len(allocated))]
      BY <2>1, TypesByHandlers DEF WalletTypes, Handlers, Goto
    <2>3. KnownCoin(r)' /\ KnownWallet(r)'
      BY <2>1, <1>0, TypesByHandlers DEF WalletTypes, KnownCoin, KnownWallet, Live, Handlers, Goto
    <2> QED
      BY <2>1, <2>2, <2>3, HandlerStep, TypesByHandlers DEF WalletTypes, Goto
  <1>2. CASE ~KeyTaken(m, UnitOf[name])
    <2>1. /\ wallets' = Append(wallets, row)
          /\ Answered(r, AfterEnsure(r, wallet), wallet)
          /\ UNCHANGED <<allocated, shown, overlapped>>
      BY <1>2 DEF Save
    <2>2. /\ m \in Members /\ name \in CoinNames /\ UnitOf[name] \in CoinNames
          /\ UnitOf[UnitOf[name]] = UnitOf[name]
      BY <1>0, WalletConstants DEF WalletTypes, KnownCoin, Live
    <2>3. /\ row \in [memberId : Members, coinName : CoinNames,
                      address : 0..Len(allocated), isLock : BOOLEAN]
          /\ row.memberId = m /\ row.coinName = UnitOf[name]
      BY <2>2, <1>0 DEF NewWallet, NoAddress
    <2>4. /\ wallet \in [id : 0..(Len(wallets) + 1), address : 0..Len(allocated), isLock : BOOLEAN]
          /\ wallet.id = Len(wallets) + 1 /\ wallet.address = NoAddress
      BY <1>0, InsertedWallet
    <2>5. /\ AfterEnsure(r, wallet) \in {"allocate", "update", "answered"}
          /\ AfterEnsure(r, wallet) # "update"
          /\ AfterEnsure(r, wallet) = "allocate" =>
                 wreq[r].op = "reset" /\ wreq[r].coinName = BTC
      BY DEF AfterEnsure
    <2>6. /\ wreq \in [Requests -> Handlers(Len(wallets) + 1, Len(allocated))]
          /\ failures \in 0..MaxFailures
      BY <1>0, HandlersGrow, TypesByHandlers DEF WalletTypes
    <2> HIDE DEF m, name, wallet, row
    <2>7. /\ wreq' \in [Requests -> Handlers(Len(wallets) + 1, Len(allocated))]
          /\ failures' \in 0..MaxFailures
          /\ \A q \in Requests \ {r} : wreq'[q] = wreq[q]
          /\ wreq'[r].memberId = m /\ wreq'[r].coinName = name /\ wreq'[r].op = wreq[r].op
          /\ wreq'[r].pc \in {AfterEnsure(r, wallet), "failed"}
          /\ wreq'[r].pc = AfterEnsure(r, wallet) => wreq'[r].wallet = wallet
      BY <2>1, <2>4, <2>5, <2>6, <1>0, AnsweredTypes DEF m, name
    <2>8. KnownCoin(r)'
      BY <2>5, <2>7, <1>0 DEF WalletTypes, KnownCoin, Live, m, name
    <2>9. KnownWallet(r)'
      <3>1. /\ wallets' \in Seq([memberId : Members, coinName : CoinNames,
                                 address : 0..Len(allocated), isLock : BOOLEAN])
            /\ Len(wallets) + 1 \in DOMAIN wallets' /\ wallets'[Len(wallets) + 1] = row
        BY <2>1, <2>3, TypesByHandlers DEF WalletTypes
      <3> QED
        BY <3>1, <2>2, <2>3, <2>4, <2>5, <2>7 DEF KnownWallet, SameCoin
    <2> QED
      BY <2>1, <2>2, <2>3, <2>7, <2>8, <2>9, GrowStep
  <1> QED
    BY <1>1, <1>2

\* The node's new address keeps the types: the range of addresses grows by it.
LEMMA AllocateTypes ==
    ASSUME WalletTypes, NEW r \in Requests, Allocate(r)
    PROVE  WalletTypes'
  <1> DEFINE w == [wreq[r].wallet EXCEPT !.address = Len(allocated) + 1]
             Row(k) == [memberId : Members, coinName : CoinNames, address : 0..k, isLock : BOOLEAN]
  <1>0. /\ wreq[r] \in Handlers(Len(wallets), Len(allocated)) /\ wreq[r].pc = "allocate"
        /\ Len(wallets) \in Nat /\ Len(allocated) \in Nat /\ allocated \in Seq(Members)
        /\ failures \in 0..MaxFailures
    BY TypesByHandlers DEF WalletTypes, Allocate
  <1>1. wreq[r].memberId \in Members
    BY <1>0 DEF WalletTypes, KnownCoin, Live
  <1>2. /\ allocated' = Append(allocated, wreq[r].memberId)
        /\ Answered(r, "update", w) /\ UNCHANGED <<wallets, shown, overlapped>>
    BY DEF Allocate
  <1>3. allocated' \in Seq(Members) /\ Len(allocated') = Len(allocated) + 1
    BY <1>0, <1>1, <1>2
  <1>4. wreq \in [Requests -> Handlers(Len(wallets), Len(allocated) + 1)]
    BY <1>0, HandlersGrow, TypesByHandlers DEF WalletTypes
  <1>5. /\ w \in [id : 0..Len(wallets), address : 0..(Len(allocated) + 1), isLock : BOOLEAN]
        /\ w.id = wreq[r].wallet.id
    BY <1>0 DEF Handlers
  <1> HIDE DEF w
  <1>6. /\ wreq' \in [Requests -> Handlers(Len(wallets), Len(allocated) + 1)]
        /\ failures' \in 0..MaxFailures
        /\ \A q \in Requests \ {r} : wreq'[q] = wreq[q]
        /\ wreq'[r].memberId = wreq[r].memberId /\ wreq'[r].coinName = wreq[r].coinName
        /\ wreq'[r].op = wreq[r].op /\ wreq'[r].pc \in {"update", "failed"}
        /\ wreq'[r].pc = "update" => wreq'[r].wallet = w
    BY <1>0, <1>2, <1>4, <1>5, AnsweredTypes
  <1>7. wallets' \in Seq(Row(Len(allocated) + 1))
    <2>1. 0..Len(allocated) \subseteq 0..(Len(allocated) + 1)
      BY <1>0
    <2>2. Row(Len(allocated)) \subseteq Row(Len(allocated) + 1)
      BY <2>1
    <2>3. wallets \in Seq(Row(Len(allocated)))
      BY TypesByHandlers DEF WalletTypes
    <2> HIDE DEF Row
    <2> QED
      BY <1>2, <2>2, <2>3
  <1>8. shown' \subseteq [memberId : Members, address : 1..(Len(allocated) + 1)]
    BY <1>0, <1>2, TypesByHandlers DEF WalletTypes
  <1>9. WalletTypeOK'
    BY <1>2, <1>3, <1>6, <1>7, <1>8 DEF WalletTypes, WalletTypeOK, Handlers
  <1>10. RowsBearUnits'
    BY <1>2 DEF WalletTypes, RowsBearUnits
  <1>11. \A q \in Requests \ {r} : KnownCoin(q)' /\ KnownWallet(q)'
    BY <1>2, <1>6 DEF WalletTypes, KnownCoin, KnownWallet, SameCoin
  <1>12. KnownCoin(r)' /\ KnownWallet(r)'
    BY <1>0, <1>2, <1>5, <1>6 DEF WalletTypes, KnownCoin, KnownWallet, SameCoin, Live
  <1> QED
    BY <1>9, <1>10, <1>11, <1>12 DEF WalletTypes

\* A step that changes addresses or locks of rows and takes one handler on.
LEMMA RowsStep ==
    ASSUME WalletTypes, NEW r \in Requests,
           wallets' \in Seq([memberId : Members, coinName : CoinNames,
                             address : 0..Len(allocated), isLock : BOOLEAN]),
           Len(wallets') = Len(wallets),
           \A i \in DOMAIN wallets : /\ wallets'[i].memberId = wallets[i].memberId
                                     /\ wallets'[i].coinName = wallets[i].coinName,
           UNCHANGED allocated,
           wreq' \in [Requests -> Handlers(Len(wallets), Len(allocated))],
           \A q \in Requests \ {r} : wreq'[q] = wreq[q],
           KnownCoin(r)', KnownWallet(r)',
           shown' \subseteq [memberId : Members, address : 1..Len(allocated)],
           overlapped' \subseteq Members, failures' \in 0..MaxFailures
    PROVE  WalletTypes'
  <1>1. DOMAIN wallets' = DOMAIN wallets
    BY DEF WalletTypes, WalletTypeOK
  <1>2. WalletTypeOK'
    BY DEF WalletTypes, WalletTypeOK, Handlers
  <1>3. RowsBearUnits'
    BY <1>1 DEF WalletTypes, RowsBearUnits
  <1>4. ASSUME NEW q \in Requests \ {r} PROVE KnownCoin(q)' /\ KnownWallet(q)'
    <2>1. KnownCoin(q) /\ KnownWallet(q) /\ wreq'[q] = wreq[q]
      BY DEF WalletTypes
    <2>2. KnownCoin(q)'
      BY <2>1 DEF KnownCoin
    <2>3. KnownWallet(q)'
      BY <2>1, <1>1 DEF KnownWallet, SameCoin
    <2> QED
      BY <2>2, <2>3
  <1> QED
    BY <1>2, <1>3, <1>4 DEF WalletTypes

\* What the UPDATE of an address leaves of the rows.
LEMMA WrittenRows ==
    ASSUME WalletTypeOK, NEW w, w.address \in 0..Len(allocated)
    PROVE  /\ WriteAddress(w) \in Seq([memberId : Members, coinName : CoinNames,
                                       address : 0..Len(allocated), isLock : BOOLEAN])
           /\ Len(WriteAddress(w)) = Len(wallets)
           /\ DOMAIN WriteAddress(w) = DOMAIN wallets
           /\ \A i \in DOMAIN wallets :
                /\ WriteAddress(w)[i].memberId = wallets[i].memberId
                /\ WriteAddress(w)[i].coinName = wallets[i].coinName
                /\ WriteAddress(w)[i].address =
                     IF i = w.id THEN w.address ELSE wallets[i].address
  <1> DEFINE Row == [memberId : Members, coinName : CoinNames,
                     address : 0..Len(allocated), isLock : BOOLEAN]
  <1>1. \A i \in DOMAIN wallets : wallets[i] \in Row
    BY WalletRow
  <1>2. ASSUME NEW i \in DOMAIN wallets
        PROVE  /\ WriteAddress(w)[i] \in Row
               /\ WriteAddress(w)[i].memberId = wallets[i].memberId
               /\ WriteAddress(w)[i].coinName = wallets[i].coinName
               /\ WriteAddress(w)[i].address = IF i = w.id THEN w.address ELSE wallets[i].address
    BY <1>1, <1>2 DEF WriteAddress
  <1>3. Len(wallets) \in Nat /\ DOMAIN wallets = 1..Len(wallets)
    BY DEF WalletTypeOK
  <1>4. DOMAIN WriteAddress(w) = 1..Len(wallets)
    BY <1>3 DEF WriteAddress
  <1> HIDE DEF Row
  <1>5. WriteAddress(w) \in [1..Len(wallets) -> Row]
    BY <1>2, <1>3, <1>4 DEF WriteAddress
  <1>6. WriteAddress(w) \in Seq(Row) /\ Len(WriteAddress(w)) = Len(wallets)
    BY <1>3, <1>5
  <1> QED
    BY <1>2, <1>3, <1>4, <1>6 DEF Row

\* The UPDATE keeps the types: it changes an address, not a row's owner.
LEMMA UpdateAddressTypes ==
    ASSUME WalletTypes, NEW r \in Requests, UpdateAddress(r)
    PROVE  WalletTypes'
  <1>0. /\ wreq[r] \in Handlers(Len(wallets), Len(allocated)) /\ wreq[r].pc = "update"
        /\ Len(wallets) \in Nat /\ Len(allocated) \in Nat /\ failures \in 0..MaxFailures
        /\ wreq \in [Requests -> Handlers(Len(wallets), Len(allocated))]
    BY TypesByHandlers DEF WalletTypes, UpdateAddress
  <1>1. /\ wallets' = WriteAddress(wreq[r].wallet)
        /\ Answered(r, "answered", wreq[r].wallet)
        /\ UNCHANGED <<allocated, shown, overlapped>>
    BY DEF UpdateAddress
  <1>2. wreq[r].wallet \in [id : 0..Len(wallets), address : 0..Len(allocated), isLock : BOOLEAN]
    BY <1>0 DEF Handlers
  <1>3. /\ wreq' \in [Requests -> Handlers(Len(wallets), Len(allocated))]
        /\ failures' \in 0..MaxFailures
        /\ \A q \in Requests \ {r} : wreq'[q] = wreq[q]
        /\ wreq'[r].memberId = wreq[r].memberId /\ wreq'[r].coinName = wreq[r].coinName
        /\ wreq'[r].op = wreq[r].op /\ wreq'[r].pc \in {"answered", "failed"}
        /\ wreq'[r].pc = "answered" => wreq'[r].wallet = wreq[r].wallet
    BY <1>0, <1>1, <1>2, AnsweredTypes
  <1>4. /\ wallets' \in Seq([memberId : Members, coinName : CoinNames,
                             address : 0..Len(allocated), isLock : BOOLEAN])
        /\ Len(wallets') = Len(wallets) /\ DOMAIN wallets' = DOMAIN wallets
        /\ \A i \in DOMAIN wallets : /\ wallets'[i].memberId = wallets[i].memberId
                                     /\ wallets'[i].coinName = wallets[i].coinName
    BY <1>1, <1>2, WrittenRows DEF WalletTypes
  <1>5. KnownCoin(r)'
    BY <1>0, <1>3 DEF WalletTypes, KnownCoin, Live
  <1>6. KnownWallet(r)'
    <2> DEFINE n == wreq[r].wallet.id
    <2>1. /\ n \in DOMAIN wallets /\ wallets[n].memberId = wreq[r].memberId
          /\ SameCoin(wallets[n].coinName, wreq[r].coinName)
      BY <1>0 DEF WalletTypes, KnownWallet
    <2>2. /\ n \in DOMAIN wallets' /\ wallets'[n].memberId = wreq[r].memberId
          /\ SameCoin(wallets'[n].coinName, wreq[r].coinName)
      BY <1>4, <2>1
    <2>3. /\ wreq'[r].pc \in {"answered", "failed"}
          /\ wreq'[r].pc = "answered" => wreq'[r].wallet.id = n
      BY <1>3
    <2>4. /\ wreq'[r].memberId = wreq[r].memberId
          /\ wreq'[r].coinName = wreq[r].coinName
      BY <1>3
    <2> HIDE DEF n
    <2> QED
      BY <2>2, <2>3, <2>4 DEF KnownWallet
  <1> QED
    BY <1>1, <1>3, <1>4, <1>5, <1>6, RowsStep, TypesByHandlers DEF WalletTypes

\* So does a call that fails,
LEMMA CallFailsTypes ==
    ASSUME WalletTypes, NEW r \in Requests, CallFails(r)
    PROVE  WalletTypes'
  <1>1. wreq' \in [Requests -> Handlers(Len(wallets), Len(allocated))]
    BY TypesByHandlers DEF WalletTypes, CallFails, Goto, Handlers
  <1>2. KnownCoin(r)' /\ KnownWallet(r)'
    BY TypesByHandlers
    DEF WalletTypes, CallFails, Goto, Handlers, KnownCoin, KnownWallet, Live, Running
  <1>3. failures' \in 0..MaxFailures
    BY TypesByHandlers, WalletConstants DEF WalletTypes, CallFails
  <1>4. \A q \in Requests \ {r} : wreq'[q] = wreq[q]
    BY TypesByHandlers DEF WalletTypes, CallFails, Goto
  <1> QED
    BY <1>1, <1>2, <1>3, <1>4, HandlerStep, TypesByHandlers DEF WalletTypes, CallFails

\* the answer to a member,
LEMMA AnswerTypes ==
    ASSUME WalletTypes, NEW r \in Requests, Answer(r)
    PROVE  WalletTypes'
  <1>0. /\ wreq[r] \in Handlers(Len(wallets), Len(allocated)) /\ wreq[r].pc = "answered"
        /\ wreq[r].memberId \in Members /\ Len(allocated) \in Nat
    BY TypesByHandlers DEF WalletTypes, Answer, KnownCoin, Live
  <1>1. wreq' \in [Requests -> Handlers(Len(wallets), Len(allocated))]
    BY TypesByHandlers DEF WalletTypes, Answer, Goto, Handlers
  <1>2. KnownCoin(r)' /\ KnownWallet(r)'
    BY TypesByHandlers DEF WalletTypes, Answer, Goto, Handlers, KnownCoin, KnownWallet, Live
  <1>3. Told(wreq[r].memberId, {wreq[r].wallet.address})
            \subseteq [memberId : Members, address : 1..Len(allocated)]
    BY <1>0 DEF Told, Handlers, NoAddress
  <1> QED
    BY <1>1, <1>2, <1>3, HandlerStep, TypesByHandlers DEF WalletTypes, Answer, Goto

\* and the answer to an order.
LEMMA TakenTypes ==
    ASSUME WalletTypes, NEW r \in Requests, Taken(r)
    PROVE  WalletTypes'
  <1>1. Idle \in Handlers(Len(wallets), Len(allocated))
    BY DEF WalletTypes, WalletTypeOK, Idle, NoWallet, NoAddress, Handlers
  <1>2. wreq' \in [Requests -> Handlers(Len(wallets), Len(allocated))]
    BY <1>1, TypesByHandlers DEF WalletTypes, Taken
  <1>3. KnownCoin(r)' /\ KnownWallet(r)'
    BY TypesByHandlers DEF WalletTypes, Taken, Idle, KnownCoin, KnownWallet, Live
  <1> QED
    BY <1>2, <1>3, HandlerStep, TypesByHandlers DEF WalletTypes, Taken

\* Steps of nobody's handler.
LEMMA OtherTypes ==
    ASSUME WalletTypes,
           \/ \E m \in Members : FindWallet(m)
           \/ \E i \in DOMAIN wallets : Locked(i)
           \/ /\ UNCHANGED <<wallets, allocated, wreq, shown, overlapped>>
              /\ failures' \in 0..MaxFailures
    PROVE  WalletTypes'
  <1>1. ASSUME NEW m \in Members, FindWallet(m) PROVE WalletTypes'
    <2>1. ASSUME NEW i \in FindByMemberID(m) PROVE wallets[i].address \in 0..Len(allocated)
      BY WalletRow DEF WalletTypes, FindByMemberID
    <2>2. Told(m, {wallets[i].address : i \in FindByMemberID(m)})
              \subseteq [memberId : Members, address : 1..Len(allocated)]
      BY <2>1 DEF Told, NoAddress, WalletTypes, WalletTypeOK
    <2> QED
      BY <1>1, <2>2
      DEF FindWallet, WalletTypes, WalletTypeOK, RowsBearUnits, KnownCoin, KnownWallet, SameCoin
  <1>2. ASSUME NEW i \in DOMAIN wallets, Locked(i) PROVE WalletTypes'
    <2> DEFINE Row == [memberId : Members, coinName : CoinNames,
                       address : 0..Len(allocated), isLock : BOOLEAN]
    <2>1. wallets[i] \in Row /\ wallets \in Seq(Row)
      BY WalletRow, TypesByHandlers DEF WalletTypes
    <2>2. /\ [wallets[i] EXCEPT !.isLock = TRUE] \in Row
          /\ wallets' = [wallets EXCEPT ![i] = [wallets[i] EXCEPT !.isLock = TRUE]]
          /\ [wallets[i] EXCEPT !.isLock = TRUE].memberId = wallets[i].memberId
          /\ [wallets[i] EXCEPT !.isLock = TRUE].coinName = wallets[i].coinName
      BY <1>2, <2>1 DEF Locked
    <2>3. \A k \in DOMAIN wallets : /\ wallets'[k].memberId = wallets[k].memberId
                                    /\ wallets'[k].coinName = wallets[k].coinName
      BY <2>2
    <2> HIDE DEF Row
    <2>4. wallets' \in Seq(Row) /\ Len(wallets') = Len(wallets) /\ DOMAIN wallets' = DOMAIN wallets
      BY <2>1, <2>2
    <2>5. WalletTypeOK'
      BY <1>2, <2>4 DEF Row, Locked, WalletTypes, WalletTypeOK
    <2> QED
      BY <1>2, <2>3, <2>4, <2>5
      DEF Locked, WalletTypes, RowsBearUnits, KnownCoin, KnownWallet, SameCoin
  <1>3. CASE /\ UNCHANGED <<wallets, allocated, wreq, shown, overlapped>>
             /\ failures' \in 0..MaxFailures
    BY <1>3 DEF WalletTypes, WalletTypeOK, RowsBearUnits, KnownCoin, KnownWallet, SameCoin
  <1> QED
    BY <1>1, <1>2, <1>3

\* All steps keep the types of the wallets.
LEMMA WalletTypesStep == WalletTypes /\ WalletAction => WalletTypes'
  BY StartTypes, FindCoinInfoTypes, FindExistingTypes, SaveTypes, AllocateTypes,
     UpdateAddressTypes, CallFailsTypes, AnswerTypes, TakenTypes, OtherTypes
  DEF WalletAction, WalletCall

-----------------------------------------------------------------------------
(* One wallet per coin, one owner per address. *)

\* A reset that was carried out left an address.
HasReset(r) ==
    /\ wreq[r].op = "reset" /\ wreq[r].coinName = BTC
    /\ wreq[r].pc \in {"answered", "done"}
    => \E i \in FindByMemberIDAndCoinName(wreq[r].memberId, BTC) :
           wallets[i].address # NoAddress

\* A step that leaves the tables alone and does not make r hold an address.
LEMMA HandlerInv ==
    ASSUME WalletIInv, WalletTypes', NEW r \in Requests, UNCHANGED <<wallets, allocated>>,
           \A q \in Requests \ {r} : wreq'[q] = wreq[q],
           wreq'[r].pc # "update", HasReset(r)'
    PROVE  WalletIInv'
  <1>1. \A q \in Requests : PendingIsFresh(q)'
    BY DEF WalletIInv, PendingIsFresh
  <1>2. OneWalletPerCoin' /\ AddressOfOneMember'
    BY DEF WalletIInv, OneWalletPerCoin, AddressOfOneMember, SameCoin
  <1>3. ASSUME NEW q \in Requests \ {r} PROVE HasReset(q)'
    <2>1. HasReset(q) /\ wreq'[q] = wreq[q]
      BY DEF WalletIInv, ResetGivesAddress, HasReset
    <2>2. \A m : FindByMemberIDAndCoinName(m, BTC)' = FindByMemberIDAndCoinName(m, BTC)
      BY DEF FindByMemberIDAndCoinName, FindByMemberID, SameCoin
    <2> QED
      BY <2>1, <2>2 DEF HasReset
  <1>4. ResetGivesAddress'
    BY <1>3 DEF ResetGivesAddress, HasReset
  <1> QED
    BY <1>1, <1>2, <1>4 DEF WalletIInv

\* A request that starts has done nothing yet.
LEMMA StartInv ==
    ASSUME WalletIInv, WalletTypes', NEW r \in Requests, NEW op \in {"find", "reset"},
           NEW m \in Members, NEW name \in CoinNames, Start(r, op, m, name)
    PROVE  WalletIInv'
  <1>1. /\ wreq'[r].pc = "coin" /\ UNCHANGED <<wallets, allocated>>
        /\ \A q \in Requests \ {r} : wreq'[q] = wreq[q]
    BY TypesByHandlers DEF WalletIInv, WalletTypes, Start
  <1>2. HasReset(r)'
    BY <1>1 DEF HasReset
  <1> QED
    BY <1>1, <1>2, HandlerInv

\* The market's answer changes nothing either.
LEMMA FindCoinInfoInv ==
    ASSUME WalletIInv, WalletTypes', NEW r \in Requests, FindCoinInfo(r)
    PROVE  WalletIInv'
  <1>1. PICK pc \in {"failed", "find"} : wreq' = [wreq EXCEPT ![r].pc = pc]
    BY DEF FindCoinInfo, Goto
  <1>2. /\ wreq'[r].pc = pc /\ UNCHANGED <<wallets, allocated>>
        /\ \A q \in Requests \ {r} : wreq'[q] = wreq[q]
    BY <1>1, TypesByHandlers DEF WalletIInv, WalletTypes, FindCoinInfo, Handlers
  <1>3. HasReset(r)'
    BY <1>2 DEF HasReset
  <1> QED
    BY <1>2, <1>3, HandlerInv

\* A reset that finds an address in the row it reads is done.
LEMMA FindExistingInv ==
    ASSUME WalletIInv, WalletTypes', NEW r \in Requests, FindExisting(r)
    PROVE  WalletIInv'
  <1>0. /\ wreq \in [Requests -> Handlers(Len(wallets), Len(allocated))]
        /\ UNCHANGED <<wallets, allocated>>
    BY TypesByHandlers DEF WalletIInv, WalletTypes, FindExisting
  <1>1. CASE Goto(r, "save")
    <2>1. wreq'[r].pc = "save" /\ \A q \in Requests \ {r} : wreq'[q] = wreq[q]
      BY <1>0, <1>1 DEF Goto, Handlers
    <2>2. HasReset(r)'
      BY <2>1 DEF HasReset
    <2> QED
      BY <1>0, <2>1, <2>2, HandlerInv
  <1>2. ASSUME NEW i \in FindByMemberIDAndCoinName(wreq[r].memberId, wreq[r].coinName),
               wreq' = [wreq EXCEPT ![r].pc = AfterEnsure(r, Snapshot(i)),
                                    ![r].wallet = Snapshot(i)]
        PROVE  WalletIInv'
    <2>1. /\ wreq'[r].pc = AfterEnsure(r, Snapshot(i))
          /\ wreq'[r].op = wreq[r].op /\ wreq'[r].coinName = wreq[r].coinName
          /\ wreq'[r].memberId = wreq[r].memberId
          /\ \A q \in Requests \ {r} : wreq'[q] = wreq[q]
      BY <1>0, <1>2 DEF Handlers
    <2>2. AfterEnsure(r, Snapshot(i)) \in {"allocate", "answered"}
      BY DEF AfterEnsure
    <2>3. ASSUME wreq[r].op = "reset", wreq[r].coinName = BTC,
                 AfterEnsure(r, Snapshot(i)) = "answered"
          PROVE  wallets[i].address # NoAddress
      BY <2>3 DEF AfterEnsure, Snapshot
    <2>4. FindByMemberIDAndCoinName(wreq[r].memberId, BTC)'
              = FindByMemberIDAndCoinName(wreq[r].memberId, BTC)
      BY <1>0, <2>1 DEF FindByMemberIDAndCoinName, FindByMemberID, SameCoin
    <2>5. HasReset(r)'
      BY <1>0, <2>1, <2>2, <2>3, <2>4 DEF HasReset
    <2> QED
      BY <1>0, <2>1, <2>2, <2>5, HandlerInv
  <1> QED
    BY <1>1, <1>2 DEF FindExisting

\* The new row is the only one of its member and coin, and has no address yet.
LEMMA SaveInv ==
    ASSUME WalletIInv, WalletTypes', NEW r \in Requests, Save(r)
    PROVE  WalletIInv'
  <1> DEFINE m == wreq[r].memberId
             name == wreq[r].coinName
             wallet == Inserted(Len(wallets) + 1)
  <1>0. /\ wreq \in [Requests -> Handlers(Len(wallets), Len(allocated))]
        /\ Len(wallets) \in Nat /\ Len(allocated) \in Nat /\ failures \in 0..MaxFailures
        /\ allocated' = allocated
    BY TypesByHandlers DEF WalletIInv, WalletTypes, Save
  <1>1. CASE KeyTaken(m, UnitOf[name])
    <2>1. Goto(r, "failed") /\ UNCHANGED <<wallets, allocated>>
      BY <1>1 DEF Save
    <2>2. wreq'[r].pc = "failed" /\ \A q \in Requests \ {r} : wreq'[q] = wreq[q]
      BY <1>0, <2>1 DEF Goto, Handlers
    <2>3. HasReset(r)'
      BY <2>2 DEF HasReset
    <2> QED
      BY <2>1, <2>2, <2>3, HandlerInv
  <1>2. CASE ~KeyTaken(m, UnitOf[name])
    <2>1. /\ wallets' = Append(wallets, NewWallet(m, name))
          /\ Answered(r, AfterEnsure(r, wallet), wallet)
      BY <1>2 DEF Save
    <2>2. /\ DOMAIN wallets' = DOMAIN wallets \cup {Len(wallets) + 1}
          /\ \A i \in DOMAIN wallets : wallets'[i] = wallets[i] /\ i # Len(wallets) + 1
          /\ wallets'[Len(wallets) + 1] = NewWallet(m, name)
      BY <2>1, TypesByHandlers DEF WalletIInv, WalletTypes
    <2>3. /\ NewWallet(m, name).memberId = m /\ NewWallet(m, name).coinName = UnitOf[name]
          /\ NewWallet(m, name).address = NoAddress
      BY DEF NewWallet
    <2>4. /\ wallet \in [id : 0..(Len(wallets) + 1), address : 0..Len(allocated), isLock : BOOLEAN]
          /\ wallet.address = NoAddress
      BY <1>0, InsertedWallet
    <2>5. /\ AfterEnsure(r, wallet) \in {"allocate", "answered"}
          /\ ~(/\ AfterEnsure(r, wallet) = "answered"
               /\ wreq[r].op = "reset" /\ wreq[r].coinName = BTC)
      BY <2>4 DEF AfterEnsure
    <2>6. /\ wreq \in [Requests -> Handlers(Len(wallets) + 1, Len(allocated))]
          /\ Len(wallets) + 1 \in Nat
      BY <1>0, HandlersGrow
    <2> HIDE DEF m, name, wallet
    <2>7. /\ \A q \in Requests \ {r} : wreq'[q] = wreq[q]
          /\ wreq'[r].coinName = wreq[r].coinName /\ wreq'[r].op = wreq[r].op
          /\ wreq'[r].pc \in {AfterEnsure(r, wallet), "failed"}
      BY <1>0, <2>1, <2>4, <2>5, <2>6, AnsweredTypes
    <2>8. \A q \in Requests : PendingIsFresh(q)'
      <3>1. \A q \in Requests : wreq'[q].pc = "update" => q # r /\ wreq[q] = wreq'[q]
        BY <2>5, <2>7
      <3>2. ASSUME NEW q \in Requests, wreq[q].pc = "update"
            PROVE  wreq[q].wallet.address # NoAddress
        <4>1. wreq[q].wallet.address \in DOMAIN allocated
          BY <3>2 DEF WalletIInv, PendingIsFresh
        <4>2. DOMAIN allocated = 1..Len(allocated)
          BY TypesByHandlers DEF WalletIInv, WalletTypes
        <4> QED
          BY <4>1, <4>2, <1>0 DEF NoAddress
      <3> QED
        BY <1>0, <2>2, <2>3, <3>1, <3>2 DEF WalletIInv, PendingIsFresh
    <2>9. OneWalletPerCoin'
      <3>1. ASSUME NEW i \in DOMAIN wallets, wallets[i].memberId = m
            PROVE  ~SameCoin(wallets[i].coinName, UnitOf[name])
        BY <1>2, <3>1 DEF KeyTaken, FindByMemberIDAndCoinName, FindByMemberID, m, name
      <3> QED
        BY <2>2, <2>3, <3>1 DEF WalletIInv, OneWalletPerCoin, SameCoin
    <2>10. AddressOfOneMember'
      BY <1>0, <2>2, <2>3 DEF WalletIInv, AddressOfOneMember
    <2>11. ASSUME NEW q \in Requests PROVE HasReset(q)'
      <3>1. CASE q = r
        BY <3>1, <2>5, <2>7 DEF HasReset
      <3>2. CASE q # r
        <4>1. HasReset(q) /\ wreq'[q] = wreq[q]
          BY <3>2, <2>7 DEF WalletIInv, ResetGivesAddress, HasReset
        <4>2. ASSUME NEW i \in FindByMemberIDAndCoinName(wreq[q].memberId, BTC)
              PROVE  /\ i \in FindByMemberIDAndCoinName(wreq[q].memberId, BTC)'
                     /\ wallets'[i] = wallets[i]
          BY <2>2, <4>1 DEF FindByMemberIDAndCoinName, FindByMemberID, SameCoin
        <4> QED
          BY <4>1, <4>2 DEF HasReset
      <3> QED
        BY <3>1, <3>2
    <2> QED
      BY <2>8, <2>9, <2>10, <2>11 DEF WalletIInv, ResetGivesAddress, HasReset
  <1> QED
    BY <1>1, <1>2

\* The address the node just made is in no wallet, and no other handler holds it.
LEMMA AllocateInv ==
    ASSUME WalletIInv, WalletTypes', NEW r \in Requests, Allocate(r)
    PROVE  WalletIInv'
  <1> DEFINE w == [wreq[r].wallet EXCEPT !.address = Len(allocated) + 1]
  <1>0. /\ wreq \in [Requests -> Handlers(Len(wallets), Len(allocated))]
        /\ Len(wallets) \in Nat /\ Len(allocated) \in Nat /\ allocated \in Seq(Members)
        /\ failures \in 0..MaxFailures /\ wreq[r].memberId \in Members
        /\ wallets' = wallets /\ allocated' = Append(allocated, wreq[r].memberId)
    BY TypesByHandlers DEF WalletIInv, WalletTypes, Allocate, KnownCoin, Live
  <1>1. /\ DOMAIN allocated' = DOMAIN allocated \cup {Len(allocated) + 1}
        /\ DOMAIN allocated = 1..Len(allocated)
        /\ \A a \in DOMAIN allocated : allocated'[a] = allocated[a]
        /\ allocated'[Len(allocated) + 1] = wreq[r].memberId
    BY <1>0
  <1>2. /\ w \in [id : 0..Len(wallets), address : 0..(Len(allocated) + 1), isLock : BOOLEAN]
        /\ w.address = Len(allocated) + 1
    BY <1>0 DEF Handlers
  <1>3. /\ wreq \in [Requests -> Handlers(Len(wallets), Len(allocated) + 1)]
        /\ Answered(r, "update", w)
    BY <1>0, HandlersGrow DEF Allocate
  <1> HIDE DEF w
  <1>4. /\ \A q \in Requests \ {r} : wreq'[q] = wreq[q]
        /\ wreq'[r].memberId = wreq[r].memberId /\ wreq'[r].pc \in {"update", "failed"}
        /\ wreq'[r].pc = "update" => wreq'[r].wallet = w
    BY <1>0, <1>2, <1>3, AnsweredTypes
  <1>5. \A i \in DOMAIN wallets :
          /\ wallets[i].address \in 0..Len(allocated)
          /\ wallets[i].address # NoAddress => wallets[i].address \in DOMAIN allocated
    BY <1>0, <1>1, WalletRow DEF WalletIInv, WalletTypes, NoAddress
  <1>6. ASSUME NEW q \in Requests PROVE PendingIsFresh(q)'
    <2>1. \A p \in Requests \ {r} : wreq[p].pc = "update" =>
              wreq[p].wallet.address \in 1..Len(allocated)
      BY <1>1 DEF WalletIInv, PendingIsFresh
    <2>2. CASE q = r
      BY <1>0, <1>1, <1>2, <1>4, <1>5, <2>1, <2>2 DEF PendingIsFresh
    <2>3. CASE q # r
      BY <1>0, <1>1, <1>2, <1>4, <2>1, <2>3 DEF WalletIInv, PendingIsFresh
    <2> QED
      BY <2>2, <2>3
  <1>7. OneWalletPerCoin' /\ AddressOfOneMember'
    BY <1>0, <1>1, <1>5 DEF WalletIInv, OneWalletPerCoin, AddressOfOneMember, SameCoin
  <1>8. ASSUME NEW q \in Requests PROVE HasReset(q)'
    <2>1. CASE q = r
      BY <1>4, <2>1 DEF HasReset
    <2>2. CASE q # r
      <3>1. HasReset(q) /\ wreq'[q] = wreq[q]
        BY <1>4, <2>2 DEF WalletIInv, ResetGivesAddress, HasReset
      <3>2. \A m : FindByMemberIDAndCoinName(m, BTC)' = FindByMemberIDAndCoinName(m, BTC)
        BY <1>0 DEF FindByMemberIDAndCoinName, FindByMemberID, SameCoin
      <3> QED
        BY <1>0, <3>1, <3>2 DEF HasReset
    <2> QED
      BY <2>1, <2>2
  <1> QED
    BY <1>6, <1>7, <1>8 DEF WalletIInv, ResetGivesAddress, HasReset

\* The wallet that gets the address is one of BTC, of the member the node made it for.
LEMMA UpdateAddressInv ==
    ASSUME WalletIInv, WalletTypes', NEW r \in Requests, UpdateAddress(r)
    PROVE  WalletIInv'
  <1> DEFINE a == wreq[r].wallet.address
             n == wreq[r].wallet.id
  <1>0. /\ wreq \in [Requests -> Handlers(Len(wallets), Len(allocated))]
        /\ wreq[r] \in Handlers(Len(wallets), Len(allocated)) /\ wreq[r].pc = "update"
        /\ Len(wallets) \in Nat /\ Len(allocated) \in Nat /\ failures \in 0..MaxFailures
        /\ wallets' = WriteAddress(wreq[r].wallet) /\ allocated' = allocated
    BY TypesByHandlers DEF WalletIInv, WalletTypes, UpdateAddress
  <1>1. wreq[r].wallet \in [id : 0..Len(wallets), address : 0..Len(allocated), isLock : BOOLEAN]
    BY <1>0 DEF Handlers
  <1>2. /\ \A q \in Requests \ {r} : wreq'[q] = wreq[q]
        /\ wreq'[r].memberId = wreq[r].memberId /\ wreq'[r].pc \in {"answered", "failed"}
        /\ wreq'[r].coinName = wreq[r].coinName /\ wreq'[r].op = wreq[r].op
    BY <1>0, <1>1, AnsweredTypes DEF UpdateAddress
  <1>3. /\ DOMAIN wallets' = DOMAIN wallets
        /\ \A i \in DOMAIN wallets :
             /\ wallets'[i].memberId = wallets[i].memberId
             /\ wallets'[i].coinName = wallets[i].coinName
             /\ wallets'[i].address = IF i = n THEN a ELSE wallets[i].address
    BY <1>0, <1>1, WrittenRows DEF WalletIInv, WalletTypes
  <1>4. /\ a \in DOMAIN allocated /\ allocated[a] = wreq[r].memberId
        /\ \A i \in DOMAIN wallets : wallets[i].address # a
        /\ \A q \in Requests \ {r} : wreq[q].pc = "update" => wreq[q].wallet.address # a
    BY <1>0 DEF WalletIInv, PendingIsFresh
  <1>5. a # NoAddress
    <2>1. DOMAIN allocated = 1..Len(allocated)
      BY TypesByHandlers DEF WalletIInv, WalletTypes
    <2> QED
      BY <1>0, <1>4, <2>1 DEF NoAddress
  <1>6. /\ n \in DOMAIN wallets /\ wallets[n].memberId = wreq[r].memberId
        /\ wallets[n].coinName = BTC /\ wreq[r].coinName = BTC
    BY <1>0, WalletConstants
    DEF WalletIInv, WalletTypes, KnownCoin, KnownWallet, SameCoin, RowsBearUnits
  <1> HIDE DEF a, n
  <1>7. ASSUME NEW q \in Requests PROVE PendingIsFresh(q)'
    BY <1>0, <1>2, <1>3, <1>4 DEF WalletIInv, PendingIsFresh, a
  <1>8. OneWalletPerCoin'
    BY <1>3 DEF WalletIInv, OneWalletPerCoin, SameCoin
  <1>9. AddressOfOneMember'
    <2>1. ASSUME NEW i \in DOMAIN wallets, i # n, wallets[i].address # NoAddress
          PROVE  /\ wallets[i].coinName = BTC
                 /\ allocated[wallets[i].address] = wallets[i].memberId
                 /\ \A j \in DOMAIN wallets : wallets'[j].address = wallets[i].address => i = j
      BY <2>1, <1>3, <1>4 DEF WalletIInv, AddressOfOneMember
    <2>2. \A j \in DOMAIN wallets : wallets'[j].address = a => j = n
      BY <1>3, <1>4
    <2> QED
      BY <1>0, <1>3, <1>4, <1>6, <2>1, <2>2 DEF AddressOfOneMember
  <1>10. ASSUME NEW q \in Requests PROVE HasReset(q)'
    <2>1. ASSUME NEW m, NEW i \in FindByMemberIDAndCoinName(m, BTC)
          PROVE  i \in FindByMemberIDAndCoinName(m, BTC)'
      BY <1>3 DEF FindByMemberIDAndCoinName, FindByMemberID, SameCoin
    <2>2. CASE q = r
      <3>1. n \in FindByMemberIDAndCoinName(wreq[r].memberId, BTC)
        BY <1>6 DEF FindByMemberIDAndCoinName, FindByMemberID, SameCoin
      <3>2. wallets'[n].address # NoAddress
        BY <1>3, <1>5, <1>6
      <3> QED
        BY <1>2, <2>1, <2>2, <3>1, <3>2 DEF HasReset
    <2>3. CASE q # r
      <3>1. HasReset(q) /\ wreq'[q] = wreq[q]
        BY <1>2, <2>3 DEF WalletIInv, ResetGivesAddress, HasReset
      <3>2. ASSUME NEW i \in FindByMemberIDAndCoinName(wreq[q].memberId, BTC),
                   wallets[i].address # NoAddress
            PROVE  wallets'[i].address # NoAddress
        BY <1>3, <1>5, <3>2 DEF FindByMemberIDAndCoinName, FindByMemberID
      <3> QED
        BY <2>1, <3>1, <3>2 DEF HasReset
    <2> QED
      BY <2>2, <2>3
  <1> QED
    BY <1>7, <1>8, <1>9, <1>10 DEF WalletIInv, ResetGivesAddress, HasReset

\* A failed call, the answer to the member, and the answer to an order.
LEMMA LeaveInv ==
    ASSUME WalletIInv, WalletTypes', NEW r \in Requests, CallFails(r) \/ Answer(r) \/ Taken(r)
    PROVE  WalletIInv'
  <1>0. wreq \in [Requests -> Handlers(Len(wallets), Len(allocated))]
    BY TypesByHandlers DEF WalletIInv, WalletTypes
  <1>1. UNCHANGED <<wallets, allocated>> /\ \A q \in Requests \ {r} : wreq'[q] = wreq[q]
    BY <1>0 DEF CallFails, Answer, Taken, Goto
  <1>2. CASE CallFails(r)
    <2>1. wreq'[r].pc = "failed"
      BY <1>0, <1>2 DEF CallFails, Goto, Handlers
    <2> QED
      BY <1>1, <2>1, HandlerInv DEF HasReset
  <1>3. CASE Answer(r)
    <2>1. /\ wreq'[r].pc = "done" /\ wreq'[r].op = wreq[r].op /\ wreq[r].pc = "answered"
          /\ wreq'[r].memberId = wreq[r].memberId /\ wreq'[r].coinName = wreq[r].coinName
      BY <1>0, <1>3 DEF Answer, Goto, Handlers
    <2>2. HasReset(r)
      BY DEF WalletIInv, ResetGivesAddress, HasReset
    <2>3. HasReset(r)'
      BY <1>1, <2>1, <2>2
      DEF HasReset, FindByMemberIDAndCoinName, FindByMemberID, SameCoin
    <2> QED
      BY <1>1, <2>1, <2>3, HandlerInv
  <1>4. CASE Taken(r)
    <2>1. wreq'[r] = Idle
      BY <1>0, <1>4 DEF Taken
    <2> QED
      BY <1>1, <2>1, HandlerInv DEF HasReset, Idle
  <1> QED
    BY <1>2, <1>3, <1>4

\* Locks and reads leave members, coins and addresses as they are.
LEMMA OtherInv ==
    ASSUME WalletIInv, WalletTypes', UNCHANGED <<allocated, wreq>>,
           DOMAIN wallets' = DOMAIN wallets,
           \A i \in DOMAIN wallets : /\ wallets'[i].memberId = wallets[i].memberId
                                     /\ wallets'[i].coinName = wallets[i].coinName
                                     /\ wallets'[i].address = wallets[i].address
    PROVE  WalletIInv'
  <1>1. \A q \in Requests : PendingIsFresh(q)'
    BY DEF WalletIInv, PendingIsFresh
  <1>2. OneWalletPerCoin'
    BY DEF WalletIInv, OneWalletPerCoin, SameCoin
  <1>3. AddressOfOneMember'
    BY DEF WalletIInv, AddressOfOneMember
  <1>4. ASSUME NEW q \in Requests PROVE HasReset(q)'
    <2>1. HasReset(q)
      BY DEF WalletIInv, ResetGivesAddress, HasReset
    <2>2. \A m : FindByMemberIDAndCoinName(m, BTC)' = FindByMemberIDAndCoinName(m, BTC)
      BY DEF FindByMemberIDAndCoinName, FindByMemberID, SameCoin
    <2>3. \A i \in FindByMemberIDAndCoinName(wreq[q].memberId, BTC) : i \in DOMAIN wallets
      BY DEF FindByMemberIDAndCoinName, FindByMemberID
    <2> QED
      BY <2>1, <2>2, <2>3 DEF HasReset
  <1> QED
    BY <1>1, <1>2, <1>3, <1>4 DEF WalletIInv, ResetGivesAddress, HasReset

\* All steps keep the invariant of the wallets.
LEMMA WalletIInvStep == WalletIInv /\ WalletAction => WalletIInv'
  <1> SUFFICES ASSUME WalletIInv, WalletAction PROVE WalletIInv'
    OBVIOUS
  <1>t. WalletTypes'
    BY WalletTypesStep DEF WalletIInv
  <1>1. ASSUME NEW r \in Requests, WalletCall(r) PROVE WalletIInv'
    BY <1>1, <1>t, FindCoinInfoInv, FindExistingInv, SaveInv, AllocateInv,
       UpdateAddressInv, LeaveInv DEF WalletCall
  <1>2. ASSUME NEW m \in Members, FindWallet(m) PROVE WalletIInv'
    BY <1>2, <1>t, OtherInv DEF FindWallet
  <1>3. ASSUME NEW i \in DOMAIN wallets, Locked(i) PROVE WalletIInv'
    <2>1. /\ wallets[i] \in [memberId : Members, coinName : CoinNames,
                             address : 0..Len(allocated), isLock : BOOLEAN]
          /\ DOMAIN wallets = 1..Len(wallets)
      BY WalletRow, TypesByHandlers DEF WalletIInv, WalletTypes
    <2>2. /\ DOMAIN wallets' = DOMAIN wallets
          /\ \A k \in DOMAIN wallets : /\ wallets'[k].memberId = wallets[k].memberId
                                       /\ wallets'[k].coinName = wallets[k].coinName
                                       /\ wallets'[k].address = wallets[k].address
      BY <1>3, <2>1 DEF Locked
    <2> QED
      BY <1>3, <1>t, <2>2, OtherInv DEF Locked
  <1>4. CASE UNCHANGED <<wallets, allocated, wreq, shown, overlapped>>
    BY <1>4, <1>t, OtherInv
  <1> QED
    BY <1>1, <1>2, <1>3, <1>4, <1>t, StartInv, LeaveInv DEF WalletAction

-----------------------------------------------------------------------------
(* Orders. *)

OrderRecord == [pc : OPcs, memberId : Members \cup {"none"}, form : OrderForms \cup {NoForm},
                locked : BOOLEAN, id : 0..MaxClock]
OrderRow == [orderId : 1..MaxClock, memberId : Members, symbol : DOMAIN Pairs,
             direction : {Buy, Sell}, type : {MarketPrice, LimitPrice},
             price : Int, amount : Int, status : Trading..OrderInit]

OrderTypes ==
    /\ orders \in Seq(OrderRow)
    /\ oreq \in [Requests -> OrderRecord]
    /\ clock \in 1..MaxClock
    /\ answers \subseteq [memberId : Members, orderId : 1..MaxClock]
    /\ cancels \in 0..MaxCancels

HasWallet(m, coin) == FindByMemberIDAndCoinName(m, coin) # {}

Validated(m, form) == /\ m \notin Forbidden
                      /\ form.amount > 0
                      /\ form.type = "LIMIT_PRICE" => form.price > 0

IsStored(m, id) == \E i \in DOMAIN orders : orders[i].orderId = id /\ orders[i].memberId = m

\* What an Add handler has established before its next step.
KnownOrder(r) ==
    LET o == oreq[r]
    IN  /\ o.pc \notin {"idle", "failed", "done"} => o.memberId \in Members /\ o.form \in OrderForms
        /\ o.pc \in {"base", "baseWait", "coin", "coinWait", "count", "save"} =>
               o.form.symbol \in DOMAIN Pairs
        /\ o.pc \in {"baseWait", "coinWait"} =>
               wreq[r].op = "find" /\ wreq[r].memberId = o.memberId
        /\ o.pc = "baseWait" => wreq[r].coinName = Pairs[o.form.symbol].baseSymbol
        /\ o.pc = "coinWait" => wreq[r].coinName = Pairs[o.form.symbol].coinSymbol
        /\ o.pc \in {"coin", "coinWait", "count", "save"} =>
               HasWallet(o.memberId, Pairs[o.form.symbol].baseSymbol)
        /\ o.pc \in {"count", "save"} =>
               /\ HasWallet(o.memberId, Pairs[o.form.symbol].coinSymbol)
               /\ Validated(o.memberId, o.form)
        /\ o.pc = "answered" => o.id \in 1..MaxClock /\ IsStored(o.memberId, o.id)

UniqueIds == \A i, j \in DOMAIN orders : orders[i].orderId = orders[j].orderId => i = j

AnswersStored == \A a \in answers : IsStored(a.memberId, a.orderId)

OrderIInv ==
    /\ WalletIInv
    /\ OrderTypes
    /\ \A r \in Requests : KnownOrder(r)
    /\ UniqueIds
    /\ AnswersStored
    /\ OrderInv

\* At the start there is no order, and nobody was answered.
LEMMA OrderInit0 == Init => OrderIInv
  <1> SUFFICES ASSUME Init PROVE OrderIInv
    OBVIOUS
  <1>1. WalletIInv
    BY WalletInitOK DEF Init
  <1>2. OIdle \in OrderRecord
    BY OrderConstants DEF OIdle, OrderRecord, OPcs
  <1>3. OrderTypes
    BY <1>2, OrderConstants DEF Init, OrderTypes
  <1>4. \A r \in Requests : KnownOrder(r)
    BY DEF Init, KnownOrder, OIdle
  <1> QED
    BY <1>1, <1>3, <1>4
    DEF Init, OrderIInv, UniqueIds, AnswersStored, OrderInv, OrderHasWallets, StoredOrderIsPriced

\* Rows of the wallets are never deleted, nor given to another member or coin; a call
\* does not change what a handler was asked.
LEMMA WalletsStay ==
    ASSUME WalletIInv, WalletAction
    PROVE  \A i \in DOMAIN wallets : /\ i \in DOMAIN wallets'
                                     /\ wallets'[i].memberId = wallets[i].memberId
                                     /\ wallets'[i].coinName = wallets[i].coinName
  <1> USE DEF WalletIInv
  <1>1. CASE UNCHANGED wallets
    BY <1>1
  <1>2. ASSUME NEW r \in Requests, Save(r), ~UNCHANGED wallets
        PROVE  \A i \in DOMAIN wallets : i \in DOMAIN wallets' /\ wallets'[i] = wallets[i]
    <2>1. wallets' = Append(wallets, NewWallet(wreq[r].memberId, wreq[r].coinName))
      BY <1>2 DEF Save
    <2> QED
      BY <2>1, TypesByHandlers DEF WalletTypes
  <1>3. ASSUME NEW r \in Requests, UpdateAddress(r)
        PROVE  \A i \in DOMAIN wallets : /\ i \in DOMAIN wallets'
                                         /\ wallets'[i].memberId = wallets[i].memberId
                                         /\ wallets'[i].coinName = wallets[i].coinName
    <2>1. wreq[r].wallet.address \in 0..Len(allocated)
      BY TypesByHandlers DEF WalletTypes, Handlers
    <2> QED
      BY <1>3, <2>1, WrittenRows DEF UpdateAddress, WalletTypes
  <1>4. ASSUME NEW k \in DOMAIN wallets, Locked(k)
        PROVE  \A i \in DOMAIN wallets : /\ i \in DOMAIN wallets'
                                         /\ wallets'[i].memberId = wallets[i].memberId
                                         /\ wallets'[i].coinName = wallets[i].coinName
    <2>1. /\ wallets[k] \in [memberId : Members, coinName : CoinNames,
                             address : 0..Len(allocated), isLock : BOOLEAN]
          /\ DOMAIN wallets = 1..Len(wallets)
      BY WalletRow, TypesByHandlers DEF WalletTypes
    <2> QED
      BY <1>4, <2>1 DEF Locked
  <1> QED
    BY <1>1, <1>2, <1>3, <1>4
    DEF WalletAction, WalletCall, Start, FindCoinInfo, FindExisting, Allocate, CallFails,
        Answer, Taken, FindWallet

\* A call of a handler does not change what it was asked.
LEMMA WalletCallKeeps ==
    ASSUME WalletTypes, NEW r \in Requests, WalletCall(r), NEW q \in Requests
    PROVE  /\ wreq'[q].memberId = wreq[q].memberId
           /\ wreq'[q].coinName = wreq[q].coinName
           /\ wreq'[q].op = wreq[q].op
  <1>1. wreq \in [Requests -> Handlers(Len(wallets), Len(allocated))]
    BY TypesByHandlers DEF WalletTypes
  <1>2. \/ \E pc : Goto(r, pc)
        \/ \E pc, w : wreq' = [wreq EXCEPT ![r].pc = pc, ![r].wallet = w]
    BY DEF WalletCall, FindCoinInfo, FindExisting, Save, Allocate, UpdateAddress, CallFails,
           Answered, Goto
  <1>3. CASE \E pc : Goto(r, pc)
    BY <1>1, <1>3 DEF Goto, Handlers
  <1>4. ASSUME NEW pc, NEW w, wreq' = [wreq EXCEPT ![r].pc = pc, ![r].wallet = w]
        PROVE  /\ wreq'[q].memberId = wreq[q].memberId
               /\ wreq'[q].coinName = wreq[q].coinName
               /\ wreq'[q].op = wreq[q].op
    BY <1>1, <1>4 DEF Handlers
  <1> QED
    BY <1>2, <1>3, <1>4

\* Every step is one of those of the wallets.
LEMMA OrderSteps == OrderIInv /\ Next => WalletAction
  <1> SUFFICES ASSUME OrderIInv, Next PROVE WalletAction
    OBVIOUS
  <1>0. failures \in 0..MaxFailures /\ oreq \in [Requests -> OrderRecord] /\ MaxFailures \in Nat
    BY WalletConstants DEF OrderIInv, OrderTypes, WalletIInv, WalletTypes, WalletTypeOK
  <1>u. UNCHANGED walletVars => WalletAction
    BY <1>0 DEF walletVars, WalletAction
  <1>1. ASSUME NEW r \in Requests, AskWallet(r) PROVE WalletAction
    <2>1. /\ oreq[r].memberId \in Members /\ oreq[r].form.symbol \in DOMAIN Pairs
          /\ Pair(r).baseSymbol \in CoinNames /\ Pair(r).coinSymbol \in CoinNames
      BY <1>1, OrderConstants DEF AskWallet, OrderIInv, KnownOrder, Pair
    <2> QED
      BY <1>1, <2>1 DEF AskWallet, WalletAction
  <1>2. ASSUME NEW r \in Requests, WalletArrives(r) PROVE WalletAction
    BY <1>2 DEF WalletArrives, WalletAction, Taken
  <1>3. ASSUME NEW r \in Requests, SaveOrder(r) PROVE WalletAction
    BY <1>3, <1>0 DEF SaveOrder, WalletAction
  <1>4. ASSUME NEW r \in Requests, AddFails(r) PROVE WalletAction
    BY <1>4, <1>0 DEF AddFails, WalletAction
  <1>5. ASSUME NEW r \in Requests, WalletRequest(r) PROVE WalletAction
    BY <1>5 DEF WalletRequest, FindWalletBySymbol, ResetAddress, ResetName, WalletAction
  <1>6. ASSUME NEW r \in Requests, WalletStep(r) PROVE WalletAction
    BY <1>6 DEF WalletStep, WalletAction
  <1>7. ASSUME NEW m \in Members, ReadWallets(m) PROVE WalletAction
    BY <1>7 DEF ReadWallets, WalletAction
  <1>8. ASSUME NEW i \in DOMAIN wallets, LockWallet(i) PROVE WalletAction
    BY <1>8 DEF LockWallet, Locked, WalletAction
  <1>9. ASSUME NEW r \in Requests,
               \/ \E m \in Members, form \in OrderForms : Add(r, m, form)
               \/ FindMemberAndPair(r) \/ CountOrders(r) \/ AnswerAdd(r)
        PROVE  WalletAction
    BY <1>9, <1>u DEF Add, FindMemberAndPair, CountOrders, AnswerAdd
  <1>10. ASSUME \/ \E id \in 1..MaxClock : CancelOrder(id)
                \/ \E i \in DOMAIN orders : Engine(i)
         PROVE  WalletAction
    BY <1>10, <1>u DEF CancelOrder, Engine
  <1> QED
    BY <1>1, <1>2, <1>3, <1>4, <1>5, <1>6, <1>7, <1>8, <1>9, <1>10 DEF Next, AddStep

\* A wallet once made is found for ever.
LEMMA WalletKept ==
    ASSUME WalletIInv, WalletAction, NEW m, NEW coin, HasWallet(m, coin)
    PROVE  HasWallet(m, coin)'
  BY WalletsStay DEF HasWallet, FindByMemberIDAndCoinName, FindByMemberID, SameCoin

\* What a handler knows stays true while others work.
LEMMA KnownStays ==
    ASSUME OrderIInv, WalletAction, NEW q \in Requests, oreq'[q] = oreq[q],
           oreq[q].pc \in {"baseWait", "coinWait"} =>
               /\ wreq'[q].op = wreq[q].op
               /\ wreq'[q].memberId = wreq[q].memberId
               /\ wreq'[q].coinName = wreq[q].coinName,
           \A m, id : IsStored(m, id) => IsStored(m, id)'
    PROVE  KnownOrder(q)'
  <1>1. KnownOrder(q)
    BY DEF OrderIInv
  <1>2. \A m, coin : HasWallet(m, coin) => HasWallet(m, coin)'
    BY WalletKept DEF OrderIInv
  <1> QED
    BY <1>1, <1>2 DEF KnownOrder, Validated

\* The steps that leave the table of orders alone.
LEMMA OrdersAlone ==
    ASSUME OrderIInv, WalletAction, UNCHANGED orders, OrderTypes',
           \A r \in Requests : KnownOrder(r)',
           \A a \in answers' : IsStored(a.memberId, a.orderId)
    PROVE  OrderIInv'
  <1>1. WalletIInv'
    BY WalletIInvStep DEF OrderIInv
  <1>2. \A m, coin : HasWallet(m, coin) => HasWallet(m, coin)'
    BY WalletKept DEF OrderIInv
  <1>3. OrderHasWallets'
    BY <1>2 DEF OrderIInv, OrderInv, OrderHasWallets, HasWallet
  <1>4. UniqueIds' /\ AnswersStored' /\ StoredOrderIsPriced'
    BY DEF OrderIInv, OrderInv, UniqueIds, AnswersStored, IsStored, StoredOrderIsPriced
  <1> QED
    BY <1>1, <1>3, <1>4 DEF OrderIInv, OrderInv

\* One handler goes on, the tables of orders and answers stay.
LEMMA HandlerOnly ==
    ASSUME OrderIInv, WalletAction, NEW r \in Requests, UNCHANGED <<orders, clock, answers, cancels>>,
           oreq' \in [Requests -> OrderRecord],
           \A q \in Requests \ {r} : oreq'[q] = oreq[q] /\ wreq'[q] = wreq[q],
           KnownOrder(r)'
    PROVE  OrderIInv'
  <1>1. OrderTypes'
    BY DEF OrderIInv, OrderTypes
  <1>2. \A q \in Requests : KnownOrder(q)'
    BY KnownStays DEF IsStored
  <1> QED
    BY <1>1, <1>2, OrdersAlone DEF OrderIInv, AnswersStored

\* What a handler of an order is when it only goes on.
LEMMA GotoOrder ==
    ASSUME OrderIInv, NEW r \in Requests, NEW pc \in OPcs, OGoto(r, pc)
    PROVE  /\ oreq' \in [Requests -> OrderRecord]
           /\ \A q \in Requests \ {r} : oreq'[q] = oreq[q]
           /\ oreq'[r].pc = pc /\ oreq'[r].memberId = oreq[r].memberId
           /\ oreq'[r].form = oreq[r].form /\ oreq'[r].id = oreq[r].id
           /\ pc \in {"failed", "done"} => KnownOrder(r)'
  <1>1. oreq \in [Requests -> OrderRecord] /\ oreq[r] \in OrderRecord
    BY DEF OrderIInv, OrderTypes
  <1>2. [oreq[r] EXCEPT !.pc = pc] \in OrderRecord
    BY <1>1 DEF OrderRecord
  <1>3. oreq' = [oreq EXCEPT ![r] = [oreq[r] EXCEPT !.pc = pc]]
    BY <1>1 DEF OGoto, OrderRecord
  <1>4. oreq'[r] = [oreq[r] EXCEPT !.pc = pc]
    BY <1>1, <1>3
  <1>5. /\ oreq'[r].pc = pc /\ oreq'[r].memberId = oreq[r].memberId
        /\ oreq'[r].form = oreq[r].form /\ oreq'[r].id = oreq[r].id
    BY <1>1, <1>4 DEF OrderRecord
  <1>6. oreq' \in [Requests -> OrderRecord] /\ \A q \in Requests \ {r} : oreq'[q] = oreq[q]
    BY <1>1, <1>2, <1>3
  <1> QED
    BY <1>5, <1>6 DEF KnownOrder

\* An order that comes in is checked for nothing yet.
LEMMA AddInv ==
    ASSUME OrderIInv, NEW r \in Requests, NEW m \in Members, NEW form \in OrderForms,
           Add(r, m, form), WalletAction
    PROVE  OrderIInv'
  <1>1. PICK pc \in {"member", "failed"} :
          oreq' = [oreq EXCEPT ![r] = [OIdle EXCEPT !.memberId = m, !.form = form, !.pc = pc]]
    BY DEF Add
  <1> DEFINE o == [OIdle EXCEPT !.memberId = m, !.form = form, !.pc = pc]
  <1>2. oreq' = [oreq EXCEPT ![r] = o]
    BY <1>1
  <1>3. OIdle \in OrderRecord
    BY OrderConstants DEF OIdle, OrderRecord, OPcs
  <1>4. o \in OrderRecord /\ o.pc = pc /\ o.memberId = m /\ o.form = form
    BY <1>3 DEF OrderRecord, OPcs
  <1> HIDE DEF o
  <1>5. /\ oreq' \in [Requests -> OrderRecord] /\ oreq'[r] = o
        /\ \A q \in Requests \ {r} : oreq'[q] = oreq[q]
    BY <1>2, <1>4 DEF OrderIInv, OrderTypes
  <1>6. KnownOrder(r)'
    BY <1>4, <1>5 DEF KnownOrder
  <1> QED
    BY <1>5, <1>6, HandlerOnly DEF Add, OrderRest, walletVars

\* The lookups, the count and a failure.
LEMMA PlainStepInv ==
    ASSUME OrderIInv, NEW r \in Requests, WalletAction,
           FindMemberAndPair(r) \/ CountOrders(r) \/ AddFails(r)
    PROVE  OrderIInv'
  <1>0. UNCHANGED <<orders, clock, answers, cancels, wallets, wreq>>
    BY DEF FindMemberAndPair, CountOrders, AddFails, OrderRest, walletVars
  <1>1. CASE FindMemberAndPair(r)
    <2>1. PICK pc \in {"failed", "base"} :
            OGoto(r, pc) /\ (pc = "base" => oreq[r].form.symbol \in DOMAIN Pairs)
      BY <1>1 DEF FindMemberAndPair, FindBySymbol
    <2>2. KnownOrder(r)'
      BY <1>1, <2>1, GotoOrder DEF FindMemberAndPair, KnownOrder, OPcs, OrderIInv
    <2> QED
      BY <1>0, <2>1, <2>2, GotoOrder, HandlerOnly DEF OPcs
  <1>2. CASE CountOrders(r)
    <2>1. PICK pc \in {"failed", "save"} : OGoto(r, pc)
      BY <1>2 DEF CountOrders
    <2>2. KnownOrder(r)'
      <3>1. pc \in OPcs /\ oreq[r].pc = "count" /\ KnownOrder(r)
        BY <1>2 DEF CountOrders, OPcs, OrderIInv
      <3>2. /\ oreq'[r].pc = pc /\ oreq'[r].memberId = oreq[r].memberId
            /\ oreq'[r].form = oreq[r].form
            /\ pc = "failed" => KnownOrder(r)'
        BY <2>1, <3>1, GotoOrder
      <3>3. ASSUME NEW m, NEW name, HasWallet(m, name) PROVE HasWallet(m, name)'
        BY <1>0, <3>3 DEF HasWallet, FindByMemberIDAndCoinName, FindByMemberID, SameCoin
      <3> QED
        BY <3>1, <3>2, <3>3 DEF KnownOrder
    <2> QED
      BY <1>0, <2>1, <2>2, GotoOrder, HandlerOnly DEF OPcs
  <1>3. CASE AddFails(r)
    BY <1>0, <1>3, GotoOrder, HandlerOnly DEF AddFails, OPcs
  <1> QED
    BY <1>1, <1>2, <1>3

\* The request for a wallet is the handler's own.
LEMMA AskWalletInv ==
    ASSUME OrderIInv, NEW r \in Requests, WalletAction, AskWallet(r)
    PROVE  OrderIInv'
  <1>0. /\ UNCHANGED <<orders, clock, answers, cancels, wallets>>
        /\ wreq \in [Requests -> Handlers(Len(wallets), Len(allocated))]
    BY TypesByHandlers
    DEF AskWallet, Start, OrderRest, OrderIInv, WalletIInv, WalletTypes
  <1>1. CASE /\ oreq[r].pc = "base"
             /\ Start(r, "find", oreq[r].memberId, Pair(r).baseSymbol)
             /\ OGoto(r, "baseWait")
    <2>1. /\ wreq'[r].op = "find" /\ wreq'[r].memberId = oreq[r].memberId
          /\ wreq'[r].coinName = Pair(r).baseSymbol
          /\ \A q \in Requests \ {r} : wreq'[q] = wreq[q]
      BY <1>0, <1>1 DEF Start
    <2>2. KnownOrder(r)'
      BY <1>1, <2>1, GotoOrder DEF KnownOrder, OPcs, OrderIInv, Pair
    <2> QED
      BY <1>0, <1>1, <2>1, <2>2, GotoOrder, HandlerOnly DEF OPcs
  <1>2. CASE /\ oreq[r].pc = "coin"
             /\ Start(r, "find", oreq[r].memberId, Pair(r).coinSymbol)
             /\ OGoto(r, "coinWait")
    <2>1. /\ wreq'[r].op = "find" /\ wreq'[r].memberId = oreq[r].memberId
          /\ wreq'[r].coinName = Pair(r).coinSymbol
          /\ \A q \in Requests \ {r} : wreq'[q] = wreq[q]
      BY <1>0, <1>2 DEF Start
    <2>2. \A m, coin : HasWallet(m, coin) => HasWallet(m, coin)'
      BY WalletKept DEF OrderIInv
    <2>3. KnownOrder(r)'
      BY <1>2, <2>1, <2>2, GotoOrder DEF KnownOrder, OPcs, OrderIInv, Pair
    <2> QED
      BY <1>0, <1>2, <2>1, <2>3, GotoOrder, HandlerOnly DEF OPcs
  <1> QED
    BY <1>1, <1>2 DEF AskWallet

\* The answer of ucenter: with it the wallet asked for is known to be there.
LEMMA WalletArrivesInv ==
    ASSUME OrderIInv, NEW r \in Requests, WalletAction, WalletArrives(r)
    PROVE  OrderIInv'
  <1> DEFINE lock == oreq[r].locked \/ wreq[r].wallet.isLock
  <1>0. /\ UNCHANGED <<orders, clock, answers, cancels, wallets>>
        /\ wreq[r] \in Handlers(Len(wallets), Len(allocated))
        /\ \A q \in Requests \ {r} : wreq'[q] = wreq[q]
    BY TypesByHandlers
    DEF WalletArrives, OrderRest, OrderIInv, WalletIInv, WalletTypes
  <1>1. oreq \in [Requests -> OrderRecord] /\ oreq[r] \in OrderRecord
    BY DEF OrderIInv, OrderTypes
  <1>2. lock \in BOOLEAN
    BY <1>0, <1>1 DEF Handlers, OrderRecord
  <1> HIDE DEF lock
  <1>3. PICK pc \in {"failed", "coin", "count"} :
          /\ oreq' = [oreq EXCEPT ![r].pc = pc, ![r].locked = lock]
          /\ pc # "failed" => wreq[r].pc = "answered"
          /\ pc = "coin" => oreq[r].pc = "baseWait"
          /\ pc = "count" =>
               /\ oreq[r].pc = "coinWait"
               /\ ValidateAddRequest(oreq[r].memberId, oreq[r].form, Pair(r), lock)
    BY DEF WalletArrives, lock
  <1>4. /\ oreq' \in [Requests -> OrderRecord] /\ oreq'[r].pc = pc
        /\ oreq'[r].memberId = oreq[r].memberId /\ oreq'[r].form = oreq[r].form
        /\ \A q \in Requests \ {r} : oreq'[q] = oreq[q]
    <2> DEFINE o == [oreq[r] EXCEPT !.pc = pc, !.locked = lock]
    <2>1. /\ o \in OrderRecord /\ o.pc = pc
          /\ o.memberId = oreq[r].memberId /\ o.form = oreq[r].form
      BY <1>1, <1>2 DEF OrderRecord, OPcs
    <2>2. oreq' = [oreq EXCEPT ![r] = o]
      BY <1>1, <1>3 DEF OrderRecord
    <2> HIDE DEF o
    <2> QED
      BY <1>1, <2>1, <2>2
  <1>5. ASSUME wreq[r].pc = "answered" PROVE HasWallet(oreq[r].memberId, wreq[r].coinName)
    <2>1. /\ wreq[r].wallet.id \in DOMAIN wallets
          /\ wallets[wreq[r].wallet.id].memberId = oreq[r].memberId
          /\ SameCoin(wallets[wreq[r].wallet.id].coinName, wreq[r].coinName)
      BY <1>5
      DEF WalletArrives, OrderIInv, KnownOrder, WalletIInv, WalletTypes, KnownWallet
    <2> QED
      BY <2>1 DEF HasWallet, FindByMemberIDAndCoinName, FindByMemberID
  <1>6. \A m, coin : HasWallet(m, coin) => HasWallet(m, coin)'
    BY WalletKept DEF OrderIInv
  <1>7. pc = "count" => Validated(oreq[r].memberId, oreq[r].form)
    <2>1. oreq[r].form.price \in Int
      BY OrderConstants DEF WalletArrives, OrderIInv, KnownOrder
    <2> QED
      BY <1>3, <2>1 DEF ValidateAddRequest, Validated
  <1>8. KnownOrder(r)'
    BY <1>3, <1>4, <1>5, <1>6, <1>7
    DEF WalletArrives, OrderIInv, KnownOrder, Pair, Validated
  <1> QED
    BY <1>0, <1>4, <1>8, HandlerOnly

\* The answer names an order that is stored.
LEMMA AnswerAddInv ==
    ASSUME OrderIInv, NEW r \in Requests, WalletAction, AnswerAdd(r)
    PROVE  OrderIInv'
  <1>0. OGoto(r, "done") /\ UNCHANGED <<orders, clock, cancels, wallets, wreq>>
    BY DEF AnswerAdd, walletVars
  <1>1. /\ oreq' \in [Requests -> OrderRecord] /\ KnownOrder(r)'
        /\ \A q \in Requests \ {r} : oreq'[q] = oreq[q]
    BY <1>0, GotoOrder DEF OPcs
  <1>2. \A q \in Requests : KnownOrder(q)'
    BY <1>0, <1>1, KnownStays DEF IsStored
  <1>3. /\ oreq[r].memberId \in Members /\ oreq[r].id \in 1..MaxClock
        /\ IsStored(oreq[r].memberId, oreq[r].id)
    BY DEF AnswerAdd, OrderIInv, KnownOrder
  <1>4. \A a \in answers' : IsStored(a.memberId, a.orderId)
    BY <1>3 DEF AnswerAdd, OrderIInv, AnswersStored
  <1>5. OrderTypes'
    BY <1>0, <1>1, <1>3 DEF AnswerAdd, OrderIInv, OrderTypes
  <1> QED
    BY <1>0, <1>2, <1>4, <1>5, OrdersAlone

\* The requests for wallets, whether a member or an order waits for them.
LEMMA WalletSideInv ==
    ASSUME OrderIInv, WalletAction, UNCHANGED orderVars,
           \/ \E r \in Requests : WalletRequest(r) \/ WalletStep(r)
           \/ UNCHANGED wreq
    PROVE  OrderIInv'
  <1>0. UNCHANGED <<orders, clock, answers, cancels, oreq>>
    BY DEF orderVars
  <1>1. ASSUME NEW q \in Requests PROVE KnownOrder(q)'
    <2>1. wreq \in [Requests -> Handlers(Len(wallets), Len(allocated))]
      BY TypesByHandlers DEF OrderIInv, WalletIInv, WalletTypes
    <2>2. CASE UNCHANGED wreq
      BY <1>0, <2>2, KnownStays DEF IsStored
    <2>3. ASSUME NEW r \in Requests, WalletRequest(r) PROVE KnownOrder(q)'
      <3>1. oreq[r].pc = "idle" /\ (r # q => wreq'[q] = wreq[q])
        BY <2>1, <2>3
        DEF WalletRequest, FindWalletBySymbol, ResetAddress, Start, Answer, Goto
      <3> QED
        BY <1>0, <3>1, KnownStays DEF IsStored
    <2>4. ASSUME NEW r \in Requests, WalletStep(r) PROVE KnownOrder(q)'
      BY <1>0, <2>4, WalletCallKeeps, KnownStays
      DEF WalletStep, IsStored, OrderIInv, WalletIInv
    <2> QED
      BY <2>2, <2>3, <2>4
  <1>2. OrderTypes'
    BY <1>0 DEF OrderIInv, OrderTypes
  <1> QED
    BY <1>0, <1>1, <1>2, OrdersAlone DEF OrderIInv, AnswersStored

\* A status is written, whatever it was, by whomever.
LEMMA StatusInv ==
    ASSUME OrderIInv, WalletAction, UNCHANGED <<oreq, clock, answers, wreq>>,
           cancels' \in 0..MaxCancels,
           orders' \in Seq(OrderRow), DOMAIN orders' = DOMAIN orders,
           \A i \in DOMAIN orders :
              /\ orders'[i].orderId = orders[i].orderId
              /\ orders'[i].memberId = orders[i].memberId
              /\ orders'[i].symbol = orders[i].symbol
              /\ orders'[i].type = orders[i].type
              /\ orders'[i].price = orders[i].price
              /\ orders'[i].amount = orders[i].amount
    PROVE  OrderIInv'
  <1>1. WalletIInv'
    BY WalletIInvStep DEF OrderIInv
  <1>2. OrderTypes'
    BY DEF OrderIInv, OrderTypes
  <1>3. \A m, id : IsStored(m, id) => IsStored(m, id)'
    BY DEF IsStored
  <1>4. \A q \in Requests : KnownOrder(q)'
    BY <1>3, KnownStays
  <1>5. UniqueIds' /\ AnswersStored'
    BY <1>3 DEF OrderIInv, UniqueIds, AnswersStored
  <1>6. \A m, coin : HasWallet(m, coin) => HasWallet(m, coin)'
    BY WalletKept DEF OrderIInv
  <1>7. OrderHasWallets'
    BY <1>6 DEF OrderIInv, OrderInv, OrderHasWallets, HasWallet
  <1>8. StoredOrderIsPriced'
    BY DEF OrderIInv, OrderInv, StoredOrderIsPriced
  <1> QED
    BY <1>1, <1>2, <1>4, <1>5, <1>7, <1>8 DEF OrderIInv, OrderInv

\* What a row of the orders is.
LEMMA OrderRowOf ==
    ASSUME OrderTypes, NEW i \in DOMAIN orders
    PROVE  orders[i] \in OrderRow /\ DOMAIN orders = 1..Len(orders) /\ Len(orders) \in Nat
  <1> HIDE DEF OrderRow
  <1> QED
    BY DEF OrderTypes

\* A cancel changes the status of a row only.
LEMMA CancelOrderInv ==
    ASSUME OrderIInv, WalletAction, NEW id, CancelOrder(id)
    PROVE  OrderIInv'
  <1>0. OrderTypes /\ Canceled \in Trading..OrderInit
    BY DEF OrderIInv, Canceled, Trading, OrderInit
  <1>1. ASSUME NEW i \in DOMAIN orders
        PROVE  /\ orders'[i] \in OrderRow
               /\ orders'[i].orderId = orders[i].orderId
               /\ orders'[i].memberId = orders[i].memberId
               /\ orders'[i].symbol = orders[i].symbol
               /\ orders'[i].type = orders[i].type
               /\ orders'[i].price = orders[i].price
               /\ orders'[i].amount = orders[i].amount
    <2>1. orders[i] \in OrderRow
      BY <1>0, OrderRowOf
    <2>2. orders'[i] = orders[i] \/ orders'[i] = [orders[i] EXCEPT !.status = Canceled]
      BY DEF CancelOrder, UpdateStatus
    <2> QED
      BY <1>0, <2>1, <2>2 DEF OrderRow
  <1>2. DOMAIN orders' = DOMAIN orders /\ DOMAIN orders = 1..Len(orders) /\ Len(orders) \in Nat
    BY <1>0 DEF CancelOrder, UpdateStatus, OrderTypes
  <1>3. orders' \in Seq(OrderRow)
    <2>1. orders' = [i \in 1..Len(orders) |-> orders'[i]]
      BY <1>2 DEF CancelOrder, UpdateStatus
    <2>2. orders' \in [1..Len(orders) -> OrderRow]
      BY <1>1, <1>2, <2>1
    <2> HIDE DEF OrderRow
    <2> QED
      BY <1>2, <2>2
  <1>4. cancels' \in 0..MaxCancels
    BY <1>0, OrderConstants DEF CancelOrder, OrderTypes
  <1> QED
    BY <1>1, <1>2, <1>3, <1>4, StatusInv DEF CancelOrder, walletVars

\* So do the changes of status by what matches the orders.
LEMMA EngineInv ==
    ASSUME OrderIInv, WalletAction, NEW i \in DOMAIN orders, Engine(i)
    PROVE  OrderIInv'
  <1>0. OrderTypes
    BY DEF OrderIInv
  <1>1. PICK s \in Trading..OrderInit : orders' = [orders EXCEPT ![i].status = s]
    BY DEF Engine, Trading, Completed, OverTimed, OrderInit
  <1> DEFINE row == [orders[i] EXCEPT !.status = s]
  <1>2. /\ row \in OrderRow
        /\ row.orderId = orders[i].orderId /\ row.memberId = orders[i].memberId
        /\ row.symbol = orders[i].symbol /\ row.type = orders[i].type
        /\ row.price = orders[i].price /\ row.amount = orders[i].amount
    BY <1>0, OrderRowOf DEF OrderRow
  <1>3. orders' = [orders EXCEPT ![i] = row]
    BY <1>0, <1>1, OrderRowOf DEF OrderRow
  <1> HIDE DEF row
  <1>4. orders' \in Seq(OrderRow) /\ DOMAIN orders' = DOMAIN orders
    <2> HIDE DEF OrderRow
    <2> QED
      BY <1>0, <1>2, <1>3 DEF OrderTypes
  <1>5. \A k \in DOMAIN orders : orders'[k] = IF k = i THEN row ELSE orders[k]
    BY <1>3
  <1> QED
    BY <1>0, <1>2, <1>4, <1>5, StatusInv DEF Engine, OrderTypes, walletVars

\* The INSERT: its id is no other order's, its wallets are there, its form validated.
LEMMA SaveOrderInv ==
    ASSUME OrderIInv, NEW r \in Requests, WalletAction, SaveOrder(r)
    PROVE  OrderIInv'
  <1>0. /\ OrderTypes /\ WalletIInv' /\ oreq[r].pc = "save"
        /\ UNCHANGED <<answers, cancels, wallets, wreq>>
    BY WalletIInvStep DEF OrderIInv, SaveOrder
  <1>1. PICK now \in {clock, clock + 1} :
          /\ now <= MaxClock /\ clock' = now
          /\ IF IdTaken(now)
             THEN OGoto(r, "failed") /\ UNCHANGED orders
             ELSE /\ orders' = Append(orders, BuildNewOrder(oreq[r].memberId, oreq[r].form, now))
                  /\ \/ oreq' = [oreq EXCEPT ![r].pc = "answered", ![r].id = now]
                     \/ OGoto(r, "failed")
    BY DEF SaveOrder
  <1>2. now \in 1..MaxClock
    BY <1>0, <1>1, OrderConstants DEF OrderTypes
  <1>3. CASE IdTaken(now)
    <2>1. /\ oreq' \in [Requests -> OrderRecord] /\ KnownOrder(r)'
          /\ \A q \in Requests \ {r} : oreq'[q] = oreq[q]
      BY <1>1, <1>3, GotoOrder DEF OPcs
    <2>2. UNCHANGED orders
      BY <1>1, <1>3
    <2>3. \A q \in Requests : KnownOrder(q)'
      BY <1>0, <2>1, <2>2, KnownStays DEF IsStored
    <2>4. OrderTypes'
      BY <1>0, <1>1, <1>2, <2>1, <2>2 DEF OrderTypes
    <2> QED
      BY <1>0, <2>2, <2>3, <2>4, OrdersAlone DEF OrderIInv, AnswersStored
  <1>4. CASE ~IdTaken(now)
    <2> DEFINE m == oreq[r].memberId
               form == oreq[r].form
               row == BuildNewOrder(m, form, now)
               n == Len(orders)
    <2>1. /\ m \in Members /\ form \in OrderForms /\ form.symbol \in DOMAIN Pairs
          /\ HasWallet(m, Pairs[form.symbol].baseSymbol)
          /\ HasWallet(m, Pairs[form.symbol].coinSymbol)
          /\ Validated(m, form) /\ form.price \in Int /\ form.amount \in Int
      BY <1>0, OrderConstants DEF OrderIInv, KnownOrder
    <2>2. /\ row \in OrderRow /\ row.orderId = now /\ row.memberId = m
          /\ row.symbol = form.symbol /\ row.amount = form.amount
          /\ (row.type = LimitPrice) <=> (row.price > 0)
      BY <1>2, <2>1
      DEF BuildNewOrder, OrderRow, DirectionCode, TypeCode, Buy, Sell, MarketPrice, LimitPrice,
          OrderInit, Trading, Validated
    <2>3. orders' = Append(orders, row)
      BY <1>1, <1>4
    <2> HIDE DEF row
    <2>4. /\ orders' \in Seq(OrderRow) /\ n \in Nat
          /\ DOMAIN orders' = DOMAIN orders \cup {n + 1} /\ DOMAIN orders = 1..n
          /\ orders'[n + 1] = row
          /\ \A i \in DOMAIN orders : orders'[i] = orders[i]
      <3> HIDE DEF OrderRow
      <3> QED
        BY <1>0, <2>2, <2>3 DEF OrderTypes
    <2>5. /\ oreq' \in [Requests -> OrderRecord]
          /\ \A q \in Requests \ {r} : oreq'[q] = oreq[q]
          /\ KnownOrder(r)'
      <3>1. CASE OGoto(r, "failed")
        BY <3>1, GotoOrder DEF OPcs
      <3>2. CASE oreq' = [oreq EXCEPT ![r].pc = "answered", ![r].id = now]
        <4> DEFINE o == [oreq[r] EXCEPT !.pc = "answered", !.id = now]
        <4>1. oreq \in [Requests -> OrderRecord] /\ oreq[r] \in OrderRecord
          BY <1>0 DEF OrderTypes
        <4>2. /\ o \in OrderRecord /\ o.pc = "answered" /\ o.id = now
              /\ o.memberId = oreq[r].memberId /\ o.form = oreq[r].form
          <5>1. now \in 0..MaxClock /\ "answered" \in OPcs
            BY <1>2 DEF OPcs
          <5> QED
            BY <4>1, <5>1 DEF OrderRecord
        <4>3. oreq' = [oreq EXCEPT ![r] = o]
          BY <3>2, <4>1 DEF OrderRecord
        <4> HIDE DEF o
        <4>4. oreq' \in [Requests -> OrderRecord] /\ oreq'[r] = o
              /\ \A q \in Requests \ {r} : oreq'[q] = oreq[q]
          BY <4>1, <4>2, <4>3
        <4>5. \E i \in DOMAIN orders' : orders'[i].orderId = now /\ orders'[i].memberId = m
          BY <2>2, <2>4
        <4>6. KnownOrder(r)'
          BY <1>2, <2>1, <4>2, <4>4, <4>5 DEF KnownOrder, IsStored
        <4> QED
          BY <4>4, <4>6
      <3> QED
        BY <1>1, <1>4, <3>1, <3>2
    <2>6. \A k, id : IsStored(k, id) => IsStored(k, id)'
      BY <2>4 DEF IsStored
    <2>7. \A q \in Requests : KnownOrder(q)'
      BY <1>0, <2>5, <2>6, KnownStays
    <2>8. OrderTypes'
      BY <1>0, <1>1, <1>2, <2>4, <2>5 DEF OrderTypes
    <2>9. UniqueIds'
      BY <1>4, <2>2, <2>4 DEF OrderIInv, UniqueIds, IdTaken, FindByOrderID
    <2>10. AnswersStored'
      BY <1>0, <2>6 DEF OrderIInv, AnswersStored
    <2>11. \A k, coin : HasWallet(k, coin) => HasWallet(k, coin)'
      BY WalletKept DEF OrderIInv
    <2>12. OrderHasWallets'
      BY <2>1, <2>2, <2>4, <2>11 DEF OrderIInv, OrderInv, OrderHasWallets, HasWallet
    <2>13. StoredOrderIsPriced'
      BY <2>1, <2>2, <2>4 DEF OrderIInv, OrderInv, StoredOrderIsPriced, Validated
    <2> QED
      BY <1>0, <2>7, <2>8, <2>9, <2>10, <2>12, <2>13 DEF OrderIInv, OrderInv
  <1> QED
    BY <1>3, <1>4

\* All steps keep the invariant of the orders.
LEMMA OrderIInvStep == OrderIInv /\ [Next]_vars => OrderIInv'
  <1> SUFFICES ASSUME OrderIInv, [Next]_vars PROVE OrderIInv'
    OBVIOUS
  <1>1. CASE UNCHANGED vars
    <2>1. WalletAction
      BY <1>1
      DEF vars, WalletAction, OrderIInv, WalletIInv, WalletTypes, WalletTypeOK
    <2> QED
      BY <1>1, <2>1, WalletSideInv DEF vars, orderVars
  <1>2. CASE Next
    <2>0. WalletAction
      BY <1>2, OrderSteps
    <2>1. ASSUME NEW r \in Requests, AddStep(r) PROVE OrderIInv'
      BY <2>0, <2>1, PlainStepInv, AskWalletInv, WalletArrivesInv, SaveOrderInv, AnswerAddInv
      DEF AddStep
    <2>2. ASSUME NEW r \in Requests, NEW m \in Members, NEW form \in OrderForms, Add(r, m, form)
          PROVE  OrderIInv'
      BY <2>0, <2>2, AddInv
    <2>3. ASSUME NEW r \in Requests, WalletRequest(r) \/ WalletStep(r) PROVE OrderIInv'
      BY <2>0, <2>3, WalletSideInv DEF WalletRequest, WalletStep
    <2>4. ASSUME \/ \E m \in Members : ReadWallets(m)
                 \/ \E i \in DOMAIN wallets : LockWallet(i)
          PROVE  OrderIInv'
      BY <2>0, <2>4, WalletSideInv DEF ReadWallets, FindWallet, LockWallet
    <2>5. ASSUME \/ \E id \in 1..MaxClock : CancelOrder(id)
                 \/ \E i \in DOMAIN orders : Engine(i)
          PROVE  OrderIInv'
      BY <2>0, <2>5, CancelOrderInv, EngineInv
    <2> QED
      BY <1>2, <2>1, <2>2, <2>3, <2>4, <2>5 DEF Next
  <1> QED
    BY <1>1, <1>2

\* The inductive invariant of both services: wallets, addresses and orders as the
\* handlers of ucenter and exchange leave them, which the theorems below read off.
THEOREM OrderInvariant == Spec => []OrderIInv
  <1> QED
    BY OrderInit0, OrderIInvStep, PTL DEF Spec

-----------------------------------------------------------------------------
(* What a member was shown is still watched. *)

\* Of a member whose resets do not overlap, one reset is at work at a time.
ResetsApart ==
    \A q, r \in Requests :
        /\ Running(q) /\ wreq[q].op = "reset" /\ Running(r) /\ wreq[r].op = "reset"
        /\ wreq[q].memberId = wreq[r].memberId /\ wreq[q].memberId \notin overlapped
        => q = r

\* The row a reset is about to write has no address yet.
RowIsBare(r) ==
    /\ wreq[r].pc \in {"allocate", "update"} /\ wreq[r].memberId \notin overlapped
    => wallets[wreq[r].wallet.id].address = NoAddress

\* The address a find is about to answer still stands in the row it was read from.
AnswerIsCurrent(r) ==
    /\ wreq[r].op = "find" /\ wreq[r].pc = "answered"
    /\ wreq[r].wallet.address # NoAddress /\ wreq[r].memberId \notin overlapped
    => wallets[wreq[r].wallet.id].address = wreq[r].wallet.address

Stands(s) == \E i \in DOMAIN wallets : /\ wallets[i].memberId = s.memberId
                                       /\ wallets[i].address = s.address

ShownStands == \A s \in shown : s.memberId \in overlapped \/ Stands(s)

WatchInv ==
    /\ ResetsApart
    /\ \A r \in Requests : RowIsBare(r) /\ AnswerIsCurrent(r)
    /\ ShownStands

\* A step of handler r, and what the other handlers see of it.
HandlerOf(r) ==
    \/ \E op \in {"find", "reset"}, m \in Members, name \in CoinNames : Start(r, op, m, name)
    \/ WalletCall(r) \/ Answer(r) \/ Taken(r)

\* A step of one handler leaves the others where they are.
LEMMA OthersWait ==
    ASSUME WalletTypes, NEW r \in Requests, HandlerOf(r)
    PROVE  \A q \in Requests \ {r} : wreq'[q] = wreq[q]
  BY TypesByHandlers
  DEF WalletTypes, HandlerOf, Start, WalletCall, FindCoinInfo, FindExisting, Save, Allocate,
      UpdateAddress, CallFails, Answered, Answer, Taken, Goto

\* Only the UPDATE of an address changes an address that stands in a row.
LEMMA AddressesStay ==
    ASSUME WalletIInv, WalletAction
    PROVE  \A i \in DOMAIN wallets :
             /\ i \in DOMAIN wallets'
             /\ wallets'[i].memberId = wallets[i].memberId
             /\ \/ wallets'[i].address = wallets[i].address
                \/ \E r \in Requests : UpdateAddress(r) /\ i = wreq[r].wallet.id
  <1> USE DEF WalletIInv
  <1> SUFFICES ASSUME NEW i \in DOMAIN wallets,
                      ~ \E r \in Requests : UpdateAddress(r) /\ i = wreq[r].wallet.id
               PROVE  wallets'[i].address = wallets[i].address
    BY WalletsStay
  <1>1. CASE UNCHANGED wallets
    BY <1>1
  <1>2. ASSUME NEW r \in Requests, Save(r), ~UNCHANGED wallets
        PROVE  wallets'[i].address = wallets[i].address
    <2>1. wallets' = Append(wallets, NewWallet(wreq[r].memberId, wreq[r].coinName))
      BY <1>2 DEF Save
    <2> QED
      BY <2>1, TypesByHandlers DEF WalletTypes
  <1>3. ASSUME NEW r \in Requests, UpdateAddress(r)
        PROVE  wallets'[i].address = wallets[i].address
    <2>1. wreq[r].wallet.address \in 0..Len(allocated)
      BY TypesByHandlers DEF WalletTypes, Handlers
    <2> QED
      BY <1>3, <2>1, WrittenRows DEF UpdateAddress, WalletTypes
  <1>4. ASSUME NEW k \in DOMAIN wallets, Locked(k)
        PROVE  wallets'[i].address = wallets[i].address
    <2>1. /\ wallets[k] \in [memberId : Members, coinName : CoinNames,
                             address : 0..Len(allocated), isLock : BOOLEAN]
          /\ DOMAIN wallets = 1..Len(wallets)
      BY WalletRow, TypesByHandlers DEF WalletTypes
    <2> QED
      BY <1>4, <2>1 DEF Locked
  <1> QED
    BY <1>1, <1>2, <1>3, <1>4
    DEF WalletAction, WalletCall, Start, FindCoinInfo, FindExisting, Allocate, CallFails,
        Answer, Taken, FindWallet

\* An UPDATE writes a row of its member that had no address, unless his resets overlapped.
LEMMA UpdateWritesBare ==
    ASSUME WalletIInv, WatchInv, NEW r \in Requests, UpdateAddress(r)
    PROVE  /\ wreq[r].wallet.id \in DOMAIN wallets
           /\ wallets[wreq[r].wallet.id].memberId = wreq[r].memberId
           /\ \/ wreq[r].memberId \in overlapped
              \/ wallets[wreq[r].wallet.id].address = NoAddress
  BY DEF WalletIInv, WalletTypes, KnownWallet, WatchInv, RowIsBare, UpdateAddress

\* So an address that stands stays where it is.
LEMMA AddressesHold ==
    ASSUME WalletIInv, WatchInv, WalletAction, NEW i \in DOMAIN wallets,
           wallets[i].memberId \notin overlapped, wallets[i].address # NoAddress
    PROVE  /\ i \in DOMAIN wallets' /\ wallets'[i].memberId = wallets[i].memberId
           /\ wallets'[i].address = wallets[i].address
  BY AddressesStay, UpdateWritesBare

\* A member marked as overlapped stays marked.
LEMMA OverlapsStay == WalletAction => overlapped \subseteq overlapped'
  BY DEF WalletAction, Start, WalletCall, FindCoinInfo, FindExisting, Save, Allocate,
         UpdateAddress, CallFails, Answer, Taken, FindWallet, Locked

\* What stood stands, and what was read of a row that has an address stays true.
LEMMA StandsStill ==
    ASSUME WalletIInv, WatchInv, WalletAction
    PROVE  \A s \in shown : s.memberId \in overlapped' \/ Stands(s)'
  <1> SUFFICES ASSUME NEW s \in shown, s.memberId \notin overlapped'
               PROVE  Stands(s)'
    OBVIOUS
  <1>1. s.memberId \notin overlapped
    BY OverlapsStay
  <1>2. s.address # NoAddress
    BY TypesByHandlers DEF WalletIInv, WalletTypes, NoAddress
  <1>3. PICK i \in DOMAIN wallets : wallets[i].memberId = s.memberId /\ wallets[i].address = s.address
    BY <1>1 DEF WatchInv, ShownStands, Stands
  <1> QED
    BY <1>1, <1>2, <1>3, AddressesHold DEF Stands

\* A handler that waits keeps what it knows: only a reset of the same member could write
\* its row.
LEMMA WaitingKnows ==
    ASSUME WalletIInv, WatchInv, WalletAction, NEW q \in Requests, wreq'[q] = wreq[q],
           ~UpdateAddress(q)
    PROVE  RowIsBare(q)' /\ AnswerIsCurrent(q)'
  <1>1. KnownWallet(q) /\ KnownCoin(q)
    BY DEF WalletIInv, WalletTypes
  <1>2. RowIsBare(q)'
    <2> SUFFICES ASSUME wreq[q].pc \in {"allocate", "update"}, wreq[q].memberId \notin overlapped'
                 PROVE  wallets'[wreq[q].wallet.id].address = NoAddress
      BY DEF RowIsBare
    <2>1. /\ wreq[q].memberId \notin overlapped
          /\ wreq[q].wallet.id \in DOMAIN wallets
          /\ wallets[wreq[q].wallet.id].memberId = wreq[q].memberId
          /\ wallets[wreq[q].wallet.id].address = NoAddress
      BY <1>1, OverlapsStay DEF KnownWallet, WatchInv, RowIsBare
    <2>2. ASSUME NEW r \in Requests, UpdateAddress(r), wreq[q].wallet.id = wreq[r].wallet.id
          PROVE  FALSE
      <3>1. /\ Running(r) /\ wreq[r].op = "reset" /\ wreq[r].memberId = wreq[q].memberId
        BY <2>1, <2>2, UpdateWritesBare
        DEF UpdateAddress, Running, WalletIInv, WalletTypes, KnownCoin
      <3>2. Running(q) /\ wreq[q].op = "reset"
        BY <1>1 DEF Running, KnownCoin
      <3>3. q = r
        BY <2>1, <3>1, <3>2 DEF WatchInv, ResetsApart
      <3> QED
        BY <2>2, <3>3
    <2> QED
      BY <2>1, <2>2, AddressesStay
  <1>3. AnswerIsCurrent(q)'
    <2> SUFFICES ASSUME wreq[q].op = "find", wreq[q].pc = "answered",
                        wreq[q].wallet.address # NoAddress, wreq[q].memberId \notin overlapped'
                 PROVE  wallets'[wreq[q].wallet.id].address = wreq[q].wallet.address
      BY DEF AnswerIsCurrent
    <2> QED
      BY <1>1, OverlapsStay, AddressesHold DEF KnownWallet, WatchInv, AnswerIsCurrent
  <1> QED
    BY <1>2, <1>3

\* The handler that works, action by action.
LEMMA WorkingKnows ==
    ASSUME WalletIInv, WatchInv, WalletAction, NEW r \in Requests, HandlerOf(r)
    PROVE  RowIsBare(r)' /\ AnswerIsCurrent(r)'
  <1>0. /\ wreq \in [Requests -> Handlers(Len(wallets), Len(allocated))]
        /\ wreq[r] \in Handlers(Len(wallets), Len(allocated))
        /\ Len(wallets) \in Nat /\ Len(allocated) \in Nat /\ failures \in 0..MaxFailures
    BY TypesByHandlers DEF WalletIInv, WalletTypes
  <1>1. wreq'[r].pc \notin {"allocate", "update", "answered"} => RowIsBare(r)' /\ AnswerIsCurrent(r)'
    BY DEF RowIsBare, AnswerIsCurrent
  <1>2. ASSUME NEW op \in {"find", "reset"}, NEW m \in Members, NEW name \in CoinNames,
               Start(r, op, m, name)
        PROVE  wreq'[r].pc = "coin"
    BY <1>0, <1>2 DEF Start
  <1>3. ASSUME FindCoinInfo(r) PROVE wreq'[r].pc \in {"failed", "find"}
    BY <1>0, <1>3 DEF FindCoinInfo, Goto, Handlers
  <1>4. ASSUME FindExisting(r) PROVE RowIsBare(r)' /\ AnswerIsCurrent(r)'
    <2>1. CASE Goto(r, "save")
      <3>1. wreq'[r].pc = "save"
        BY <1>0, <2>1 DEF Goto, Handlers
      <3> QED
        BY <3>1, <1>1
    <2>2. ASSUME NEW i \in FindByMemberIDAndCoinName(wreq[r].memberId, wreq[r].coinName),
                 wreq' = [wreq EXCEPT ![r].pc = AfterEnsure(r, Snapshot(i)),
                                      ![r].wallet = Snapshot(i)]
          PROVE  RowIsBare(r)' /\ AnswerIsCurrent(r)'
      <3>1. /\ wreq'[r].pc = AfterEnsure(r, Snapshot(i)) /\ wreq'[r].wallet = Snapshot(i)
        BY <1>0, <2>2 DEF Handlers
      <3>2. Snapshot(i).id = i /\ Snapshot(i).address = wallets[i].address
        BY DEF Snapshot
      <3>3. /\ AfterEnsure(r, Snapshot(i)) # "update"
            /\ AfterEnsure(r, Snapshot(i)) = "allocate" => wallets[i].address = NoAddress
        BY <3>2 DEF AfterEnsure
      <3>4. wallets' = wallets
        BY <1>4 DEF FindExisting
      <3> QED
        BY <3>1, <3>2, <3>3, <3>4 DEF RowIsBare, AnswerIsCurrent
    <2> QED
      BY <1>4, <2>1, <2>2 DEF FindExisting
  <1>5. ASSUME Save(r) PROVE RowIsBare(r)' /\ AnswerIsCurrent(r)'
    <2> DEFINE wallet == Inserted(Len(wallets) + 1)
               row == NewWallet(wreq[r].memberId, wreq[r].coinName)
    <2>1. CASE Goto(r, "failed")
      <3>1. wreq'[r].pc = "failed"
        BY <1>0, <2>1 DEF Goto, Handlers
      <3> QED
        BY <3>1, <1>1
    <2>2. CASE wallets' = Append(wallets, row) /\ Answered(r, AfterEnsure(r, wallet), wallet)
      <3>1. /\ wallet \in [id : 0..(Len(wallets) + 1), address : 0..Len(allocated), isLock : BOOLEAN]
            /\ wallet.id = Len(wallets) + 1 /\ wallet.address = NoAddress
        BY <1>0, InsertedWallet
      <3>2. AfterEnsure(r, wallet) \in {"allocate", "answered"}
        BY DEF AfterEnsure
      <3>3. wreq \in [Requests -> Handlers(Len(wallets) + 1, Len(allocated))] /\ Len(wallets) + 1 \in Nat
        BY <1>0, HandlersGrow
      <3>4. wallets'[Len(wallets) + 1].address = NoAddress
        <4>1. row.address = NoAddress
          BY DEF NewWallet
        <4>2. wallets'[Len(wallets) + 1] = row
          BY <2>2, TypesByHandlers DEF WalletIInv, WalletTypes
        <4> QED
          BY <4>1, <4>2
      <3> HIDE DEF wallet, row
      <3>5. /\ wreq'[r].pc \in {AfterEnsure(r, wallet), "failed"}
            /\ wreq'[r].pc = AfterEnsure(r, wallet) => wreq'[r].wallet = wallet
        BY <1>0, <2>2, <3>1, <3>2, <3>3, AnsweredTypes
      <3> QED
        BY <3>1, <3>2, <3>4, <3>5 DEF RowIsBare, AnswerIsCurrent
    <2> QED
      BY <1>5, <2>1, <2>2 DEF Save
  <1>6. ASSUME Allocate(r) PROVE RowIsBare(r)' /\ AnswerIsCurrent(r)'
    <2> DEFINE w == [wreq[r].wallet EXCEPT !.address = Len(allocated) + 1]
    <2>1. /\ w \in [id : 0..Len(wallets), address : 0..(Len(allocated) + 1), isLock : BOOLEAN]
          /\ w.id = wreq[r].wallet.id
      BY <1>0 DEF Handlers
    <2>2. /\ wreq \in [Requests -> Handlers(Len(wallets), Len(allocated) + 1)]
          /\ Len(allocated) + 1 \in Nat
      BY <1>0, HandlersGrow
    <2>3. /\ Answered(r, "update", w) /\ wreq[r].pc = "allocate"
          /\ wallets' = wallets /\ overlapped' = overlapped
      BY <1>6 DEF Allocate
    <2> HIDE DEF w
    <2>4. /\ wreq'[r].memberId = wreq[r].memberId /\ wreq'[r].pc \in {"update", "failed"}
          /\ wreq'[r].pc = "update" => wreq'[r].wallet = w
      BY <1>0, <2>1, <2>2, <2>3, AnsweredTypes
    <2>5. wreq[r].memberId \notin overlapped => wallets[wreq[r].wallet.id].address = NoAddress
      BY <2>3 DEF WatchInv, RowIsBare
    <2> QED
      BY <2>1, <2>3, <2>4, <2>5 DEF RowIsBare, AnswerIsCurrent
  <1>7. ASSUME UpdateAddress(r) PROVE RowIsBare(r)' /\ AnswerIsCurrent(r)'
    <2>1. /\ Answered(r, "answered", wreq[r].wallet) /\ wreq[r].op = "reset"
          /\ wreq[r].wallet \in [id : 0..Len(wallets), address : 0..Len(allocated), isLock : BOOLEAN]
      BY <1>0, <1>7 DEF UpdateAddress, Handlers, WalletIInv, WalletTypes, KnownCoin
    <2>2. wreq'[r].op = "reset" /\ wreq'[r].pc \in {"answered", "failed"}
      BY <1>0, <2>1, AnsweredTypes
    <2> QED
      BY <2>2 DEF RowIsBare, AnswerIsCurrent
  <1>8. ASSUME CallFails(r) \/ Answer(r) \/ Taken(r)
        PROVE  wreq'[r].pc \in {"failed", "done", "idle"}
    BY <1>0, <1>8 DEF CallFails, Answer, Taken, Goto, Idle, Handlers
  <1> QED
    BY <1>1, <1>2, <1>3, <1>4, <1>5, <1>6, <1>7, <1>8 DEF HandlerOf, WalletCall

\* A reset that starts while another runs marks its member.
LEMMA ResetsStayApart ==
    ASSUME WalletIInv, WatchInv, WalletAction
    PROVE  ResetsApart'
  <1>0. wreq \in [Requests -> Handlers(Len(wallets), Len(allocated))]
    BY TypesByHandlers DEF WalletIInv, WalletTypes
  <1>1. ASSUME NEW r \in Requests, NEW op \in {"find", "reset"}, NEW m \in Members,
               NEW name \in CoinNames, Start(r, op, m, name)
        PROVE  ResetsApart'
    <2>1. /\ wreq'[r].op = op /\ wreq'[r].memberId = m /\ Running(r)'
          /\ \A q \in Requests \ {r} : wreq'[q] = wreq[q]
      BY <1>0, <1>1 DEF Start, Running
    <2>2. ASSUME NEW q \in Requests \ {r}, Running(q)', wreq'[q].op = "reset",
                 wreq'[q].memberId = m, op = "reset"
          PROVE  m \in overlapped'
      BY <1>1, <2>1, <2>2 DEF Start, Running
    <2>3. \A q \in Requests \ {r} : Running(q)' <=> Running(q)
      BY <2>1 DEF Running
    <2> QED
      BY <2>1, <2>2, <2>3, OverlapsStay DEF WatchInv, ResetsApart
  <1>2. ASSUME \A q \in Requests : Running(q)' => /\ Running(q)
                                                  /\ wreq'[q].op = wreq[q].op
                                                  /\ wreq'[q].memberId = wreq[q].memberId
        PROVE  ResetsApart'
    BY <1>2, OverlapsStay DEF WatchInv, ResetsApart
  <1>3. ASSUME NEW r \in Requests, WalletCall(r) PROVE ResetsApart'
    <2>1. Running(r)
      BY <1>3 DEF WalletCall, FindCoinInfo, FindExisting, Save, Allocate, UpdateAddress,
                  CallFails, Running
    <2>2. \A q \in Requests \ {r} : wreq'[q] = wreq[q]
      BY <1>3, OthersWait DEF HandlerOf, WalletIInv
    <2>3. \A q \in Requests : wreq'[q].op = wreq[q].op /\ wreq'[q].memberId = wreq[q].memberId
      BY <1>3, WalletCallKeeps DEF WalletIInv
    <2> QED
      BY <1>2, <2>1, <2>2, <2>3 DEF Running
  <1>4. ASSUME NEW r \in Requests, Answer(r) \/ Taken(r) PROVE ResetsApart'
    <2>1. wreq'[r].pc \in {"done", "idle"}
      BY <1>0, <1>4 DEF Answer, Taken, Goto, Idle, Handlers
    <2>2. \A q \in Requests \ {r} : wreq'[q] = wreq[q]
      BY <1>4, OthersWait DEF HandlerOf, WalletIInv
    <2> QED
      BY <1>2, <2>1, <2>2 DEF Running
  <1>5. CASE UNCHANGED wreq
    BY <1>2, <1>5 DEF Running
  <1> QED
    BY <1>1, <1>3, <1>4, <1>5 DEF WalletAction, FindWallet, Locked

\* What is shown now stood in the wallet when it was read, and stands there still.
LEMMA ShownNow ==
    ASSUME WalletIInv, WatchInv, WalletAction, NEW s \in shown', s \notin shown
    PROVE  s.memberId \in overlapped' \/ Stands(s)'
  <1>1. ASSUME NEW r \in Requests, Answer(r) PROVE s.memberId \in overlapped' \/ Stands(s)'
    <2>1. /\ wreq[r].op = "find" /\ wreq[r].pc = "answered"
          /\ s \in Told(wreq[r].memberId, {wreq[r].wallet.address})
          /\ wallets' = wallets /\ overlapped' = overlapped
      BY <1>1 DEF Answer
    <2>2. /\ s.memberId = wreq[r].memberId /\ s.address = wreq[r].wallet.address
          /\ wreq[r].wallet.address # NoAddress
      BY <2>1 DEF Told
    <2>3. /\ wreq[r].wallet.id \in DOMAIN wallets
          /\ wallets[wreq[r].wallet.id].memberId = wreq[r].memberId
      BY <2>1 DEF WalletIInv, WalletTypes, KnownWallet
    <2>4. \/ wreq[r].memberId \in overlapped
          \/ wallets[wreq[r].wallet.id].address = wreq[r].wallet.address
      BY <2>1, <2>2 DEF WatchInv, AnswerIsCurrent
    <2> QED
      BY <2>1, <2>2, <2>3, <2>4 DEF Stands
  <1>2. ASSUME NEW m \in Members, FindWallet(m) PROVE Stands(s)'
    <2>1. /\ s \in Told(m, {wallets[i].address : i \in FindByMemberID(m)})
          /\ wallets' = wallets
      BY <1>2 DEF FindWallet
    <2>2. PICK i \in FindByMemberID(m) : s.memberId = m /\ s.address = wallets[i].address
      BY <2>1 DEF Told
    <2> QED
      BY <2>1, <2>2 DEF Stands, FindByMemberID
  <1> QED
    BY <1>1, <1>2
    DEF WalletAction, Start, WalletCall, FindCoinInfo, FindExisting, Save, Allocate,
        UpdateAddress, CallFails, Taken, Locked

\* Together: whoever works, and whoever waits.
LEMMA WatchStep ==
    ASSUME WalletIInv, WatchInv, WalletAction
    PROVE  WatchInv'
  <1>1. ASSUME NEW q \in Requests PROVE RowIsBare(q)' /\ AnswerIsCurrent(q)'
    <2>1. CASE HandlerOf(q)
      BY <2>1, WorkingKnows
    <2>2. ASSUME ~HandlerOf(q), NEW r \in Requests, HandlerOf(r)
          PROVE  RowIsBare(q)' /\ AnswerIsCurrent(q)'
      <3>1. wreq'[q] = wreq[q] /\ ~UpdateAddress(q)
        BY <2>2, OthersWait DEF WalletIInv, HandlerOf, WalletCall
      <3> QED
        BY <3>1, WaitingKnows
    <2>3. CASE UNCHANGED wreq /\ ~HandlerOf(q)
      BY <2>3, WaitingKnows DEF HandlerOf, WalletCall
    <2> QED
      BY <2>1, <2>2, <2>3 DEF WalletAction, HandlerOf, FindWallet, Locked
  <1>2. ShownStands'
    BY StandsStill, ShownNow DEF ShownStands
  <1> QED
    BY <1>1, <1>2, ResetsStayApart DEF WatchInv

\* The strengthened invariant holds of every behaviour.
LEMMA WatchHolds == Spec => [](OrderIInv /\ WatchInv)
  <1>1. Init => OrderIInv /\ WatchInv
    <2>1. Init => WatchInv
      BY DEF Init, WalletInit, WatchInv, ResetsApart, RowIsBare, AnswerIsCurrent, ShownStands,
             Idle, Running
    <2> QED
      BY <2>1, OrderInit0
  <1>2. OrderIInv /\ WatchInv /\ [Next]_vars => (OrderIInv /\ WatchInv)'
    <2> SUFFICES ASSUME OrderIInv, WatchInv, [Next]_vars PROVE WatchInv'
      BY OrderIInvStep
    <2>1. WalletAction
      <3>1. CASE UNCHANGED vars
        BY <3>1 DEF vars, WalletAction, OrderIInv, WalletIInv, WalletTypes, WalletTypeOK
      <3> QED
        BY <3>1, OrderSteps
    <2> QED
      BY <2>1, WatchStep DEF OrderIInv
  <1> QED
    BY <1>1, <1>2, PTL DEF Spec

-----------------------------------------------------------------------------
(* The lists of a member's orders. *)

\* What an order may become: it stays its member's and its pair's, an order that ended
\* has ended, and one that is traded is traded or ends.
OrdersStand ==
    \A i \in DOMAIN orders :
        /\ i \in DOMAIN orders'
        /\ orders'[i].memberId = orders[i].memberId /\ orders'[i].symbol = orders[i].symbol
        /\ orders[i].status \in Ended => orders'[i].status \in Ended
        /\ orders[i].status = Trading => orders'[i].status \in Ended \cup {Trading}

\* The orders a page may have been cut from, and what became of them.
Listable(r) ==
    IF r.kind = "history" THEN OrdersOf(r.memberId, r.symbol)
    ELSE TradingOf(r.memberId, r.symbol) \cup EndedOf(r.memberId, r.symbol)

EndedSince(r) == IF r.kind = "history" THEN {} ELSE EndedOf(r.memberId, r.symbol)

\* What a call has read so far is in the table still.
ReadOf(r) ==
    /\ r.pc = "count" /\ r.list # <<>> =>
           LastPlace(r) \in Int /\ LastPlace(r) <= Cardinality(Listable(r))
    /\ r.pc = "answered" /\ r.list # <<>> =>
           LastPlace(r) \in Int /\ LastPlace(r) <= r.total + Cardinality(EndedSince(r))


\* The record of a call is of its type.
Asked(r) ==
    /\ r.pc \in {"idle", "page", "count", "answered", "failed"}
    /\ r.kind \in Kinds
    /\ r.memberId \in Members \cup {"none"}
    /\ r.symbol \in DOMAIN Pairs \cup {"none"}
    /\ r.pageNo \in PageNos \cup {0} /\ r.pageSize \in PageSizes \cup {0}
    /\ \A k \in DOMAIN r.list : r.list[k].orderId \in 1..MaxClock
    /\ r.total \in Nat

\* Every call is of its type, and what it read can be counted.
ReadersKnown ==
    /\ DOMAIN reading = Readers
    /\ \A q \in Readers : Asked(reading[q]) /\ ReadOf(reading[q])

ListsIInv == OrderIInv /\ ReadersKnown

\* Every row a query selects is one of the finite table.
LEMMA SelectedFinite ==
    ASSUME OrderTypes, NEW m, NEW symbol
    PROVE  /\ IsFiniteSet(OrdersOf(m, symbol))
           /\ IsFiniteSet(TradingOf(m, symbol)) /\ IsFiniteSet(EndedOf(m, symbol))
           /\ TradingOf(m, symbol) \cap EndedOf(m, symbol) = {}
  <1>1. IsFiniteSet(DOMAIN orders)
    <2>1. Len(orders) \in Nat /\ DOMAIN orders = 1..Len(orders)
      BY DEF OrderTypes
    <2> QED
      BY <2>1, FS_Interval
  <1>2. /\ OrdersOf(m, symbol) \in SUBSET DOMAIN orders
        /\ TradingOf(m, symbol) \in SUBSET DOMAIN orders
        /\ EndedOf(m, symbol) \in SUBSET DOMAIN orders
    BY DEF OrdersOf, TradingOf, EndedOf
  <1>3. TradingOf(m, symbol) \cap EndedOf(m, symbol) = {}
    BY DEF TradingOf, EndedOf, Ended, Trading, Completed, Canceled, OverTimed
  <1> QED
    BY <1>1, <1>2, <1>3, FS_Subset

\* No step of the exchange takes an order away or brings an ended one back.
LEMMA OrdersStandStep ==
    ASSUME OrderTypes, [Next]_vars
    PROVE  OrdersStand
  <1>1. CASE UNCHANGED orders
    BY <1>1 DEF OrdersStand
  <1>2. ASSUME NEW row, orders' = Append(orders, row)
        PROVE  OrdersStand
    <2>1. orders \in Seq(OrderRow)
      BY DEF OrderTypes
    <2> HIDE DEF OrderRow
    <2>2. \A i \in DOMAIN orders : i \in DOMAIN orders' /\ orders'[i] = orders[i]
      BY <1>2, <2>1
    <2> QED
      BY <2>2 DEF OrdersStand
  <1>3. ASSUME NEW id, UpdateStatus(id, Canceled)
        PROVE  OrdersStand
    <2>1. ASSUME NEW i \in DOMAIN orders
          PROVE  /\ i \in DOMAIN orders'
                 /\ \/ orders'[i] = orders[i]
                    \/ orders'[i] = [orders[i] EXCEPT !.status = Canceled]
      BY <1>3 DEF UpdateStatus
    <2>2. ASSUME NEW i \in DOMAIN orders PROVE orders[i] \in OrderRow
      BY OrderRowOf
    <2>3. Canceled \in Ended
      BY DEF Ended
    <2> QED
      BY <2>1, <2>2, <2>3 DEF OrdersStand, OrderRow
  <1>4. ASSUME NEW i \in DOMAIN orders, Engine(i)
        PROVE  OrdersStand
    <2>1. orders[i] \in OrderRow /\ DOMAIN orders = 1..Len(orders)
      BY OrderRowOf
    <2>2. PICK s \in Trading..OrderInit :
             /\ orders' = [orders EXCEPT ![i].status = s]
             /\ orders[i].status \notin Ended
             /\ orders[i].status = Trading => s \in Ended
      BY <1>4, <2>1
      DEF Engine, Ended, Trading, Completed, Canceled, OverTimed, OrderInit, OrderRow
    <2> DEFINE row == [orders[i] EXCEPT !.status = s]
    <2>3. row.memberId = orders[i].memberId /\ row.symbol = orders[i].symbol /\ row.status = s
      BY <2>1 DEF OrderRow
    <2>4. orders' = [orders EXCEPT ![i] = row]
      BY <2>2
    <2> HIDE DEF row
    <2>5. \A k \in DOMAIN orders : k \in DOMAIN orders' /\ orders'[k] = IF k = i THEN row ELSE orders[k]
      BY <2>4
    <2> QED
      BY <2>2, <2>3, <2>5 DEF OrdersStand
  <1>5. \/ UNCHANGED orders
        \/ \E row : orders' = Append(orders, row)
        \/ \E id : UpdateStatus(id, Canceled)
        \/ \E i \in DOMAIN orders : Engine(i)
    <2>1. CASE UNCHANGED vars
      BY <2>1 DEF vars
    <2>2. ASSUME NEW r \in Requests, AddStep(r)
          PROVE  UNCHANGED orders \/ \E row : orders' = Append(orders, row)
      BY <2>2
      DEF AddStep, FindMemberAndPair, AskWallet, WalletArrives, CountOrders, SaveOrder, AddFails,
          AnswerAdd, OrderRest
    <2>3. ASSUME NEW r \in Requests, \/ \E m \in Members, form \in OrderForms : Add(r, m, form)
                                     \/ WalletRequest(r) \/ WalletStep(r)
          PROVE  UNCHANGED orders
      BY <2>3 DEF Add, WalletRequest, WalletStep, OrderRest, orderVars
    <2>4. ASSUME \/ \E m \in Members : ReadWallets(m)
                 \/ \E i \in DOMAIN wallets : LockWallet(i)
          PROVE  UNCHANGED orders
      BY <2>4 DEF ReadWallets, LockWallet, orderVars
    <2>5. ASSUME \E id \in 1..MaxClock : CancelOrder(id)
          PROVE  \E id : UpdateStatus(id, Canceled)
      BY <2>5 DEF CancelOrder
    <2> QED
      BY <2>1, <2>2, <2>3, <2>4, <2>5 DEF Next
  <1> QED
    BY <1>1, <1>2, <1>3, <1>4, <1>5

\* What is selected from the rows of a table is finite.
LEMMA RowsFinite ==
    ASSUME NEW S, NEW s \in Seq(S), NEW T \in SUBSET DOMAIN s
    PROVE  IsFiniteSet(T)
  <1>1. Len(s) \in Nat /\ DOMAIN s = 1..Len(s)
    OBVIOUS
  <1>2. IsFiniteSet(1..Len(s))
    BY <1>1, FS_Interval
  <1> QED
    BY <1>1, <1>2, FS_Subset

\* A page ends no later than what was selected.
LEMMA PageOfScan ==
    ASSUME NEW ids, IsFiniteSet(ids), NEW scan \in Scans(ids), NEW p \in Int, NEW size \in Int,
           PageOf(<<>>, p, size) # NoPage
    PROVE  \E n \in Nat : /\ DOMAIN PageOf(scan, p, size) = 1..n
                          /\ n = 0 \/ (p - 1) * size + n <= Cardinality(ids)
                          /\ \A k \in 1..n : PageOf(scan, p, size)[k] \in ids
  <1> DEFINE total == Cardinality(ids)
             off == (p - 1) * size
             m == IF off + size <= total THEN off + size ELSE total
  <1>1. total \in Nat /\ off \in Int
    BY FS_CardinalityType
  <1>2. scan \in [1..total -> ids]
    BY DEF Scans
  <1>3. ~ (off < 0 \/ size < 0)
    BY Zenon DEF PageOf
  <1> HIDE DEF total, off
  <1>4. scan \in Seq(ids) /\ Len(scan) = total
    BY <1>1, <1>2
  <1>5. off \in Nat /\ size \in Nat
    BY <1>1, <1>3
  <1>6. PageOf(scan, p, size) = SubSeq(scan, off + 1, Min({off + size, total}))
    BY <1>3, <1>4, Zenon DEF PageOf, off
  <1>7. Min({off + size, total}) = m
    BY <1>1, <1>5 DEF Min
  <1>8. m \in Nat /\ m <= total /\ off + 1 \in Nat \ {0}
    BY <1>1, <1>5
  <1> HIDE DEF m
  <1> DEFINE page == SubSeq(scan, off + 1, m)
             n == IF m <= off THEN 0 ELSE m - off
  <1>9. /\ DOMAIN page = 1..n
        /\ \A k \in 1..n : page[k] = scan[k + (off + 1) - 1] /\ k + (off + 1) - 1 \in 1..total
    BY <1>1, <1>2, <1>4, <1>5, <1>8
  <1>10. \A k \in 1..n : page[k] \in ids
    BY <1>2, <1>9
  <1>11. n \in Nat /\ (n = 0 \/ off + n <= total)
    BY <1>1, <1>5, <1>8
  <1>12. PageOf(scan, p, size) = page
    BY <1>6, <1>7
  <1> HIDE DEF page, n
  <1> QED
    BY <1>9, <1>10, <1>11, <1>12 DEF off, total

\* A step of the exchange leaves what was read where it was.
LEMMA ReadStays ==
    ASSUME OrderTypes, OrderTypes', OrdersStand, UNCHANGED reading, NEW q \in Readers,
           ReadOf(reading[q]), reading[q].total \in Nat
    PROVE  ReadOf(reading[q])'
  <1> DEFINE r == reading[q]
  <1>1. orders \in Seq(OrderRow) /\ orders' \in Seq(OrderRow)
    BY DEF OrderTypes
  <1>2. Listable(r) \subseteq Listable(r)' /\ EndedSince(r) \subseteq EndedSince(r)'
    BY DEF OrdersStand, Listable, EndedSince, OrdersOf, TradingOf, EndedOf
  <1>3. Listable(r)' \in SUBSET DOMAIN orders' /\ EndedSince(r)' \in SUBSET DOMAIN orders'
    BY DEF Listable, EndedSince, OrdersOf, TradingOf, EndedOf
  <1> HIDE DEF OrderRow
  <1>4. IsFiniteSet(Listable(r)') /\ IsFiniteSet(EndedSince(r)')
    BY <1>1, <1>3, RowsFinite
  <1>5. /\ Cardinality(Listable(r)) \in Nat /\ Cardinality(Listable(r)') \in Nat
        /\ Cardinality(Listable(r)) <= Cardinality(Listable(r)')
        /\ Cardinality(EndedSince(r)) \in Nat /\ Cardinality(EndedSince(r)') \in Nat
        /\ Cardinality(EndedSince(r)) <= Cardinality(EndedSince(r)')
    BY <1>2, <1>4, FS_Subset, FS_CardinalityType
  <1>6. reading'[q] = reading[q] /\ LastPlace(r)' = LastPlace(r)
    BY DEF LastPlace
  <1>7. r.total + Cardinality(EndedSince(r)) <= r.total + Cardinality(EndedSince(r)')
    BY <1>5
  <1> QED
    BY <1>5, <1>6 DEF ReadOf

\* A step of a call changes what that call has read, and nothing else.
LEMMA CallStep ==
    ASSUME ListsIInv, UNCHANGED vars, NEW q \in Readers, NEW new,
           reading' = [reading EXCEPT ![q] = new], Asked(new), ReadOf(new)
    PROVE  ListsIInv'
  <1>1. OrderIInv' /\ TypeOK'
    <2>1. OrderIInv'
      BY OrderIInvStep DEF ListsIInv
    <2> QED
      BY <2>1 DEF OrderIInv, OrderTypes, OrderRecord, OrderRow, WalletIInv, WalletTypes, TypeOK
  <1>2. UNCHANGED orders
    BY DEF vars
  <1>3. \A c \in Readers : reading'[c] = (IF c = q THEN new ELSE reading[c])
    BY DEF ListsIInv, ReadersKnown
  <1>4. \A c \in Readers : Asked(reading'[c]) /\ ReadOf(reading'[c])
    BY <1>3 DEF ListsIInv, ReadersKnown
  <1>5. ASSUME NEW c \in Readers PROVE (Asked(reading[c]) /\ ReadOf(reading[c]))'
    <2>1. /\ Listable(reading[c])' = Listable(reading'[c])
          /\ EndedSince(reading[c])' = EndedSince(reading'[c])
      BY <1>2 DEF Listable, EndedSince, OrdersOf, TradingOf, EndedOf
    <2>2. LastPlace(reading[c])' = LastPlace(reading'[c])
      BY DEF LastPlace
    <2>3. ReadOf(reading[c])'
      BY <1>4, <2>1, <2>2 DEF ReadOf
    <2> QED
      BY <1>4, <2>3 DEF Asked
  <1>6. DOMAIN reading' = Readers
    BY DEF ListsIInv, ReadersKnown
  <1> QED
    BY <1>1, <1>5, <1>6 DEF ListsIInv, ReadersKnown

\* The order of the two queries.
LEMMA PageThenCount == Queries[1] = "page" /\ After("page") = "count" /\ After("count") = "answered"
  BY DEF Queries, After

\* A call that is made, or fails, has read nothing that must be counted.
LEMMA AskStep ==
    ASSUME ListsIInv, UNCHANGED vars, NEW q \in Readers,
           NEW kind \in Kinds, NEW m \in Members, NEW symbol \in DOMAIN Pairs,
           NEW pageNo \in PageNos, NEW pageSize \in PageSizes,
           Ask(q, kind, m, symbol, pageNo, pageSize)
    PROVE  ListsIInv'
  <1> DEFINE new == [pc |-> "page", kind |-> kind, memberId |-> m, symbol |-> symbol,
                     pageNo |-> pageNo, pageSize |-> pageSize, list |-> <<>>, total |-> 0]
  <1>1. /\ new.pc = "page" /\ new.kind = kind /\ new.memberId = m /\ new.symbol = symbol
        /\ new.pageNo = pageNo /\ new.pageSize = pageSize /\ new.list = <<>> /\ new.total = 0
    OBVIOUS
  <1>2. reading' = [reading EXCEPT ![q] = new]
    BY PageThenCount DEF Ask
  <1> HIDE DEF new
  <1>3. Asked(new) /\ ReadOf(new)
    BY <1>1 DEF Asked, ReadOf
  <1> QED
    BY <1>2, <1>3, CallStep

LEMMA QueryFailsStep ==
    ASSUME ListsIInv, UNCHANGED vars, NEW q \in Readers,
           reading' = [reading EXCEPT ![q].pc = "failed"]
    PROVE  ListsIInv'
  <1> DEFINE new == [reading[q] EXCEPT !.pc = "failed"]
  <1>1. Asked(reading[q])
    BY DEF ListsIInv, ReadersKnown
  <1>2. reading' = [reading EXCEPT ![q] = new]
    OBVIOUS
  <1>3. Asked(new) /\ ReadOf(new)
    BY <1>1 DEF Asked, ReadOf
  <1> QED
    BY <1>2, <1>3, CallStep

\* The page is cut from what can be counted afterwards.
LEMMA SelectPageStep ==
    ASSUME ListsIInv, UNCHANGED vars, NEW q \in Readers, SelectPage(q)
    PROVE  ListsIInv'
  <1> DEFINE r == reading[q]
  <1>1. Asked(r) /\ OrderTypes
    BY DEF ListsIInv, ReadersKnown, OrderIInv
  <1>2. CASE PageOf(<<>>, r.pageNo, r.pageSize) = NoPage
    BY <1>2, QueryFailsStep DEF SelectPage
  <1>3. CASE PageOf(<<>>, r.pageNo, r.pageSize) # NoPage
    <2> DEFINE ids == Selected(r.kind, r.memberId, r.symbol)
    <2>1. PICK scan \in Scans(ids) :
            LET page == PageOf(scan, r.pageNo, r.pageSize)
            IN  reading' = [reading EXCEPT ![q].pc = After("page"),
                               ![q].list = [k \in DOMAIN page |-> ToView(orders[page[k]])]]
      BY <1>3 DEF SelectPage
    <2>2. IsFiniteSet(ids) /\ IsFiniteSet(Listable(r)) /\ ids \subseteq Listable(r)
      <3>1. /\ IsFiniteSet(OrdersOf(r.memberId, r.symbol))
            /\ IsFiniteSet(TradingOf(r.memberId, r.symbol))
            /\ IsFiniteSet(EndedOf(r.memberId, r.symbol))
        BY <1>1, SelectedFinite
      <3> QED
        BY <3>1, FS_Union DEF Selected, Listable
    <2>3. /\ Cardinality(ids) \in Nat /\ Cardinality(Listable(r)) \in Nat
          /\ Cardinality(ids) <= Cardinality(Listable(r))
      BY <2>2, FS_Subset, FS_CardinalityType
    <2>4. r.pageNo \in Int /\ r.pageSize \in Int
      <3>1. r.pageNo \in PageNos \cup {0} /\ r.pageSize \in PageSizes \cup {0}
        BY <1>1 DEF Asked
      <3> HIDE DEF r
      <3>2. PageNos \cup {0} \subseteq Int /\ PageSizes \cup {0} \subseteq Int
        BY ListsConstants
      <3> QED
        BY <3>1, <3>2
    <2>5. ids \subseteq DOMAIN orders
      BY DEF Selected, OrdersOf, TradingOf
    <2> HIDE DEF ids, r
    <2> DEFINE page == PageOf(scan, r.pageNo, r.pageSize)
               list == [k \in DOMAIN page |-> ToView(orders[page[k]])]
               new == [r EXCEPT !.pc = After("page"), !.list = list]
    <2>6. PICK n \in Nat : /\ DOMAIN page = 1..n
                           /\ n = 0 \/ (r.pageNo - 1) * r.pageSize + n <= Cardinality(ids)
                           /\ \A k \in 1..n : page[k] \in ids
      BY <1>3, <2>2, <2>4, PageOfScan
    <2> HIDE DEF page
    <2>7. Len(list) = n /\ (list # <<>> => n # 0)
      BY <2>6
    <2>8. \A k \in DOMAIN list : list[k].orderId \in 1..MaxClock
      <3>1. \A i \in DOMAIN orders : orders[i].orderId \in 1..MaxClock
        BY <1>1, OrderRowOf DEF OrderRow
      <3> QED
        BY <2>5, <2>6, <3>1 DEF ToView
    <2>9. reading' = [reading EXCEPT ![q] = new]
      BY <2>1 DEF page, r
    <2> HIDE DEF list
    <2>10. /\ new.pc = "count" /\ new.list = list /\ new.kind = r.kind
           /\ new.memberId = r.memberId /\ new.symbol = r.symbol
           /\ new.pageNo = r.pageNo /\ new.pageSize = r.pageSize /\ new.total = r.total
      BY PageThenCount
    <2> HIDE DEF new
    <2>11. Asked(new)
      BY <1>1, <2>8, <2>10 DEF Asked, r
    <2>12. ReadOf(new)
      <3>1. Listable(new) = Listable(r)
        BY <2>10 DEF Listable
      <3>2. LastPlace(new) = (r.pageNo - 1) * r.pageSize + n
        BY <2>7, <2>10 DEF LastPlace
      <3>3. (r.pageNo - 1) * r.pageSize \in Int
        BY <2>4
      <3> QED
        BY <2>3, <2>6, <2>7, <2>10, <3>1, <3>2, <3>3 DEF ReadOf
    <2> QED
      BY <2>9, <2>11, <2>12, CallStep
  <1> QED
    BY <1>2, <1>3

\* The COUNT finds what the page held, but for what has ended.
LEMMA CountRowsStep ==
    ASSUME ListsIInv, UNCHANGED vars, NEW q \in Readers, CountRows(q)
    PROVE  ListsIInv'
  <1> DEFINE r == reading[q]
             ids == Selected(r.kind, r.memberId, r.symbol)
             new == [r EXCEPT !.pc = "answered", !.total = Cardinality(ids)]
  <1>1. Asked(r) /\ ReadOf(r) /\ OrderTypes /\ r.pc = "count"
    BY DEF ListsIInv, ReadersKnown, OrderIInv, CountRows
  <1>2. reading' = [reading EXCEPT ![q] = new]
    BY PageThenCount DEF CountRows
  <1>3. /\ IsFiniteSet(ids) /\ IsFiniteSet(EndedSince(r)) /\ ids \cap EndedSince(r) = {}
        /\ Listable(r) = ids \cup EndedSince(r)
    <2>1. /\ IsFiniteSet(OrdersOf(r.memberId, r.symbol))
          /\ IsFiniteSet(TradingOf(r.memberId, r.symbol))
          /\ IsFiniteSet(EndedOf(r.memberId, r.symbol))
          /\ TradingOf(r.memberId, r.symbol) \cap EndedOf(r.memberId, r.symbol) = {}
      BY <1>1, SelectedFinite
    <2> QED
      BY <2>1, FS_EmptySet DEF Selected, Listable, EndedSince
  <1> HIDE DEF ids, r
  <1>4. /\ Cardinality(ids) \in Nat /\ Cardinality(EndedSince(r)) \in Nat
        /\ Cardinality(Listable(r)) = Cardinality(ids) + Cardinality(EndedSince(r))
    <2>1. Cardinality(Listable(r)) = Cardinality(ids) + Cardinality(EndedSince(r))
                                       - Cardinality(ids \cap EndedSince(r))
      BY <1>3, FS_Union
    <2>2. Cardinality(ids \cap EndedSince(r)) = 0
      BY <1>3, FS_EmptySet, Zenon
    <2>3. Cardinality(ids) \in Nat /\ Cardinality(EndedSince(r)) \in Nat
      BY <1>3, FS_CardinalityType
    <2> QED
      BY <2>1, <2>2, <2>3
  <1>5. /\ new.pc = "answered" /\ new.list = r.list /\ new.kind = r.kind
        /\ new.memberId = r.memberId /\ new.symbol = r.symbol
        /\ new.pageNo = r.pageNo /\ new.pageSize = r.pageSize /\ new.total = Cardinality(ids)
    OBVIOUS
  <1> HIDE DEF new
  <1>6. Asked(new)
    BY <1>1, <1>4, <1>5 DEF Asked
  <1>7. LastPlace(new) = LastPlace(r) /\ EndedSince(new) = EndedSince(r)
    BY <1>5 DEF LastPlace, EndedSince
  <1>8. ReadOf(new)
    BY <1>1, <1>4, <1>5, <1>7 DEF ReadOf
  <1> QED
    BY <1>2, <1>6, <1>8, CallStep DEF r

\* The strengthened invariant is inductive.
LEMMA ListsIInvStep == ListsIInv /\ [ListsNext]_listsVars => ListsIInv'
  <1> SUFFICES ASSUME ListsIInv, [ListsNext]_listsVars PROVE ListsIInv'
    OBVIOUS
  <1>1. ASSUME [Next]_vars, UNCHANGED reading
        PROVE  ListsIInv'
    <2>1. OrderIInv'
      BY <1>1, OrderIInvStep DEF ListsIInv
    <2>2. OrderTypes /\ OrderTypes'
      BY <2>1 DEF ListsIInv, OrderIInv
    <2>3. OrdersStand
      BY <1>1, <2>2, OrdersStandStep
    <2>4. ASSUME NEW q \in Readers PROVE (Asked(reading[q]) /\ ReadOf(reading[q]))'
      <3>1. Asked(reading[q]) /\ ReadOf(reading[q])
        BY DEF ListsIInv, ReadersKnown
      <3>2. ReadOf(reading[q])'
        BY <1>1, <2>2, <2>3, <3>1, ReadStays DEF Asked
      <3> QED
        BY <1>1, <3>1, <3>2 DEF Asked
    <2> QED
      BY <1>1, <2>1, <2>4 DEF ListsIInv, ReadersKnown
  <1>2. ASSUME NEW q \in Readers, ReadStep(q), UNCHANGED vars
        PROVE  ListsIInv'
    BY <1>2, AskStep, SelectPageStep, CountRowsStep, QueryFailsStep DEF ReadStep, QueryFails
  <1> QED
    BY <1>1, <1>2 DEF ListsNext, listsVars

-----------------------------------------------------------------------------
(* The theorems. *)

\* The tables of wallets, addresses and orders, and the handlers of both services, stay
\* of their types whatever the requests do to each other.
THEOREM TypeCorrect == Spec => []TypeOK
  <1>1. OrderIInv => TypeOK
    BY DEF OrderIInv, OrderTypes, OrderRecord, OrderRow, WalletIInv, WalletTypes, TypeOK
  <1> QED
    BY <1>1, OrderInvariant, PTL

\* A member has one wallet of a coin, however many requests, of whichever spelling, ran
\* at once and failed (ensureMemberWallet and the unique key behind it).
THEOREM OneWallet == Spec => []OneWalletPerCoin
  <1>1. OrderIInv => OneWalletPerCoin
    BY DEF OrderIInv, WalletIInv
  <1> QED
    BY <1>1, OrderInvariant, PTL

\* A deposit address stands in one wallet, of BTC, of the member the node made it for
\* (ResetAddress: SELECT, getnewaddress, UPDATE).
THEOREM AddressesOwned == Spec => []AddressOfOneMember
  <1>1. OrderIInv => AddressOfOneMember
    BY DEF OrderIInv, WalletIInv
  <1> QED
    BY <1>1, OrderInvariant, PTL

\* A reset of BTC that was answered left an address in the member's wallet, whatever
\* other resets wrote since.
THEOREM ResetDone == Spec => []ResetGivesAddress
  <1>1. OrderIInv => ResetGivesAddress
    BY DEF OrderIInv, WalletIInv
  <1> QED
    BY <1>1, OrderInvariant, PTL

\* An address a member was shown is still one of those a deposit watcher reads, however
\* his and others' requests interleave and fail, unless two of his resets overlapped
\* (ResetAddress writes the row it READ, whatever it holds by now).
THEOREM ShownWatched == Spec => []ShownStaysWatched
  <1>1. OrderIInv /\ WatchInv => ShownStaysWatched
    <2> SUFFICES ASSUME OrderIInv, WatchInv, NEW s \in shown, s.memberId \notin overlapped
                 PROVE  s.address \in FindAllAddress(BTC)
      BY DEF ShownStaysWatched
    <2>1. PICK i \in DOMAIN wallets : wallets[i].address = s.address
      BY DEF WatchInv, ShownStands, Stands
    <2>2. s.address # NoAddress
      BY TypesByHandlers DEF OrderIInv, WalletIInv, WalletTypes, NoAddress
    <2>3. wallets[i].coinName = BTC
      BY <2>1, <2>2 DEF OrderIInv, WalletIInv, AddressOfOneMember
    <2> QED
      BY <2>1, <2>3 DEF FindAllAddress, SameCoin
  <1> QED
    BY <1>1, WatchHolds, PTL

\* An order that is stored has both wallets of its pair and a price by its type, although
\* the wallets are made by calls of another service before the order is validated.
THEOREM OrdersMatched == Spec => []OrderInv
  <1>1. OrderIInv => OrderInv
    BY DEF OrderIInv
  <1> QED
    BY <1>1, OrderInvariant, PTL

\* The id a member was answered finds one order, and it is his: two orders that read the
\* same clock do not both get it.
THEOREM AnsweredFound == Spec => []AnsweredOrderIsFound
  <1>1. ASSUME OrderIInv, NEW a \in answers
        PROVE  /\ Cardinality(FindByOrderID(a.orderId)) = 1
               /\ \A i \in FindByOrderID(a.orderId) : orders[i].memberId = a.memberId
    <2>1. PICK i \in DOMAIN orders : orders[i].orderId = a.orderId /\ orders[i].memberId = a.memberId
      BY <1>1 DEF OrderIInv, AnswersStored, IsStored
    <2>2. FindByOrderID(a.orderId) = {i}
      BY <1>1, <2>1 DEF OrderIInv, UniqueIds, FindByOrderID
    <2> QED
      BY <2>1, <2>2, FS_Singleton
  <1>2. OrderIInv => AnsweredOrderIsFound
    BY <1>1 DEF AnsweredOrderIsFound
  <1> QED
    BY <1>2, OrderInvariant, PTL

\* A page never ends past the total it is announced with, but for the orders that ended
\* meanwhile, whatever is asked for, however the unordered SELECT meets the rows, and
\* whatever is stored, matched and cancelled between it and the COUNT
\* (FindOrderHistory, FindOrderCurrent).
THEOREM ListsCount == ListsSpec => []ListsInv
  <1>1. ListsInit => ListsIInv
    <2> SUFFICES ASSUME ListsInit PROVE ListsIInv
      OBVIOUS
    <2>1. OrderIInv
      BY OrderInit0 DEF ListsInit
    <2>2. Asked(NotReading) /\ ReadOf(NotReading)
      BY DEF Asked, ReadOf, NotReading, Kinds
    <2> QED
      BY <2>1, <2>2 DEF ListsInit, ListsIInv, ReadersKnown
  <1>2. ListsIInv => ListsInv
    <2> SUFFICES ASSUME ListsIInv PROVE ListsInv
      OBVIOUS
    <2>1. TypeOK
      BY DEF ListsIInv, OrderIInv, OrderTypes, OrderRecord, OrderRow, WalletIInv, WalletTypes, TypeOK
    <2>2. ListsTypeOK
      BY <2>1 DEF ListsIInv, ReadersKnown, Asked, ListsTypeOK
    <2>3. AnswerCountsItsOrders
      <3>1. SUFFICES ASSUME NEW q \in Readers, reading[q].pc = "answered", reading[q].list # <<>>
                     PROVE  LastPlace(reading[q]) <= reading[q].total
                              + (IF reading[q].kind = "history" THEN 0
                                 ELSE Cardinality(EndedOf(reading[q].memberId, reading[q].symbol)))
        BY Zenon DEF AnswerCountsItsOrders
      <3>2. LastPlace(reading[q]) <= reading[q].total + Cardinality(EndedSince(reading[q]))
        BY <3>1 DEF ListsIInv, ReadersKnown, ReadOf
      <3>3. Cardinality(EndedSince(reading[q])) =
              IF reading[q].kind = "history" THEN 0
              ELSE Cardinality(EndedOf(reading[q].memberId, reading[q].symbol))
        BY FS_EmptySet, Zenon DEF EndedSince
      <3> QED
        BY <3>2, <3>3
    <2> QED
      BY <2>2, <2>3 DEF ListsInv
  <1> QED
    BY <1>1, <1>2, ListsIInvStep, PTL DEF ListsSpec
=============================================================================
