---------------------------- MODULE WalletAddress ----------------------------
(***************************************************************************)
(* The wallets of ucenter and their deposit addresses.  A wallet is made   *)
(* when it is first asked for: a SELECT, and an INSERT when the SELECT     *)
(* found nothing.  ResetAddress gives the wallet of BTC an address of      *)
(* Bitcoin Core's wallet when the row it READ had none: SELECT, RPC to the *)
(* node and UPDATE are three calls, and any number of requests run at      *)
(* once.  Each call may fail, without or after its effect.                 *)
(*                                                                         *)
(* Names are compared by MySQL without regard to case, by Go with it: two  *)
(* names of one coin are two members of CoinNames with one unit.           *)
(***************************************************************************)
EXTENDS Integers, Sequences, FiniteSets

CONSTANTS
    Requests,     \* handlers, each of one request of a member (or of exchange-rpc)
    Members,
    CoinNames,    \* what a request may call a coin
    BTC,          \* "BTC", letter for letter
    NoCoin,
    UnitOf,       \* the unit of the coin the market finds under a name, or NoCoin
    MaxFailures   \* bound: calls that fail

ASSUME WalletConstants ==
    /\ BTC \in CoinNames
    /\ UnitOf \in [CoinNames -> CoinNames \cup {NoCoin}]
    /\ UnitOf[BTC] = BTC
    /\ \A n \in CoinNames : UnitOf[n] # NoCoin => UnitOf[UnitOf[n]] = UnitOf[n]
    /\ NoCoin \notin CoinNames
    /\ MaxFailures \in Nat

VARIABLES
    wallets,     \* table member_wallet: its rows, the position being the id
    allocated,   \* Bitcoin Core's wallet: address n was made under label allocated[n]
    wreq,        \* the handlers
    shown,       \* addresses a member has been answered, as [memberId, address]
    overlapped,  \* members who reset an address while another reset of theirs ran
    failures

walletVars == <<wallets, allocated, wreq, shown, overlapped, failures>>

NoAddress == 0
NoWallet == [id |-> 0, address |-> NoAddress, isLock |-> FALSE]

Idle == [pc |-> "idle", op |-> "none", memberId |-> "none", coinName |-> NoCoin,
         wallet |-> NoWallet]

Running(r) == wreq[r].pc \in {"coin", "find", "save", "allocate", "update"}

(***************************************************************************)
(* The repository's queries.                                               *)
(***************************************************************************)
\* coin_name = ? under the table's case-insensitive collation.
SameCoin(a, b) == UnitOf[a] = UnitOf[b]

FindByMemberID(m) == {i \in DOMAIN wallets : wallets[i].memberId = m}

FindByMemberIDAndCoinName(m, name) ==
    {i \in FindByMemberID(m) : SameCoin(wallets[i].coinName, name)}

FindAllAddress(name) ==
    {wallets[i].address : i \in {j \in DOMAIN wallets : SameCoin(wallets[j].coinName, name)}}

Snapshot(i) == [id |-> i, address |-> wallets[i].address, isLock |-> wallets[i].isLock]

WalletTypeOK ==
    /\ wallets \in Seq([memberId : Members, coinName : CoinNames,
                        address : 0..Len(allocated), isLock : BOOLEAN])
    /\ allocated \in Seq(Members)
    /\ wreq \in [Requests ->
         [pc : {"idle", "coin", "find", "save", "allocate", "update",
                "answered", "failed", "done"},
          op : {"none", "find", "reset"}, memberId : Members \cup {"none"},
          coinName : CoinNames \cup {NoCoin},
          wallet : [id : 0..Len(wallets), address : 0..Len(allocated), isLock : BOOLEAN]]]
    /\ shown \subseteq [memberId : Members, address : 1..Len(allocated)]
    /\ overlapped \subseteq Members
    /\ failures \in 0..MaxFailures

WalletInit ==
    /\ wallets = <<>>
    /\ allocated = <<>>
    /\ wreq = [r \in Requests |-> Idle]
    /\ shown = {}
    /\ overlapped = {}
    /\ failures = 0

(***************************************************************************)
(* Starting a request.  The name a reset uses is the form's, or else the   *)
(* one of the path.                                                        *)
(***************************************************************************)
Start(r, op, m, name) ==
    /\ wreq[r].pc = "idle"
    /\ wreq' = [wreq EXCEPT ![r] = [pc |-> "coin", op |-> op, memberId |-> m,
                                    coinName |-> name, wallet |-> NoWallet]]
    /\ overlapped' =
         IF op = "reset" /\ \E q \in Requests : /\ Running(q)
                                                /\ wreq[q].op = "reset"
                                                /\ wreq[q].memberId = m
         THEN overlapped \cup {m}
         ELSE overlapped
    /\ UNCHANGED <<wallets, allocated, shown, failures>>

FindWalletBySymbol(r, m, name) == Start(r, "find", m, name)

ResetName(unit, coinName) == IF unit # NoCoin THEN unit ELSE coinName

ResetAddress(r, m, unit, coinName) ==
    /\ ResetName(unit, coinName) # NoCoin
    /\ Start(r, "reset", m, ResetName(unit, coinName))

(***************************************************************************)
(* The steps of a handler.                                                 *)
(***************************************************************************)
Goto(r, pc) == wreq' = [wreq EXCEPT ![r].pc = pc]

AfterEnsureAlways(r, wallet) ==  \* mutant: an address is allocated whatever the row holds
    IF wreq[r].op = "reset" /\ wreq[r].coinName = BTC THEN "allocate" ELSE "answered"

\* What follows once the wallet is known: only BTC without an address needs more.
AfterEnsure(r, wallet) ==
    IF wreq[r].op = "reset" /\ wreq[r].coinName = BTC /\ wallet.address = NoAddress
    THEN "allocate" ELSE "answered"

\* A call takes effect and its answer arrives, or is lost: the handler sees an error.
Answered(r, pc, wallet) ==
    \/ /\ wreq' = [wreq EXCEPT ![r].pc = pc, ![r].wallet = wallet]
       /\ UNCHANGED failures
    \/ /\ failures < MaxFailures
       /\ failures' = failures + 1
       /\ Goto(r, "failed")

\* market's table coin, compared without regard to case.
FindByUnit(name) == UnitOf[name]

FindCoinInfo(r) ==
    /\ wreq[r].pc = "coin"
    /\ Goto(r, IF FindByUnit(wreq[r].coinName) = NoCoin THEN "failed" ELSE "find")
    /\ UNCHANGED <<wallets, allocated, shown, overlapped, failures>>

FindExisting(r) ==
    /\ wreq[r].pc = "find"
    /\ LET rows == FindByMemberIDAndCoinName(wreq[r].memberId, wreq[r].coinName)
       IN  IF rows = {} THEN Goto(r, "save")
           ELSE \E i \in rows :
                  wreq' = [wreq EXCEPT ![r].pc = AfterEnsure(r, Snapshot(i)),
                                       ![r].wallet = Snapshot(i)]
    /\ UNCHANGED <<wallets, allocated, shown, overlapped, failures>>

NoKeyTaken(m, unit) == FALSE  \* mutant: the table without its unique key

\* UNIQUE KEY uk_member_wallet_member_coin (member_id, coin_name)
KeyTaken(m, unit) == FindByMemberIDAndCoinName(m, unit) # {}

\* The row is written under the coin's unit, whatever name the request used.
NewWallet(m, name) ==
    [memberId |-> m, coinName |-> UnitOf[name], address |-> NoAddress, isLock |-> FALSE]

InsertedNoId(i) == NoWallet  \* mutant: the generated id is not read back
Inserted(i) == [NoWallet EXCEPT !.id = i]

Save(r) ==
    LET m == wreq[r].memberId  name == wreq[r].coinName
        wallet == Inserted(Len(wallets) + 1)
    IN  /\ wreq[r].pc = "save"
        /\ IF KeyTaken(m, UnitOf[name])
           THEN Goto(r, "failed") /\ UNCHANGED <<wallets, failures>>
           ELSE /\ wallets' = Append(wallets, NewWallet(m, name))
                /\ Answered(r, AfterEnsure(r, wallet), wallet)
        /\ UNCHANGED <<allocated, shown, overlapped>>

\* getnewaddress with the label member-<id>-btc
Allocate(r) ==
    /\ wreq[r].pc = "allocate"
    /\ allocated' = Append(allocated, wreq[r].memberId)
    /\ Answered(r, "update", [wreq[r].wallet EXCEPT !.address = Len(allocated) + 1])
    /\ UNCHANGED <<wallets, shown, overlapped>>

WriteAddressOfCoin(wallet) ==  \* mutant: every wallet of the coin is updated
    [i \in DOMAIN wallets |->
       IF wallets[i].coinName = BTC THEN [wallets[i] EXCEPT !.address = wallet.address]
       ELSE wallets[i]]

\* UPDATE ... WHERE id=?: whatever the row holds by now.
WriteAddress(wallet) ==
    [i \in DOMAIN wallets |->
       IF i = wallet.id THEN [wallets[i] EXCEPT !.address = wallet.address] ELSE wallets[i]]

UpdateAddress(r) ==
    /\ wreq[r].pc = "update"
    /\ wallets' = WriteAddress(wreq[r].wallet)
    /\ Answered(r, "answered", wreq[r].wallet)
    /\ UNCHANGED <<allocated, shown, overlapped>>

\* Any call of the handler fails without effect: also a missing allocator and the
\* five seconds of the caller running out.
CallFails(r) ==
    /\ Running(r)
    /\ failures < MaxFailures
    /\ failures' = failures + 1
    /\ Goto(r, "failed")
    /\ UNCHANGED <<wallets, allocated, shown, overlapped>>

Told(m, addresses) == [memberId : {m}, address : addresses \ {NoAddress}]

\* ucenter-api answers the member; the answer to a reset is empty.
Answer(r) ==
    /\ wreq[r].pc = "answered"
    /\ Goto(r, "done")
    /\ shown' = IF wreq[r].op = "find"
                THEN shown \cup Told(wreq[r].memberId, {wreq[r].wallet.address})
                ELSE shown
    /\ UNCHANGED <<wallets, allocated, overlapped, failures>>

\* All wallets of a member, each with its coin.
FindWallet(m) ==
    /\ shown' = shown \cup Told(m, {wallets[i].address : i \in FindByMemberID(m)})
    /\ UNCHANGED <<wallets, allocated, wreq, overlapped, failures>>

WalletCall(r) ==
    \/ FindCoinInfo(r)
    \/ FindExisting(r)
    \/ Save(r)
    \/ Allocate(r)
    \/ UpdateAddress(r)
    \/ CallFails(r)

(***************************************************************************)
(* Properties.                                                             *)
(***************************************************************************)
\* Two requests that both find no wallet leave one: a member has one wallet of a
\* coin, however its name was spelled, whatever failed in between
\* (wallet_service.go: "idempotent, several calls do not create several wallets").
OneWalletPerCoin ==
    \A i, j \in DOMAIN wallets :
        /\ wallets[i].memberId = wallets[j].memberId
        /\ SameCoin(wallets[i].coinName, wallets[j].coinName)
        => i = j

\* A deposit address stands in one wallet only, a wallet of BTC whose member the
\* node's label names: what arrives there is nobody else's.
AddressOfOneMember ==
    \A i \in DOMAIN wallets : wallets[i].address # NoAddress =>
        /\ wallets[i].coinName = BTC
        /\ allocated[wallets[i].address] = wallets[i].memberId
        /\ \A j \in DOMAIN wallets : wallets[j].address = wallets[i].address => i = j

\* An address a member was shown stays one of those a deposit watcher reads
\* (GetAddress), unless two resets of that member overlapped: between the answer
\* and the deposit nothing else may replace it.
ShownStaysWatched ==
    \A s \in shown : s.memberId \in overlapped \/ s.address \in FindAllAddress(BTC)

\* A member who is told that the address of BTC was reset has one.
ResetGivesAddress ==
    \A r \in Requests :
        /\ wreq[r].op = "reset" /\ wreq[r].coinName = BTC
        /\ wreq[r].pc \in {"answered", "done"}
        => \E i \in FindByMemberIDAndCoinName(wreq[r].memberId, BTC) :
               wallets[i].address # NoAddress
=============================================================================
