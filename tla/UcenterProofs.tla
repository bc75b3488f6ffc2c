----------------------------- MODULE UcenterProofs -----------------------------
(***************************************************************************)
(* Two halves, as in Ucenter.                                              *)
(*                                                                         *)
(* Accounts.  That a phone has one member is the table's unique key; that  *)
(* the member proved the phone needs the way of a code: what Redis holds   *)
(* under a phone was the last code sent to it (CacheInv), a request past   *)
(* the reading of its code has seen it there in time (ReadInv), and the    *)
(* INSERT hands this on to the member (ProofInv).  The login count of a    *)
(* member is the number of its logins whose goroutine ran (CountInv): a    *)
(* step that adds one to the count adds one element to a set.              *)
(*                                                                         *)
(* Histories.  Between the COUNT and the SELECT of a page, and between two *)
(* pages, a table only grows, at the new end of the order.  A row a walk   *)
(* has not seen, of those it can tell apart, therefore has as many rows    *)
(* before it as the earlier pages took, or more (WalkInv), so the pages    *)
(* that follow still have it in front of them.                             *)
(***************************************************************************)
EXTENDS Ucenter, FiniteSetTheorems, FunctionTheorems, TLAPS

-----------------------------------------------------------------------------
(* Accounts: the types. *)

RegisterSteps == {"idle", "code", "phone", "save", "answered", "failed"}
LoginSteps == {"idle", "find", "verify", "answered", "failed"}
Backgrounds == {"none", "running", "done", "lost"}

RegisterRow ==
    [pc : RegisterSteps, phone : Phones \cup {"none"},
     password : Passwords \cup {"none"}, code : Codes \cup {"none"},
     partner : Partners \cup {"none"}, readAt : 0..MaxNow, readLen : Nat]

LoginRow(n) ==
    [pc : LoginSteps, password : Passwords \cup {"none"}, id : 0..n,
     count : Nat, iat : 0..MaxNow, background : Backgrounds]

MemberRow ==
    [phone : Phones, password : Passwords, loginCount : Nat,
     superPartner : {"0", "1", "2"}, status : {"normal", "illegal"},
     transactionStatus : {0, 1}]

ProofRow == [code : Codes, readAt : 0..MaxNow, readLen : Nat]

SentRow == [phone : Phones, code : Codes, at : 0..MaxNow]

\* What a request in progress has in hand.
RegisterKnows ==
    \A r \in Registers :
        rreq[r].pc \in {"code", "phone", "save"} =>
            /\ rreq[r].phone \in Phones /\ rreq[r].password \in Passwords
            /\ rreq[r].code \in Codes

LoginKnows ==
    \A l \in Logins :
        /\ lreq[l].pc \in {"verify", "answered"} => lreq[l].id \in DOMAIN members
        /\ lreq[l].background # "none" => lreq[l].pc = "answered"

TableTypes ==
    /\ members \in Seq(MemberRow)
    /\ proofs \in Seq(ProofRow)
    /\ Len(proofs) = Len(members)
    /\ sent \in Seq(SentRow)
    /\ cache \in [Keys -> [code : Codes \cup {"none"},
                           until : 0..(MaxNow + CodeTTL)]]
    /\ served \subseteq [userId : 1..Len(members), iat : 0..MaxNow, at : 0..MaxNow]
    /\ now \in 0..MaxNow
    /\ faults \in 0..MaxFaults

AccountTypes ==
    /\ TableTypes
    /\ rreq \in [Registers -> RegisterRow]
    /\ lreq \in [Logins -> LoginRow(Len(members))]
    /\ RegisterKnows /\ LoginKnows

\* The assumptions on the constants, as facts.
LEMMA AccountBounds ==
    /\ CodeTTL \in Nat /\ AccessExpire \in Nat /\ MaxNow \in Nat
    /\ MaxSends \in Nat /\ MaxServed \in Nat /\ MaxFaults \in Nat
  BY AccountConstants

\* The inductive form of the types gives the one the run checks.
LEMMA AccountTypesAreTypes == AccountTypes => AccountTypeOK
  <1> SUFFICES ASSUME AccountTypes PROVE AccountTypeOK
    OBVIOUS
  <1> USE DEF AccountTypes
  <1>1. ASSUME NEW r \in Registers
        PROVE  /\ rreq[r].pc \in {"idle", "code", "phone", "save", "answered",
                                  "failed"}
               /\ rreq[r].phone \in Phones \cup {"none"}
    BY DEF RegisterRow, RegisterSteps
  <1>2. ASSUME NEW l \in Logins
        PROVE  /\ lreq[l].pc \in {"idle", "find", "verify", "answered", "failed"}
               /\ lreq[l].id \in 0..Len(members)
               /\ lreq[l].background \in {"none", "running", "done", "lost"}
    BY DEF LoginRow, LoginSteps, Backgrounds
  <1> QED
    BY <1>1, <1>2 DEF AccountTypeOK, TableTypes, MemberRow, SentRow

\* The types hold at the start.
LEMMA AccountTypesInit == AccountInit => AccountTypes
  <1> SUFFICES ASSUME AccountInit PROVE AccountTypes
    OBVIOUS
  <1> USE AccountBounds DEF AccountInit
  <1>1. TableTypes
    BY DEF TableTypes, NoCode
  <1>2. RIdle \in RegisterRow /\ RIdle.pc = "idle"
    BY DEF RIdle, RegisterRow, RegisterSteps
  <1>3. LIdle \in LoginRow(0) /\ LIdle.pc = "idle" /\ LIdle.background = "none"
    BY DEF LIdle, LoginRow, LoginSteps, Backgrounds, NoMember
  <1> QED
    BY <1>1, <1>2, <1>3 DEF AccountTypes, RegisterKnows, LoginKnows

\* One register request changes.
RegisterMoves(r) ==
    /\ rreq' = [q \in Registers |-> IF q = r THEN rreq'[r] ELSE rreq[q]]
    /\ rreq'[r] \in RegisterRow
    /\ rreq'[r].pc \in {"code", "phone", "save"} =>
            /\ rreq'[r].phone \in Phones /\ rreq'[r].password \in Passwords
            /\ rreq'[r].code \in Codes
    /\ UNCHANGED <<now, cache, sent, lreq, served>>
    /\ faults' = faults \/ (faults < MaxFaults /\ faults' = faults + 1)

\* An idle handler, at any step, is a row.
LEMMA RIdleRows ==
    /\ RIdle.pc = "idle"
    /\ \A pc \in RegisterSteps : /\ [RIdle EXCEPT !.pc = pc] \in RegisterRow
                                 /\ [RIdle EXCEPT !.pc = pc].pc = pc
  BY AccountBounds DEF RIdle, RegisterRow, RegisterSteps

\* A registration that ends, well or not, changes no more than its handler.
LEMMA LeaveMoves ==
    ASSUME AccountTypes, NEW r \in Registers, NEW pc \in {"answered", "failed"},
           RLeave(r, pc)
    PROVE  /\ rreq' = [q \in Registers |-> IF q = r THEN rreq'[r] ELSE rreq[q]]
           /\ rreq'[r] \in RegisterRow
           /\ rreq'[r].pc = pc
  BY RIdleRows DEF RLeave, AccountTypes, RegisterSteps

\* The record of a request that was just received.
Received(phone, password, code, partner) ==
    [RIdle EXCEPT !.phone = phone, !.password = password, !.code = code,
                  !.partner = partner, !.pc = "code"]

\* The row of a registration that was received.
LEMMA ReceivedRow ==
    ASSUME NEW phone \in Phones, NEW password \in Passwords, NEW code \in Codes,
           NEW partner \in Partners
    PROVE  /\ Received(phone, password, code, partner) \in RegisterRow
           /\ Received(phone, password, code, partner).pc = "code"
           /\ Received(phone, password, code, partner).phone = phone
           /\ Received(phone, password, code, partner).password = password
           /\ Received(phone, password, code, partner).code = code
  <1> DEFINE a == [RIdle EXCEPT !.phone = phone]
             b == [a EXCEPT !.password = password]
             c == [b EXCEPT !.code = code]
             d == [c EXCEPT !.partner = partner]
             row == [d EXCEPT !.pc = "code"]
  <1>0. RIdle \in RegisterRow
    BY AccountBounds DEF RIdle, RegisterRow, RegisterSteps
  <1>1. a \in RegisterRow /\ a.phone = phone
    BY <1>0 DEF RegisterRow
  <1> HIDE DEF a
  <1>2. b \in RegisterRow /\ b.phone = phone /\ b.password = password
    BY <1>1 DEF RegisterRow
  <1> HIDE DEF b
  <1>3. /\ c \in RegisterRow /\ c.phone = phone /\ c.password = password
        /\ c.code = code
    BY <1>2 DEF RegisterRow
  <1> HIDE DEF c
  <1>4. /\ d \in RegisterRow /\ d.phone = phone /\ d.password = password
        /\ d.code = code
    BY <1>3 DEF RegisterRow
  <1> HIDE DEF d
  <1>5. /\ row \in RegisterRow /\ row.phone = phone /\ row.password = password
        /\ row.code = code /\ row.pc = "code"
    BY <1>4 DEF RegisterRow, RegisterSteps
  <1>6. row = Received(phone, password, code, partner)
    BY Zenon DEF a, b, c, d, Received
  <1> HIDE DEF row
  <1> QED
    BY <1>5, <1>6

\* What Register does.
LEMMA RegisterStepMoves ==
    ASSUME AccountTypes, NEW r \in Registers, NEW phone \in Phones,
           NEW password \in Passwords, NEW code \in Codes, NEW partner \in Partners,
           Register(r, phone, password, code, partner)
    PROVE  /\ RegisterMoves(r) /\ UNCHANGED <<members, proofs>>
           /\ rreq[r].pc = "idle" /\ rreq'[r].pc \in {"code", "failed"}
  <1>1. /\ rreq[r].pc = "idle"
        /\ UNCHANGED <<now, cache, sent, lreq, served, members, proofs, faults>>
    BY DEF Register, RRest
  <1>2. \/ RLeave(r, "failed")
        \/ rreq' = [rreq EXCEPT ![r] = Received(phone, password, code, partner)]
    BY DEF Register, Received
  <1>3. CASE RLeave(r, "failed")
    BY <1>1, <1>3, LeaveMoves DEF RegisterMoves
  <1>4. CASE rreq' = [rreq EXCEPT ![r] =
                        Received(phone, password, code, partner)]
    <2>1. /\ rreq' = [q \in Registers |-> IF q = r THEN rreq'[r] ELSE rreq[q]]
          /\ rreq'[r] = Received(phone, password, code, partner)
      BY <1>4 DEF AccountTypes
    <2>2. /\ rreq'[r] \in RegisterRow /\ rreq'[r].pc = "code"
          /\ rreq'[r].phone = phone /\ rreq'[r].password = password
          /\ rreq'[r].code = code
      BY <2>1, ReceivedRow
    <2> QED
      BY <1>1, <2>1, <2>2 DEF RegisterMoves
  <1> QED
    BY <1>2, <1>3, <1>4

\* What ReadCode does: it remembers when it read, or fails.
LEMMA ReadCodeMoves ==
    ASSUME AccountTypes, NEW r \in Registers, ReadCode(r)
    PROVE  /\ RegisterMoves(r) /\ UNCHANGED <<members, proofs, faults>>
           /\ rreq[r].pc = "code"
           /\ \/ rreq'[r].pc = "failed"
              \/ /\ rreq'[r] = [rreq[r] EXCEPT !.pc = "phone", !.readAt = now,
                                               !.readLen = Len(sent)]
                 /\ CodeAccepted(r)
  <1> DEFINE row == [rreq[r] EXCEPT !.pc = "phone", !.readAt = now,
                                    !.readLen = Len(sent)]
  <1>1. /\ rreq[r].pc = "code"
        /\ UNCHANGED <<now, cache, sent, lreq, served, members, proofs, faults>>
    BY DEF ReadCode, RRest
  <1>2. \/ RLeave(r, "failed")
        \/ /\ rreq' = [rreq EXCEPT ![r].pc = "phone", ![r].readAt = now,
                                   ![r].readLen = Len(sent)]
           /\ CodeAccepted(r)
    BY DEF ReadCode
  <1>3. CASE RLeave(r, "failed")
    BY <1>1, <1>3, LeaveMoves DEF RegisterMoves
  <1>4. CASE /\ rreq' = [rreq EXCEPT ![r].pc = "phone", ![r].readAt = now,
                                     ![r].readLen = Len(sent)]
             /\ CodeAccepted(r)
    <2>1. /\ rreq[r] \in RegisterRow /\ rreq[r].phone \in Phones
          /\ rreq[r].password \in Passwords /\ rreq[r].code \in Codes
      BY <1>1 DEF AccountTypes, RegisterKnows
    <2>2. /\ rreq' = [q \in Registers |-> IF q = r THEN rreq'[r] ELSE rreq[q]]
          /\ rreq'[r] = row
      BY <1>4, <2>1 DEF AccountTypes, RegisterRow
    <2>3. Len(sent) \in Nat /\ now \in 0..MaxNow
      BY DEF AccountTypes, TableTypes
    <2>4. row \in RegisterRow
      BY <2>1, <2>3 DEF RegisterRow, RegisterSteps
    <2>5. /\ row.pc = "phone" /\ row.phone = rreq[r].phone
          /\ row.password = rreq[r].password /\ row.code = rreq[r].code
      BY <2>1 DEF RegisterRow
    <2>6. RegisterMoves(r)
      <3> HIDE DEF row
      <3> QED
        BY <1>1, <2>1, <2>2, <2>4, <2>5 DEF RegisterMoves
    <2> QED
      BY <1>1, <1>4, <2>2, <2>6
  <1> QED
    BY <1>2, <1>3, <1>4

\* What the query for the phone does, and a call that fails.
LEMMA LookUpMoves ==
    ASSUME AccountTypes, NEW r \in Registers, LookUpPhone(r) \/ RegisterFails(r)
    PROVE  /\ RegisterMoves(r) /\ UNCHANGED <<members, proofs>>
           /\ \/ rreq'[r].pc = "failed"
              \/ /\ rreq[r].pc = "phone"
                 /\ rreq'[r] = [rreq[r] EXCEPT !.pc = "save"]
  <1>1. /\ rreq[r].pc \in {"code", "phone", "save"}
        /\ UNCHANGED <<now, cache, sent, lreq, served, members, proofs>>
        /\ faults' = faults \/ (faults < MaxFaults /\ faults' = faults + 1)
        /\ \/ RLeave(r, "failed")
           \/ /\ rreq' = [rreq EXCEPT ![r].pc = "save"]
              /\ rreq[r].pc = "phone"
    <2>1. CASE LookUpPhone(r)
      BY <2>1 DEF LookUpPhone, RRest, RGoto
    <2>2. CASE RegisterFails(r)
      BY <2>2 DEF RegisterFails, RRest
    <2> QED
      BY <2>1, <2>2
  <1>2. CASE RLeave(r, "failed")
    BY <1>1, <1>2, LeaveMoves DEF RegisterMoves
  <1>3. CASE rreq' = [rreq EXCEPT ![r].pc = "save"] /\ rreq[r].pc = "phone"
    <2> DEFINE row == [rreq[r] EXCEPT !.pc = "save"]
    <2>1. /\ rreq[r] \in RegisterRow /\ rreq[r].phone \in Phones
          /\ rreq[r].password \in Passwords /\ rreq[r].code \in Codes
      BY <1>1 DEF AccountTypes, RegisterKnows
    <2>2. /\ row \in RegisterRow /\ row.pc = "save"
          /\ row.phone = rreq[r].phone
          /\ row.password = rreq[r].password /\ row.code = rreq[r].code
      BY <2>1 DEF RegisterRow, RegisterSteps
    <2>3. /\ rreq' = [q \in Registers |-> IF q = r THEN rreq'[r] ELSE rreq[q]]
          /\ rreq'[r] = row
      BY <1>3, <2>1 DEF AccountTypes, RegisterRow
    <2> HIDE DEF row
    <2>4. RegisterMoves(r)
      BY <1>1, <2>1, <2>2, <2>3 DEF RegisterMoves
    <2> QED
      BY <1>1, <1>3, <2>3, <2>4 DEF row
  <1> QED
    BY <1>1, <1>2, <1>3

\* What the INSERT does: a new member for a phone nobody has, or nothing.
LEMMA SaveMemberMoves ==
    ASSUME AccountTypes, NEW r \in Registers, SaveMember(r)
    PROVE  /\ RegisterMoves(r)
           /\ rreq[r].pc = "save" /\ rreq'[r].pc \in {"answered", "failed"}
           /\ \/ UNCHANGED <<members, proofs>>
              \/ /\ ~ PhoneTaken(rreq[r].phone)
                 /\ members' = Append(members, NewMemberForRegister(r))
                 /\ proofs' = Append(proofs, [code |-> rreq[r].code,
                                              readAt |-> rreq[r].readAt,
                                              readLen |-> rreq[r].readLen])
  <1>1. \E pc \in {"answered", "failed"} : RLeave(r, pc)
    BY DEF SaveMember
  <1>2. /\ UNCHANGED <<now, cache, sent, lreq, served>>
        /\ faults' = faults \/ (faults < MaxFaults /\ faults' = faults + 1)
        /\ rreq[r].pc = "save"
    BY DEF SaveMember, RRest
  <1>3. RegisterMoves(r) /\ rreq'[r].pc \in {"answered", "failed"}
    BY <1>1, <1>2, LeaveMoves DEF RegisterMoves
  <1> QED
    BY <1>2, <1>3 DEF SaveMember

\* Every step of a register request.
RegisterAction(r) ==
    \/ \E phone \in Phones, password \in Passwords, code \in Codes,
          partner \in Partners : Register(r, phone, password, code, partner)
    \/ ReadCode(r) \/ LookUpPhone(r) \/ SaveMember(r) \/ RegisterFails(r)

\* The tables after an INSERT.
LEMMA NewRows ==
    ASSUME AccountTypes, NEW r \in Registers, rreq[r].pc = "save",
           members' = Append(members, NewMemberForRegister(r)),
           proofs' = Append(proofs, [code |-> rreq[r].code,
                                     readAt |-> rreq[r].readAt,
                                     readLen |-> rreq[r].readLen])
    PROVE  /\ members' \in Seq(MemberRow) /\ proofs' \in Seq(ProofRow)
           /\ Len(members') = Len(members) + 1
           /\ Len(proofs') = Len(members')
           /\ \A i \in 1..Len(members) :
                  members'[i] = members[i] /\ proofs'[i] = proofs[i]
           /\ members'[Len(members')] = NewMemberForRegister(r)
           /\ proofs'[Len(members')] = [code |-> rreq[r].code,
                                        readAt |-> rreq[r].readAt,
                                        readLen |-> rreq[r].readLen]
  <1>0. /\ rreq[r] \in RegisterRow /\ rreq[r].phone \in Phones
        /\ rreq[r].password \in Passwords /\ rreq[r].code \in Codes
    BY DEF AccountTypes, RegisterKnows
  <1>1. FillSuperPartner(rreq[r].partner).superPartner \in {"0", "1", "2"}
        /\ FillSuperPartner(rreq[r].partner).status \in {"normal", "illegal"}
    BY <1>0, AccountConstants DEF FillSuperPartner, RegisterRow
  <1>2. NewMemberForRegister(r) \in MemberRow
    BY <1>0, <1>1 DEF NewMemberForRegister, MemberRow
  <1>3. [code |-> rreq[r].code, readAt |-> rreq[r].readAt,
         readLen |-> rreq[r].readLen] \in ProofRow
    BY <1>0 DEF ProofRow, RegisterRow
  <1>4. /\ members \in Seq(MemberRow) /\ proofs \in Seq(ProofRow)
        /\ Len(proofs) = Len(members)
    BY DEF AccountTypes, TableTypes
  <1> QED
    BY <1>2, <1>3, <1>4

\* The steps of a registration keep the types.
LEMMA RegisterTypes ==
    ASSUME AccountTypes, NEW r \in Registers, RegisterAction(r)
    PROVE  AccountTypes'
  <1>1. /\ RegisterMoves(r)
        /\ \/ UNCHANGED <<members, proofs>>
           \/ /\ rreq[r].pc = "save"
              /\ members' = Append(members, NewMemberForRegister(r))
              /\ proofs' = Append(proofs, [code |-> rreq[r].code,
                                           readAt |-> rreq[r].readAt,
                                           readLen |-> rreq[r].readLen])
    BY RegisterStepMoves, ReadCodeMoves, LookUpMoves, SaveMemberMoves
    DEF RegisterAction
  <1>2. rreq' \in [Registers -> RegisterRow] /\ RegisterKnows'
    BY <1>1 DEF AccountTypes, RegisterMoves, RegisterKnows
  <1>3. faults' \in 0..MaxFaults
    BY <1>1, AccountBounds DEF AccountTypes, TableTypes, RegisterMoves
  <1>4. /\ members' \in Seq(MemberRow) /\ proofs' \in Seq(ProofRow)
        /\ Len(proofs') = Len(members') /\ Len(members') >= Len(members)
    <2>1. Len(members) \in Nat
      BY DEF AccountTypes, TableTypes
    <2>2. CASE UNCHANGED <<members, proofs>>
      BY <2>1, <2>2 DEF AccountTypes, TableTypes
    <2>3. CASE ~ UNCHANGED <<members, proofs>>
      BY <1>1, <2>1, <2>3, NewRows
    <2> QED
      BY <2>2, <2>3
  <1>5. /\ 0..Len(members) \subseteq 0..Len(members')
        /\ 1..Len(members) \subseteq 1..Len(members')
    BY <1>4 DEF AccountTypes, TableTypes
  <1>6. TableTypes'
    BY <1>1, <1>3, <1>4, <1>5 DEF AccountTypes, TableTypes, RegisterMoves
  <1>7. lreq' \in [Logins -> LoginRow(Len(members'))]
    <2>1. LoginRow(Len(members)) \subseteq LoginRow(Len(members'))
      BY <1>5 DEF LoginRow
    <2> QED
      BY <1>1, <2>1 DEF AccountTypes, RegisterMoves
  <1>8. LoginKnows'
    BY <1>1, <1>4, <1>5 DEF AccountTypes, TableTypes, RegisterMoves, LoginKnows
  <1> QED
    BY <1>2, <1>6, <1>7, <1>8 DEF AccountTypes

-----------------------------------------------------------------------------
(* Accounts: the login requests. *)

\* One login request changes.
LoginMoves(l) ==
    /\ lreq' = [k \in Logins |-> IF k = l THEN lreq'[l] ELSE lreq[k]]
    /\ lreq'[l] \in LoginRow(Len(members))
    /\ lreq'[l].pc \in {"verify", "answered"} => lreq'[l].id \in DOMAIN members
    /\ lreq'[l].background # "none" => lreq'[l].pc = "answered"
    /\ UNCHANGED <<now, cache, sent, proofs, rreq, served>>

\* The row a login holds.
LEMMA RowInHand ==
    ASSUME AccountTypes, NEW l \in Logins
    PROVE  /\ lreq[l] \in LoginRow(Len(members))
           /\ Len(members) \in Nat /\ DOMAIN members = 1..Len(members)
           /\ \A i \in DOMAIN members : members[i] \in MemberRow
           /\ lreq[l].pc \in {"verify", "answered"} => lreq[l].id \in DOMAIN members
           /\ lreq[l].background # "none" => lreq[l].pc = "answered"
           /\ now \in 0..MaxNow
  BY DEF AccountTypes, TableTypes, LoginKnows

\* The record of a login request that read row i.
Read(i, password) ==
    [LIdle EXCEPT !.pc = "verify", !.id = i, !.password = password,
                  !.count = members[i].loginCount]

\* The row of a login that has read a member.
LEMMA ReadRow ==
    ASSUME AccountTypes, NEW i \in DOMAIN members, NEW password \in Passwords
    PROVE  /\ Read(i, password) \in LoginRow(Len(members))
           /\ Read(i, password).pc = "verify" /\ Read(i, password).id = i
           /\ Read(i, password).count = members[i].loginCount
           /\ Read(i, password).background = "none"
  <1>0. /\ Len(members) \in Nat /\ i \in 1..Len(members)
        /\ members[i].loginCount \in Nat
    <2>1. /\ members \in Seq(MemberRow) /\ Len(members) \in Nat
          /\ DOMAIN members = 1..Len(members)
      BY DEF AccountTypes, TableTypes
    <2>2. members[i] \in MemberRow
      BY <2>1
    <2> QED
      BY <2>1, <2>2 DEF MemberRow
  <1> DEFINE a == [LIdle EXCEPT !.pc = "verify"]
             b == [a EXCEPT !.id = i]
             c == [b EXCEPT !.password = password]
             d == [c EXCEPT !.count = members[i].loginCount]
  <1>1. LIdle \in LoginRow(Len(members)) /\ LIdle.background = "none"
    BY <1>0, AccountBounds
    DEF LIdle, LoginRow, LoginSteps, Backgrounds, NoMember
  <1>2. /\ a \in LoginRow(Len(members)) /\ a.background = "none"
        /\ a.pc = "verify"
    BY <1>1 DEF LoginRow, LoginSteps
  <1> HIDE DEF a
  <1>3. /\ b \in LoginRow(Len(members)) /\ b.background = "none"
        /\ b.pc = "verify" /\ b.id = i
    BY <1>0, <1>2 DEF LoginRow
  <1> HIDE DEF b
  <1>4. /\ c \in LoginRow(Len(members)) /\ c.background = "none"
        /\ c.pc = "verify" /\ c.id = i
    BY <1>3 DEF LoginRow
  <1> HIDE DEF c
  <1>5. /\ d \in LoginRow(Len(members)) /\ d.background = "none"
        /\ d.pc = "verify" /\ d.id = i /\ d.count = members[i].loginCount
    BY <1>0, <1>4 DEF LoginRow
  <1>6. d = Read(i, password)
    BY Zenon DEF a, b, c, d, Read
  <1> HIDE DEF d
  <1> QED
    BY <1>5, <1>6

\* What Login does: the count in its hand is the one it read.
LEMMA LoginStepMoves ==
    ASSUME AccountTypes, NEW l \in Logins, NEW phone \in Phones,
           NEW password \in Passwords, Login(l, phone, password)
    PROVE  /\ LoginMoves(l) /\ UNCHANGED <<members, faults>>
           /\ lreq[l].pc = "idle" /\ lreq[l].background = "none"
           /\ lreq'[l].background = "none"
           /\ lreq'[l].pc = "verify" =>
                  lreq'[l].count = members[lreq'[l].id].loginCount
  <1>1. /\ lreq[l].pc = "idle"
        /\ UNCHANGED <<now, cache, sent, proofs, rreq, served, members, faults>>
    BY DEF Login, LRest
  <1>2. \/ lreq' = [lreq EXCEPT ![l].pc = "failed"]
        \/ \E i \in FindByPhone(phone) :
               lreq' = [lreq EXCEPT ![l] = Read(i, password)]
    BY DEF Login, Read
  <1>3. lreq[l].background = "none"
    BY <1>1, RowInHand
  <1>4. CASE lreq' = [lreq EXCEPT ![l].pc = "failed"]
    <2>1. lreq[l] \in LoginRow(Len(members))
      BY RowInHand
    <2>2. /\ lreq' = [k \in Logins |-> IF k = l THEN lreq'[l] ELSE lreq[k]]
          /\ lreq'[l] = [lreq[l] EXCEPT !.pc = "failed"]
      BY <1>4, <2>1 DEF AccountTypes
    <2>3. /\ lreq'[l] \in LoginRow(Len(members)) /\ lreq'[l].pc = "failed"
          /\ lreq'[l].background = "none"
      BY <1>3, <2>1, <2>2 DEF LoginRow, LoginSteps
    <2> QED
      BY <1>1, <1>3, <2>2, <2>3 DEF LoginMoves
  <1>5. ASSUME NEW i \in FindByPhone(phone),
               lreq' = [lreq EXCEPT ![l] = Read(i, password)]
        PROVE  /\ LoginMoves(l) /\ lreq'[l].background = "none"
               /\ lreq'[l].count = members[lreq'[l].id].loginCount
    <2>1. i \in DOMAIN members
      BY DEF FindByPhone
    <2>2. /\ lreq' = [k \in Logins |-> IF k = l THEN lreq'[l] ELSE lreq[k]]
          /\ lreq'[l] = Read(i, password)
      BY <1>5 DEF AccountTypes
    <2>3. /\ lreq'[l] \in LoginRow(Len(members)) /\ lreq'[l].pc = "verify"
          /\ lreq'[l].id = i /\ lreq'[l].background = "none"
          /\ lreq'[l].count = members[i].loginCount
      BY <2>1, <2>2, ReadRow
    <2> QED
      BY <1>1, <2>1, <2>2, <2>3 DEF LoginMoves
  <1> QED
    BY <1>1, <1>2, <1>3, <1>4, <1>5

\* What the answer does: it starts the goroutine with the count in hand.
LEMMA AnswerMoves ==
    ASSUME AccountTypes, NEW l \in Logins, AnswerLogin(l)
    PROVE  /\ LoginMoves(l) /\ UNCHANGED <<members, faults>>
           /\ lreq[l].pc = "verify" /\ lreq[l].background = "none"
           /\ \/ lreq'[l].pc = "failed" /\ lreq'[l].background = "none"
              \/ /\ lreq'[l].background = "running"
                 /\ lreq'[l].id = lreq[l].id /\ lreq'[l].count = lreq[l].count
                 /\ lreq'[l].pc = "answered"
  <1>1. /\ lreq[l].pc = "verify"
        /\ UNCHANGED <<now, cache, sent, proofs, rreq, served, members, faults>>
    BY DEF AnswerLogin, LRest
  <1>2. \/ lreq' = [lreq EXCEPT ![l].pc = "answered", ![l].iat = now,
                                ![l].background = "running"]
        \/ lreq' = [lreq EXCEPT ![l] = [LIdle EXCEPT !.pc = "failed"]]
    BY DEF AnswerLogin
  <1>3. /\ lreq[l] \in LoginRow(Len(members)) /\ lreq[l].background = "none"
        /\ lreq[l].id \in DOMAIN members /\ now \in 0..MaxNow
        /\ Len(members) \in Nat
    BY <1>1, RowInHand
  <1>4. CASE lreq' = [lreq EXCEPT ![l] = [LIdle EXCEPT !.pc = "failed"]]
    <2>1. /\ [LIdle EXCEPT !.pc = "failed"] \in LoginRow(Len(members))
          /\ [LIdle EXCEPT !.pc = "failed"].pc = "failed"
          /\ [LIdle EXCEPT !.pc = "failed"].background = "none"
      BY <1>3, AccountBounds
      DEF LIdle, LoginRow, LoginSteps, Backgrounds, NoMember
    <2>2. /\ lreq' = [k \in Logins |-> IF k = l THEN lreq'[l] ELSE lreq[k]]
          /\ lreq'[l] = [LIdle EXCEPT !.pc = "failed"]
      BY <1>4 DEF AccountTypes
    <2>3. /\ lreq'[l] \in LoginRow(Len(members))
          /\ lreq'[l].pc = "failed" /\ lreq'[l].background = "none"
      BY <2>1, <2>2
    <2> QED
      BY <1>1, <1>3, <2>2, <2>3 DEF LoginMoves
  <1>5. CASE lreq' = [lreq EXCEPT ![l].pc = "answered", ![l].iat = now,
                                  ![l].background = "running"]
    <2>1. /\ lreq' = [k \in Logins |-> IF k = l THEN lreq'[l] ELSE lreq[k]]
          /\ lreq'[l] = [lreq[l] EXCEPT !.pc = "answered", !.iat = now,
                                        !.background = "running"]
      BY <1>3, <1>5 DEF AccountTypes, LoginRow
    <2>2. /\ lreq'[l] \in LoginRow(Len(members))
          /\ lreq'[l].pc = "answered" /\ lreq'[l].background = "running"
          /\ lreq'[l].id = lreq[l].id /\ lreq'[l].count = lreq[l].count
      BY <1>3, <2>1 DEF LoginRow, LoginSteps, Backgrounds
    <2> QED
      BY <1>1, <1>3, <2>1, <2>2 DEF LoginMoves
  <1> QED
    BY <1>2, <1>4, <1>5

\* The update of a finished login counts it in its member's row.
LEMMA UpdateMoves ==
    ASSUME AccountTypes, NEW l \in Logins, UpdateLoginCount(l)
    PROVE  /\ lreq[l].background = "running" /\ LoginMoves(l)
           /\ lreq'[l].id = lreq[l].id /\ lreq'[l].count = lreq[l].count
           /\ lreq'[l].pc = lreq[l].pc
           /\ \/ /\ lreq'[l].background = "done" /\ faults' = faults
                 /\ members' \in Seq(MemberRow) /\ Len(members') = Len(members)
                 /\ \A i \in DOMAIN members :
                       /\ members'[i].phone = members[i].phone
                       /\ members'[i].loginCount =
                              IF i = lreq[l].id THEN members[i].loginCount + 1
                              ELSE members[i].loginCount
              \/ /\ lreq'[l].background = "lost" /\ members' = members
                 /\ faults < MaxFaults /\ faults' = faults + 1
  <1>1. /\ lreq[l].background = "running"
        /\ UNCHANGED <<now, cache, sent, proofs, rreq, served>>
    BY DEF UpdateLoginCount, LRest
  <1> DEFINE Ends(b) ==
               /\ lreq' = [lreq EXCEPT ![l].background = b]
               /\ b = "done" => members' = CountLogin(l) /\ faults' = faults
               /\ b = "lost" => /\ members' = members /\ faults < MaxFaults
                                /\ faults' = faults + 1
  <1>2. Ends("done") \/ Ends("lost")
    BY DEF UpdateLoginCount
  <1>3. PICK b \in {"done", "lost"} : Ends(b)
    <2> HIDE DEF Ends
    <2> QED
      BY <1>2
  <1>4. /\ lreq[l] \in LoginRow(Len(members)) /\ lreq[l].pc = "answered"
        /\ lreq[l].id \in DOMAIN members
    BY <1>1, RowInHand
  <1>5. /\ lreq' = [k \in Logins |-> IF k = l THEN lreq'[l] ELSE lreq[k]]
        /\ lreq'[l] = [lreq[l] EXCEPT !.background = b]
    BY <1>3, <1>4 DEF AccountTypes, LoginRow
  <1>6. /\ lreq'[l] \in LoginRow(Len(members))
        /\ lreq'[l].id = lreq[l].id /\ lreq'[l].count = lreq[l].count
        /\ lreq'[l].pc = lreq[l].pc /\ lreq'[l].background = b
    BY <1>4, <1>5 DEF LoginRow, Backgrounds
  <1>7. LoginMoves(l)
    BY <1>1, <1>4, <1>5, <1>6 DEF LoginMoves
  <1>8. CASE b = "done"
    <2>1. members' = CountLogin(l) /\ faults' = faults
      BY <1>3, <1>8
    <2>2. /\ members \in Seq(MemberRow) /\ Len(members) \in Nat
          /\ DOMAIN members = 1..Len(members)
          /\ \A i \in DOMAIN members : members[i] \in MemberRow
      BY RowInHand DEF AccountTypes, TableTypes
    <2> DEFINE id == lreq[l].id
               row == [members[id] EXCEPT
                          !.loginCount = members[id].loginCount + 1]
    <2>0. members[id] \in MemberRow
      BY <1>4, <2>2
    <2>3. /\ row \in MemberRow /\ row.phone = members[id].phone
          /\ row.loginCount = members[id].loginCount + 1
      BY <2>0 DEF MemberRow
    <2>4. members' = [members EXCEPT ![id] = row]
      BY <1>4, <2>1, <2>2 DEF CountLogin, MemberRow
    <2> HIDE DEF row
    <2>5. members' \in Seq(MemberRow) /\ Len(members') = Len(members)
      BY <1>4, <2>2, <2>3, <2>4
    <2>6. ASSUME NEW i \in DOMAIN members
          PROVE  /\ members'[i].phone = members[i].phone
                 /\ members'[i].loginCount =
                        IF i = id THEN members[i].loginCount + 1
                        ELSE members[i].loginCount
      BY <2>2, <2>3, <2>4
    <2> QED
      BY <1>1, <1>6, <1>7, <1>8, <2>1, <2>5, <2>6
  <1>9. CASE b = "lost"
    <2>1. members' = members /\ faults < MaxFaults /\ faults' = faults + 1
      BY <1>3, <1>9
    <2> QED
      BY <1>1, <1>6, <1>7, <1>9, <2>1
  <1> QED
    BY <1>8, <1>9

\* Every step of a login request that leaves `served' alone.
LoginAction(l) ==
    \/ \E phone \in Phones, password \in Passwords : Login(l, phone, password)
    \/ AnswerLogin(l) \/ UpdateLoginCount(l)

\* The steps of a login keep the types.
LEMMA LoginTypes ==
    ASSUME AccountTypes, NEW l \in Logins, LoginAction(l)
    PROVE  AccountTypes'
  <1>1. /\ LoginMoves(l)
        /\ faults' = faults \/ (faults < MaxFaults /\ faults' = faults + 1)
        /\ \/ members' = members
           \/ members' \in Seq(MemberRow) /\ Len(members') = Len(members)
    BY LoginStepMoves, AnswerMoves, UpdateMoves DEF LoginAction
  <1>2. /\ members' \in Seq(MemberRow) /\ Len(members') = Len(members)
        /\ DOMAIN members' = DOMAIN members
    BY <1>1 DEF AccountTypes, TableTypes
  <1>3. TableTypes'
    BY <1>1, <1>2, AccountBounds DEF AccountTypes, TableTypes, LoginMoves
  <1>4. lreq' \in [Logins -> LoginRow(Len(members'))]
    <2>1. \A k \in Logins : lreq'[k] \in LoginRow(Len(members))
      BY <1>1 DEF LoginMoves, AccountTypes
    <2> QED
      BY <1>1, <1>2, <2>1 DEF LoginMoves
  <1>5. LoginKnows'
    BY <1>1, <1>2 DEF AccountTypes, LoginMoves, LoginKnows
  <1>6. rreq' \in [Registers -> RegisterRow] /\ RegisterKnows'
    BY <1>1 DEF LoginMoves, AccountTypes, RegisterKnows
  <1> QED
    BY <1>3, <1>4, <1>5, <1>6 DEF AccountTypes

-----------------------------------------------------------------------------
(* Accounts: every step keeps the types. *)

\* What SendRegisterCode does; it keeps the types.
LEMMA SendTypes ==
    ASSUME AccountTypes, NEW phone \in Phones, SendRegisterCode(phone)
    PROVE  /\ AccountTypes'
           /\ UNCHANGED <<now, members, proofs, rreq, lreq, served, faults>>
           /\ \E code \in Codes :
                /\ cache' = [cache EXCEPT ![phone] = [code |-> code,
                                                      until |-> now + CodeTTL]]
                /\ sent' = Append(sent, [phone |-> phone, code |-> code,
                                         at |-> now])
  <1>1. UNCHANGED <<now, members, proofs, rreq, lreq, served, faults>>
    BY DEF SendRegisterCode
  <1>2. PICK code \in Codes :
            /\ cache' = [cache EXCEPT ![phone] = [code |-> code,
                                                  until |-> now + CodeTTL]]
            /\ sent' = Append(sent, [phone |-> phone, code |-> code, at |-> now])
    BY DEF SendRegisterCode, CodeKey, Until
  <1>3. now \in 0..MaxNow /\ sent \in Seq(SentRow)
    BY DEF AccountTypes, TableTypes
  <1>4. [phone |-> phone, code |-> code, at |-> now] \in SentRow
    BY <1>3 DEF SentRow
  <1>5. sent' \in Seq(SentRow)
    BY <1>2, <1>3, <1>4
  <1>6. [code |-> code, until |-> now + CodeTTL]
            \in [code : Codes \cup {"none"}, until : 0..(MaxNow + CodeTTL)]
    BY <1>3, AccountBounds
  <1>7. cache' \in [Keys -> [code : Codes \cup {"none"},
                             until : 0..(MaxNow + CodeTTL)]]
    BY <1>2, <1>6 DEF AccountTypes, TableTypes
  <1>8. TableTypes'
    BY <1>1, <1>5, <1>7 DEF AccountTypes, TableTypes
  <1> QED
    BY <1>1, <1>2, <1>8 DEF AccountTypes, RegisterKnows, LoginKnows

\* What a crash does: handlers fail and goroutines are lost.
LEMMA CrashMoves ==
    ASSUME AccountTypes, Crash
    PROVE  /\ AccountTypes'
           /\ UNCHANGED <<now, cache, sent, members, proofs, served>>
           /\ faults < MaxFaults /\ faults' = faults + 1
           /\ \A r \in Registers :
                rreq'[r] = rreq[r] \/ rreq'[r].pc = "failed"
           /\ \A l \in Logins :
                \/ /\ lreq[l].pc = "verify" /\ lreq[l].background = "none"
                   /\ lreq'[l].pc = "failed" /\ lreq'[l].background = "none"
                \/ /\ lreq[l].pc # "verify"
                   /\ lreq'[l].pc = lreq[l].pc /\ lreq'[l].id = lreq[l].id
                   /\ lreq'[l].count = lreq[l].count
                   /\ lreq'[l].background = IF lreq[l].background = "running"
                                            THEN "lost" ELSE lreq[l].background
  <1>1. /\ UNCHANGED <<now, cache, sent, members, proofs, served>>
        /\ faults < MaxFaults /\ faults' = faults + 1
    BY DEF Crash
  <1>2. ASSUME NEW r \in Registers
        PROVE  /\ rreq'[r] \in RegisterRow
               /\ rreq'[r] = rreq[r] \/ rreq'[r].pc = "failed"
               /\ rreq'[r].pc \notin {"code", "phone", "save"}
    <2>1. rreq[r] \in RegisterRow
      BY DEF AccountTypes
    <2>2. rreq'[r] = IF rreq[r].pc \in {"code", "phone", "save"}
                     THEN [RIdle EXCEPT !.pc = "failed"] ELSE rreq[r]
      BY DEF Crash
    <2> QED
      BY <2>1, <2>2, RIdleRows DEF RegisterSteps
  <1>3. ASSUME NEW l \in Logins
        PROVE  /\ lreq'[l] \in LoginRow(Len(members))
               /\ \/ /\ lreq[l].pc = "verify" /\ lreq[l].background = "none"
                     /\ lreq'[l].pc = "failed" /\ lreq'[l].background = "none"
                  \/ /\ lreq[l].pc # "verify"
                     /\ lreq'[l].pc = lreq[l].pc /\ lreq'[l].id = lreq[l].id
                     /\ lreq'[l].count = lreq[l].count
                     /\ lreq'[l].background = IF lreq[l].background = "running"
                                              THEN "lost" ELSE lreq[l].background
    <2>1. /\ lreq[l] \in LoginRow(Len(members)) /\ Len(members) \in Nat
          /\ lreq[l].background # "none" => lreq[l].pc = "answered"
      BY RowInHand
    <2>2. CASE lreq[l].pc = "verify"
      <3>1. /\ [LIdle EXCEPT !.pc = "failed"] \in LoginRow(Len(members))
            /\ [LIdle EXCEPT !.pc = "failed"].pc = "failed"
            /\ [LIdle EXCEPT !.pc = "failed"].background = "none"
        BY <2>1, AccountBounds
        DEF LIdle, LoginRow, LoginSteps, Backgrounds, NoMember
      <3>2. lreq'[l] = [LIdle EXCEPT !.pc = "failed"]
        BY <2>2 DEF Crash
      <3> QED
        BY <2>1, <2>2, <3>1, <3>2
    <2>3. CASE lreq[l].pc # "verify"
      <3> DEFINE b == IF lreq[l].background = "running" THEN "lost"
                      ELSE lreq[l].background
      <3>1. lreq'[l] = [lreq[l] EXCEPT !.background = b]
        BY <2>1, <2>3 DEF Crash, LoginRow
      <3>2. b \in Backgrounds
        BY <2>1 DEF LoginRow, Backgrounds
      <3> HIDE DEF b
      <3>3. /\ lreq'[l] \in LoginRow(Len(members))
            /\ lreq'[l].pc = lreq[l].pc /\ lreq'[l].id = lreq[l].id
            /\ lreq'[l].count = lreq[l].count /\ lreq'[l].background = b
        BY <2>1, <3>1, <3>2 DEF LoginRow
      <3> QED
        BY <2>3, <3>3 DEF b
    <2> QED
      BY <2>2, <2>3
  <1>4. TableTypes'
    BY <1>1, AccountBounds DEF AccountTypes, TableTypes
  <1>5. rreq' \in [Registers -> RegisterRow] /\ RegisterKnows'
    <2>1. rreq' = [r \in Registers |-> rreq'[r]]
      BY DEF Crash
    <2> QED
      BY <1>2, <2>1 DEF RegisterKnows
  <1>6. lreq' \in [Logins -> LoginRow(Len(members'))]
    <2>1. lreq' = [l \in Logins |-> lreq'[l]]
      BY DEF Crash
    <2> QED
      BY <1>1, <1>3, <2>1
  <1>7. LoginKnows'
    BY <1>1, <1>3 DEF AccountTypes, LoginKnows
  <1> QED
    BY <1>1, <1>2, <1>3, <1>4, <1>5, <1>6, <1>7 DEF AccountTypes

\* What a request with a token does; it keeps the types.
LEMMA ServeTypes ==
    ASSUME AccountTypes, NEW l \in Logins, Serve(l)
    PROVE  /\ AccountTypes'
           /\ UNCHANGED <<now, cache, sent, members, proofs, rreq, lreq, faults>>
           /\ \E iat \in 0..MaxNow, id \in 1..Len(members) :
                /\ iat + AccessExpire > now
                /\ served' = served \cup {[userId |-> id, iat |-> iat, at |-> now]}
  <1>1. UNCHANGED <<now, cache, sent, members, proofs, rreq, lreq, faults>>
    BY DEF Serve
  <1>2. /\ lreq[l] \in LoginRow(Len(members)) /\ now \in 0..MaxNow
        /\ DOMAIN members = 1..Len(members)
    BY RowInHand
  <1>3. /\ lreq[l].iat \in 0..MaxNow /\ lreq[l].id \in 1..Len(members)
        /\ lreq[l].iat + AccessExpire > now
        /\ served' = served \cup {[userId |-> lreq[l].id, iat |-> lreq[l].iat,
                                   at |-> now]}
    BY <1>2 DEF Serve, GenerateUserToken, ParseUserID, LoginRow
  <1>4. served' \subseteq [userId : 1..Len(members), iat : 0..MaxNow,
                           at : 0..MaxNow]
    BY <1>2, <1>3 DEF AccountTypes, TableTypes
  <1>5. TableTypes'
    BY <1>1, <1>4 DEF AccountTypes, TableTypes
  <1> QED
    BY <1>1, <1>3, <1>5 DEF AccountTypes, RegisterKnows, LoginKnows

\* What the clock does; it keeps the types.
LEMMA TickTypes ==
    ASSUME AccountTypes, Tick
    PROVE  /\ AccountTypes' /\ now' = now + 1
           /\ UNCHANGED <<cache, sent, members, proofs, rreq, lreq, served, faults>>
  <1>1. /\ now < MaxNow /\ now' = now + 1
        /\ UNCHANGED <<cache, sent, members, proofs, rreq, lreq, served, faults>>
    BY DEF Tick
  <1>2. TableTypes'
    BY <1>1, AccountBounds DEF AccountTypes, TableTypes
  <1> QED
    BY <1>1, <1>2 DEF AccountTypes, RegisterKnows, LoginKnows

\* The steps of the accounts, by who takes them.
LEMMA AccountCases ==
    ASSUME AccountNext
    PROVE  \/ \E phone \in Phones : SendRegisterCode(phone)
           \/ \E r \in Registers : RegisterAction(r)
           \/ \E l \in Logins : LoginAction(l) \/ Serve(l)
           \/ Crash \/ Tick
  BY DEF AccountNext, RegisterAction, LoginAction

\* Every step keeps the types.
LEMMA AccountTypesStep ==
    ASSUME AccountTypes, AccountNext
    PROVE  AccountTypes'
  BY AccountCases, SendTypes, RegisterTypes, LoginTypes, ServeTypes, CrashMoves,
     TickTypes

-----------------------------------------------------------------------------
(* Accounts: one phone, one member. *)

SamePhones ==
    /\ Len(members') = Len(members) /\ DOMAIN members' = DOMAIN members
    /\ \A i \in DOMAIN members : members'[i].phone = members[i].phone

\* What a step does to the table: nothing to the phones, or a row for a free phone.
LEMMA MembersMove ==
    ASSUME AccountTypes, AccountNext
    PROVE  \/ SamePhones /\ proofs' = proofs
           \/ \E r \in Registers :
                /\ SaveMember(r) /\ rreq[r].pc = "save"
                /\ ~ PhoneTaken(rreq[r].phone)
                /\ members' = Append(members, NewMemberForRegister(r))
                /\ proofs' = Append(proofs, [code |-> rreq[r].code,
                                             readAt |-> rreq[r].readAt,
                                             readLen |-> rreq[r].readLen])
  <1>1. members \in Seq(MemberRow)
    BY DEF AccountTypes, TableTypes
  <1>2. CASE UNCHANGED <<members, proofs>>
    BY <1>1, <1>2 DEF SamePhones
  <1>3. ASSUME NEW r \in Registers, RegisterAction(r), ~ UNCHANGED <<members, proofs>>
        PROVE  /\ SaveMember(r) /\ rreq[r].pc = "save"
               /\ ~ PhoneTaken(rreq[r].phone)
               /\ members' = Append(members, NewMemberForRegister(r))
               /\ proofs' = Append(proofs, [code |-> rreq[r].code,
                                            readAt |-> rreq[r].readAt,
                                            readLen |-> rreq[r].readLen])
    BY <1>3, RegisterStepMoves, ReadCodeMoves, LookUpMoves, SaveMemberMoves
    DEF RegisterAction
  <1>4. ASSUME NEW l \in Logins, LoginAction(l), ~ UNCHANGED <<members, proofs>>
        PROVE  SamePhones /\ proofs' = proofs
    <2>1. UpdateLoginCount(l)
      BY <1>4, LoginStepMoves, AnswerMoves DEF LoginAction, LoginMoves
    <2>2. /\ proofs' = proofs /\ Len(members') = Len(members)
          /\ members' \in Seq(MemberRow)
          /\ \A i \in DOMAIN members : members'[i].phone = members[i].phone
      BY <1>1, <1>4, <2>1, UpdateMoves DEF LoginMoves
    <2> QED
      BY <1>1, <2>2 DEF SamePhones
  <1>5. ASSUME ~ UNCHANGED <<members, proofs>>
        PROVE  \/ \E r \in Registers : RegisterAction(r)
               \/ \E l \in Logins : LoginAction(l)
    BY <1>5, AccountCases, SendTypes, ServeTypes, CrashMoves, TickTypes
  <1> QED
    BY <1>2, <1>3, <1>4, <1>5

\* Every step keeps one member to a phone: the table refuses a second.
LEMMA OnePhoneStep ==
    ASSUME AccountTypes, AccountNext, OnePhoneOneMember
    PROVE  OnePhoneOneMember'
  <1>1. CASE SamePhones
    BY <1>1 DEF SamePhones, OnePhoneOneMember
  <1>2. ASSUME NEW r \in Registers, rreq[r].pc = "save",
               ~ PhoneTaken(rreq[r].phone),
               members' = Append(members, NewMemberForRegister(r)),
               proofs' = Append(proofs, [code |-> rreq[r].code,
                                         readAt |-> rreq[r].readAt,
                                         readLen |-> rreq[r].readLen])
        PROVE  OnePhoneOneMember'
    <2>1. /\ Len(members') = Len(members) + 1 /\ Len(members) \in Nat
          /\ DOMAIN members = 1..Len(members)
          /\ DOMAIN members' = 1..Len(members')
          /\ \A i \in 1..Len(members) : members'[i] = members[i]
          /\ members'[Len(members')] = NewMemberForRegister(r)
      BY <1>2, NewRows DEF AccountTypes, TableTypes
    <2>2. NewMemberForRegister(r).phone = rreq[r].phone
      BY DEF NewMemberForRegister
    <2>3. \A i \in DOMAIN members : members[i].phone # rreq[r].phone
      BY <1>2 DEF PhoneTaken, FindByPhone
    <2> QED
      BY <2>1, <2>2, <2>3 DEF OnePhoneOneMember
  <1> QED
    BY <1>1, <1>2, MembersMove

-----------------------------------------------------------------------------
(* Accounts: the code proves the phone. *)

\* Position k of s holds the code last sent to the phone among the first n.
LastSent(s, phone, code, k, n) ==
    /\ s[k].phone = phone /\ s[k].code = code
    /\ \A j \in (k + 1)..n : s[j].phone # phone

Proven(s, phone, code, at, n) ==
    \E k \in 1..n : LastSent(s, phone, code, k, n) /\ at - s[k].at < CodeTTL

\* What Redis holds for a phone is what was last sent to it.
CacheInv ==
    \A phone \in Phones :
        cache[phone].code # "none" =>
            \E k \in 1..Len(sent) :
                /\ LastSent(sent, phone, cache[phone].code, k, Len(sent))
                /\ cache[phone].until = sent[k].at + CodeTTL

\* A request past the reading of its code has seen it proved.
ReadInv ==
    \A r \in Registers :
        rreq[r].pc \in {"phone", "save"} =>
            /\ rreq[r].readLen <= Len(sent)
            /\ Proven(sent, rreq[r].phone, rreq[r].code, rreq[r].readAt,
                      rreq[r].readLen)

ProofInv ==
    \A i \in DOMAIN members :
        /\ proofs[i].readLen <= Len(sent)
        /\ Proven(sent, members[i].phone, proofs[i].code, proofs[i].readAt,
                  proofs[i].readLen)

CodeInv == CacheInv /\ ReadInv /\ ProofInv

\* The inductive form of the proofs gives the one the run checks.
LEMMA ProofsProve == CodeInv => CodeProvesPhone
  BY DEF CodeInv, ProofInv, Proven, LastSent, CodeProvesPhone

\* Sending more takes no proof away.
LEMMA ProvenStays ==
    ASSUME NEW s \in Seq(SentRow), NEW row \in SentRow, NEW n \in Nat, n <= Len(s),
           NEW phone, NEW code, NEW at, Proven(s, phone, code, at, n)
    PROVE  Proven(Append(s, row), phone, code, at, n)
  <1>1. \A k \in 1..n : Append(s, row)[k] = s[k]
    OBVIOUS
  <1> QED
    BY <1>1 DEF Proven, LastSent

\* A code that is sent replaces the one before, and proves nothing away.
LEMMA SendCodeInv ==
    ASSUME AccountTypes, CodeInv, NEW to \in Phones, SendRegisterCode(to)
    PROVE  CodeInv'
  <1>1. /\ UNCHANGED <<now, members, proofs, rreq, lreq, served, faults>>
        /\ \E code \in Codes :
             /\ cache' = [cache EXCEPT ![to] = [code |-> code,
                                                until |-> now + CodeTTL]]
             /\ sent' = Append(sent, [phone |-> to, code |-> code, at |-> now])
    BY SendTypes
  <1>2. PICK code \in Codes :
             /\ cache' = [cache EXCEPT ![to] = [code |-> code,
                                                until |-> now + CodeTTL]]
             /\ sent' = Append(sent, [phone |-> to, code |-> code, at |-> now])
    BY <1>1
  <1> DEFINE row == [phone |-> to, code |-> code, at |-> now]
             len == Len(sent)
  <1>3. /\ sent \in Seq(SentRow) /\ row \in SentRow /\ len \in Nat
        /\ cache \in [Keys -> [code : Codes \cup {"none"},
                               until : 0..(MaxNow + CodeTTL)]]
    BY DEF AccountTypes, TableTypes, SentRow
  <1>4. /\ Len(sent') = len + 1 /\ sent'[len + 1] = row
        /\ \A k \in 1..len : sent'[k] = sent[k]
        /\ sent' = Append(sent, row)
    BY <1>2, <1>3
  <1>5. row.phone = to /\ row.code = code /\ row.at = now
    OBVIOUS
  <1>6. /\ cache'[to].code = code /\ cache'[to].until = now + CodeTTL
        /\ \A phone \in Phones \ {to} : cache'[phone] = cache[phone]
    BY <1>2, <1>3 DEF Keys
  <1> HIDE DEF row, len
  <1>7. CacheInv'
    <2> SUFFICES ASSUME NEW phone \in Phones, cache'[phone].code # "none"
                 PROVE  \E k \in 1..Len(sent') :
                           /\ LastSent(sent', phone, cache'[phone].code, k,
                                       Len(sent'))
                           /\ cache'[phone].until = sent'[k].at + CodeTTL
      BY DEF CacheInv
    <2>1. CASE phone = to
      <3>1. /\ LastSent(sent', phone, cache'[phone].code, len + 1, Len(sent'))
            /\ cache'[phone].until = sent'[len + 1].at + CodeTTL
        <4>1. /\ sent'[len + 1].phone = to /\ sent'[len + 1].code = code
              /\ sent'[len + 1].at = now
          BY <1>4, <1>5
        <4>2. cache'[to].code = code /\ cache'[to].until = now + CodeTTL
          BY <1>6
        <4>3. (len + 2)..(len + 1) = {} /\ (len + 1) + 1 = len + 2
          BY <1>3
        <4>4. LastSent(sent', to, code, len + 1, len + 1)
          BY <4>1, <4>3 DEF LastSent
        <4>5. LastSent(sent', phone, cache'[phone].code, len + 1, Len(sent'))
          BY <2>1, <4>2, <4>4, <1>4 DEF LastSent
        <4>6. cache'[phone].until = sent'[len + 1].at + CodeTTL
          BY <2>1, <4>1, <4>2
        <4> QED
          BY <4>5, <4>6
      <3> QED
        BY <3>1, <1>3, <1>4
    <2>2. CASE phone # to
      <3>1. cache'[phone] = cache[phone]
        BY <2>2, <1>6
      <3>2. PICK k \in 1..len :
                /\ LastSent(sent, phone, cache[phone].code, k, len)
                /\ cache[phone].until = sent[k].at + CodeTTL
        BY <3>1, <2>2, <1>6 DEF CodeInv, CacheInv, len
      <3>3. /\ LastSent(sent', phone, cache'[phone].code, k, Len(sent'))
            /\ cache'[phone].until = sent'[k].at + CodeTTL
        <4>1. /\ sent'[k] = sent[k] /\ k \in 1..(len + 1)
              /\ sent[k].phone = phone /\ sent[k].code = cache[phone].code
          BY <3>2, <1>3, <1>4 DEF LastSent
        <4>2. ASSUME NEW j \in (k + 1)..(len + 1)
              PROVE  sent'[j].phone # phone
          <5>1. CASE j = len + 1
            BY <5>1, <2>2, <1>4, <1>5
          <5>2. CASE j # len + 1
            <6>1. j \in (k + 1)..len /\ j \in 1..len
              BY <5>2, <1>3, <3>2
            <6> QED
              BY <6>1, <3>2, <1>4 DEF LastSent
          <5> QED
            BY <5>1, <5>2
        <4>3. LastSent(sent', phone, cache'[phone].code, k, len + 1)
          BY <4>1, <4>2, <3>1 DEF LastSent
        <4> QED
          BY <4>1, <4>3, <3>1, <3>2, <1>4
      <3> QED
        BY <3>3, <1>3, <1>4
    <2> QED
      BY <2>1, <2>2
  <1>8. ReadInv'
    <2> SUFFICES ASSUME NEW r \in Registers, rreq[r].pc \in {"phone", "save"}
                 PROVE  /\ rreq[r].readLen <= Len(sent')
                        /\ Proven(sent', rreq[r].phone, rreq[r].code,
                                  rreq[r].readAt, rreq[r].readLen)
      BY <1>1 DEF ReadInv
    <2>1. rreq[r].readLen \in Nat
      BY DEF AccountTypes, RegisterRow
    <2>2. /\ rreq[r].readLen <= len
          /\ Proven(sent, rreq[r].phone, rreq[r].code, rreq[r].readAt,
                    rreq[r].readLen)
      BY DEF CodeInv, ReadInv, len
    <2> QED
      BY <2>1, <2>2, <1>3, <1>4, ProvenStays DEF len
  <1>9. ProofInv'
    <2> SUFFICES ASSUME NEW i \in DOMAIN members
                 PROVE  /\ proofs[i].readLen <= Len(sent')
                        /\ Proven(sent', members[i].phone, proofs[i].code,
                                  proofs[i].readAt, proofs[i].readLen)
      BY <1>1 DEF ProofInv
    <2>1. proofs[i] \in ProofRow
      BY DEF AccountTypes, TableTypes
    <2>2. proofs[i].readLen \in Nat
      BY <2>1 DEF ProofRow
    <2>3. /\ proofs[i].readLen <= len
          /\ Proven(sent, members[i].phone, proofs[i].code, proofs[i].readAt,
                    proofs[i].readLen)
      BY DEF CodeInv, ProofInv, len
    <2> QED
      BY <2>2, <2>3, <1>3, <1>4, ProvenStays DEF len
  <1> QED
    BY <1>7, <1>8, <1>9 DEF CodeInv

\* An accepted code is the one last sent to the phone, and is not too old.
LEMMA AcceptedProven ==
    ASSUME AccountTypes, CacheInv, NEW r \in Registers, rreq[r].pc = "code",
           CodeAccepted(r)
    PROVE  Proven(sent, rreq[r].phone, rreq[r].code, now, Len(sent))
  <1> DEFINE phone == rreq[r].phone
  <1>1. phone \in Phones
    BY DEF AccountTypes, RegisterKnows
  <1>2. /\ cache[phone].code # "none" /\ now < cache[phone].until
        /\ cache[phone].code = rreq[r].code
    BY DEF CodeAccepted, Present, CodeKey
  <1>3. PICK k \in 1..Len(sent) :
            /\ LastSent(sent, phone, cache[phone].code, k, Len(sent))
            /\ cache[phone].until = sent[k].at + CodeTTL
    BY <1>1, <1>2 DEF CacheInv
  <1>4. sent[k] \in SentRow /\ now \in 0..MaxNow
    BY DEF AccountTypes, TableTypes
  <1>5. now - sent[k].at < CodeTTL
    BY <1>2, <1>3, <1>4, AccountBounds DEF SentRow
  <1> QED
    BY <1>2, <1>3, <1>5 DEF Proven

\* A registration hands what its code proved on to its member.
LEMMA RegisterCodeInv ==
    ASSUME AccountTypes, CodeInv, NEW r \in Registers, RegisterAction(r)
    PROVE  CodeInv'
  <1>1. RegisterMoves(r) /\ UNCHANGED <<cache, sent>>
    BY RegisterStepMoves, ReadCodeMoves, LookUpMoves, SaveMemberMoves
    DEF RegisterAction, RegisterMoves
  <1>2. CacheInv'
    BY <1>1 DEF CodeInv, CacheInv
  <1>3. rreq'[r].pc \in {"phone", "save"} =>
            /\ rreq'[r].readLen <= Len(sent)
            /\ Proven(sent, rreq'[r].phone, rreq'[r].code, rreq'[r].readAt,
                      rreq'[r].readLen)
    <2> SUFFICES ASSUME rreq'[r].pc \in {"phone", "save"}
                 PROVE  /\ rreq'[r].readLen <= Len(sent)
                        /\ Proven(sent, rreq'[r].phone, rreq'[r].code,
                                  rreq'[r].readAt, rreq'[r].readLen)
      OBVIOUS
    <2>0. rreq[r] \in RegisterRow /\ Len(sent) \in Nat
      BY DEF AccountTypes, TableTypes
    <2>1. CASE ReadCode(r)
      <3>1. /\ CodeAccepted(r) /\ rreq[r].pc = "code"
            /\ rreq'[r] = [rreq[r] EXCEPT !.pc = "phone", !.readAt = now,
                                          !.readLen = Len(sent)]
        BY <2>1, ReadCodeMoves
      <3>2. /\ rreq'[r].phone = rreq[r].phone /\ rreq'[r].code = rreq[r].code
            /\ rreq'[r].readAt = now /\ rreq'[r].readLen = Len(sent)
        BY <2>0, <3>1 DEF RegisterRow
      <3>3. Proven(sent, rreq[r].phone, rreq[r].code, now, Len(sent))
        BY <3>1, AcceptedProven DEF CodeInv
      <3> QED
        BY <2>0, <3>2, <3>3
    <2>2. CASE LookUpPhone(r) \/ RegisterFails(r)
      <3>1. /\ rreq[r].pc = "phone"
            /\ rreq'[r] = [rreq[r] EXCEPT !.pc = "save"]
        BY <2>2, LookUpMoves
      <3>2. /\ rreq'[r].phone = rreq[r].phone /\ rreq'[r].code = rreq[r].code
            /\ rreq'[r].readAt = rreq[r].readAt
            /\ rreq'[r].readLen = rreq[r].readLen
        BY <2>0, <3>1 DEF RegisterRow
      <3> QED
        BY <3>1, <3>2 DEF CodeInv, ReadInv
    <2>3. ~ SaveMember(r)
      BY SaveMemberMoves
    <2>4. ASSUME NEW phone \in Phones, NEW password \in Passwords,
                 NEW code \in Codes, NEW partner \in Partners,
                 Register(r, phone, password, code, partner)
          PROVE  FALSE
      BY <2>4, RegisterStepMoves
    <2> QED
      BY <2>1, <2>2, <2>3, <2>4 DEF RegisterAction
  <1>4. ReadInv'
    BY <1>1, <1>3 DEF CodeInv, ReadInv, RegisterMoves
  <1>5. ProofInv'
    <2>1. CASE UNCHANGED <<members, proofs>>
      BY <1>1, <2>1 DEF CodeInv, ProofInv
    <2>2. CASE ~ UNCHANGED <<members, proofs>>
      <3>1. /\ rreq[r].pc = "save"
            /\ members' = Append(members, NewMemberForRegister(r))
            /\ proofs' = Append(proofs, [code |-> rreq[r].code,
                                         readAt |-> rreq[r].readAt,
                                         readLen |-> rreq[r].readLen])
        BY <2>2, RegisterStepMoves, ReadCodeMoves, LookUpMoves, SaveMemberMoves
        DEF RegisterAction
      <3>2. /\ Len(members') = Len(members) + 1 /\ Len(members) \in Nat
            /\ DOMAIN members = 1..Len(members)
            /\ DOMAIN members' = 1..Len(members')
            /\ \A i \in 1..Len(members) :
                   members'[i] = members[i] /\ proofs'[i] = proofs[i]
            /\ members'[Len(members')] = NewMemberForRegister(r)
            /\ proofs'[Len(members')] = [code |-> rreq[r].code,
                                         readAt |-> rreq[r].readAt,
                                         readLen |-> rreq[r].readLen]
        BY <3>1, NewRows DEF AccountTypes, TableTypes
      <3>3. NewMemberForRegister(r).phone = rreq[r].phone
        BY DEF NewMemberForRegister
      <3>4. /\ rreq[r].readLen <= Len(sent)
            /\ Proven(sent, rreq[r].phone, rreq[r].code, rreq[r].readAt,
                      rreq[r].readLen)
        BY <3>1 DEF CodeInv, ReadInv
      <3> QED
        BY <1>1, <3>2, <3>3, <3>4 DEF CodeInv, ProofInv
    <2> QED
      BY <2>1, <2>2
  <1> QED
    BY <1>2, <1>4, <1>5 DEF CodeInv

\* Every step keeps what the codes prove.
LEMMA CodeStep ==
    ASSUME AccountTypes, AccountNext, CodeInv
    PROVE  CodeInv'
  <1>1. ASSUME NEW l \in Logins, LoginAction(l) \/ Serve(l)
        PROVE  CodeInv'
    <2>1. UNCHANGED <<cache, sent, rreq, proofs>> /\ SamePhones
      <3>1. UNCHANGED <<cache, sent, rreq, proofs>>
        BY <1>1, LoginStepMoves, AnswerMoves, UpdateMoves, ServeTypes
        DEF LoginAction, LoginMoves
      <3>2. members \in Seq(MemberRow)
        BY DEF AccountTypes, TableTypes
      <3>3. \/ members' = members
            \/ /\ members' \in Seq(MemberRow) /\ Len(members') = Len(members)
               /\ \A i \in DOMAIN members : members'[i].phone = members[i].phone
        BY <1>1, LoginStepMoves, AnswerMoves, UpdateMoves, ServeTypes
        DEF LoginAction
      <3> QED
        BY <3>1, <3>2, <3>3 DEF SamePhones
    <2> QED
      BY <2>1 DEF SamePhones, CodeInv, CacheInv, ReadInv, ProofInv
  <1>2. CASE Crash
    <2>1. /\ UNCHANGED <<cache, sent, members, proofs>>
          /\ \A r \in Registers : rreq'[r] = rreq[r] \/ rreq'[r].pc = "failed"
      BY <1>2, CrashMoves
    <2> QED
      BY <2>1 DEF CodeInv, CacheInv, ReadInv, ProofInv
  <1>3. CASE Tick
    BY <1>3, TickTypes DEF CodeInv, CacheInv, ReadInv, ProofInv
  <1> QED
    BY <1>1, <1>2, <1>3, AccountCases, SendCodeInv, RegisterCodeInv

-----------------------------------------------------------------------------
(* Accounts: requests served, and logins counted. *)

\* Every step keeps tokens that have expired from being served.
LEMMA ExpiryStep ==
    ASSUME AccountTypes, AccountNext, NoRequestAfterExpiry
    PROVE  NoRequestAfterExpiry'
  <1>1. CASE UNCHANGED served
    BY <1>1 DEF NoRequestAfterExpiry
  <1>2. ASSUME NEW l \in Logins, Serve(l)
        PROVE  NoRequestAfterExpiry'
    <2>1. PICK iat \in 0..MaxNow, id \in 1..Len(members) :
              /\ iat + AccessExpire > now
              /\ served' = served \cup {[userId |-> id, iat |-> iat, at |-> now]}
      BY <1>2, ServeTypes
    <2>2. now \in Nat /\ iat \in Nat
      BY RowInHand, AccountBounds
    <2>3. now - iat < AccessExpire
      BY <2>1, <2>2, AccountBounds
    <2> QED
      BY <2>1, <2>3 DEF NoRequestAfterExpiry
  <1>3. UNCHANGED served \/ \E l \in Logins : Serve(l)
    BY AccountCases, SendTypes, RegisterStepMoves, ReadCodeMoves, LookUpMoves,
       SaveMemberMoves, LoginStepMoves, AnswerMoves, UpdateMoves, CrashMoves,
       TickTypes
    DEF RegisterAction, LoginAction, RegisterMoves, LoginMoves
  <1> QED
    BY <1>1, <1>2, <1>3

Ended == {"running", "done", "lost"}

\* Logins that left a goroutine behind are finitely many, whoever may log in; a member's
\* count is that of the goroutines that are done; and what a login has read in hand is
\* no more than the goroutines there were.
CountInv ==
    /\ IsFiniteSet({l \in Logins : lreq[l].background # "none"})
    /\ LoginsAddUp
    /\ \A l \in Logins : lreq[l].pc = "verify" =>
           lreq[l].count <= Cardinality(LoginsOf(lreq[l].id, Ended))

\* The logins of a member are finitely many.
LEMMA LoginsFinite ==
    ASSUME CountInv, NEW i, NEW B \in SUBSET Ended
    PROVE  IsFiniteSet(LoginsOf(i, B)) /\ Cardinality(LoginsOf(i, B)) \in Nat
  <1>1. LoginsOf(i, B) \subseteq {l \in Logins : lreq[l].background # "none"}
    BY DEF LoginsOf, Ended
  <1> QED
    BY <1>1, FS_Subset, FS_CardinalityType DEF CountInv

\* The logins that counted are among those whose goroutine ended.
LEMMA DoneAmongEnded ==
    ASSUME CountInv, NEW i
    PROVE  Cardinality(LoginsOf(i, {"done"})) <= Cardinality(LoginsOf(i, Ended))
  <1>1. LoginsOf(i, {"done"}) \subseteq LoginsOf(i, Ended)
    BY DEF LoginsOf, Ended
  <1> QED
    BY <1>1, LoginsFinite, FS_Subset DEF Ended

\* Nothing about the goroutines changes.
SameBackgrounds ==
    \A l \in Logins :
        /\ lreq'[l].background = lreq[l].background
        /\ lreq[l].background # "none" =>
              lreq'[l].id = lreq[l].id /\ lreq'[l].count = lreq[l].count

\* A step that changes no goroutine changes no set of logins.
LEMMA SameLogins ==
    ASSUME SameBackgrounds, NEW i, NEW B \in SUBSET Ended
    PROVE  {l \in Logins : lreq'[l].id = i /\ lreq'[l].background \in B}
             = LoginsOf(i, B)
  BY DEF SameBackgrounds, LoginsOf, Ended

\* The properties of the next state, with its sets written out.
CountNext ==
    /\ IsFiniteSet({l \in Logins : lreq'[l].background # "none"})
    /\ \A i \in DOMAIN members' :
           members'[i].loginCount =
               Cardinality({l \in Logins : /\ lreq'[l].id = i
                                           /\ lreq'[l].background \in {"done"}})
    /\ \A l \in Logins : lreq'[l].background = "lost" => faults' > 0
    /\ \A l \in Logins : \A i : lreq'[l].id = i =>
           /\ lreq'[l].background # "none" =>
                lreq'[l].count + 1 <=
                    Cardinality({k \in Logins : /\ lreq'[k].id = i
                                                /\ lreq'[k].background \in Ended})
           /\ lreq'[l].pc = "verify" =>
                lreq'[l].count <=
                    Cardinality({k \in Logins : /\ lreq'[k].id = i
                                                /\ lreq'[k].background \in Ended})

\* CountNext is CountInv of the next state, written out.
LEMMA CountNextIs == CountNext => CountInv'
  BY DEF CountNext, CountInv, LoginsAddUp, LoginsOf, ShownCount, Ended

\* A step that leaves the goroutines and the counts of the table alone.
LEMMA CountFrame ==
    ASSUME CountInv, SameBackgrounds, faults' = faults \/ faults' > 0,
           \A i \in DOMAIN members' :
               members'[i].loginCount = Cardinality(LoginsOf(i, {"done"})),
           \A l \in Logins :
               lreq'[l].pc = "verify" =>
                   lreq'[l].count <= Cardinality(LoginsOf(lreq'[l].id, Ended))
    PROVE  CountInv'
  <1>1. {l \in Logins : lreq'[l].background # "none"}
          = {l \in Logins : lreq[l].background # "none"}
    BY DEF SameBackgrounds
  <1>2. IsFiniteSet({l \in Logins : lreq'[l].background # "none"})
    BY <1>1 DEF CountInv
  <1>3. \A i : /\ {l \in Logins : /\ lreq'[l].id = i
                                  /\ lreq'[l].background \in {"done"}}
                    = LoginsOf(i, {"done"})
               /\ {l \in Logins : /\ lreq'[l].id = i
                                  /\ lreq'[l].background \in Ended}
                    = LoginsOf(i, Ended)
    <2>1. {"done"} \in SUBSET Ended /\ Ended \in SUBSET Ended
      BY DEF Ended
    <2> QED
      BY <2>1, SameLogins
  <1>4. \A l \in Logins : lreq'[l].background = "lost" => faults' > 0
    BY DEF SameBackgrounds, CountInv, LoginsAddUp
  <1>5. ASSUME NEW l \in Logins, NEW i, lreq'[l].id = i
        PROVE  /\ lreq'[l].background # "none" =>
                    lreq'[l].count + 1 <= Cardinality(LoginsOf(i, Ended))
               /\ lreq'[l].pc = "verify" =>
                    lreq'[l].count <= Cardinality(LoginsOf(i, Ended))
    BY <1>5 DEF SameBackgrounds, CountInv, LoginsAddUp, ShownCount, Ended
  <1>6. CountNext
    BY <1>2, <1>3, <1>4, <1>5 DEF CountNext
  <1> QED
    BY <1>6, CountNextIs

\* A registration starts a member without logins.
LEMMA RegisterCount ==
    ASSUME AccountTypes, CountInv, NEW r \in Registers, RegisterAction(r)
    PROVE  CountInv'
  <1>1. lreq' = lreq /\ (faults' = faults \/ faults' > 0)
    <2>1. RegisterMoves(r)
      BY RegisterStepMoves, ReadCodeMoves, LookUpMoves, SaveMemberMoves
      DEF RegisterAction
    <2> QED
      BY <2>1, AccountBounds DEF RegisterMoves, AccountTypes, TableTypes
  <1>2. SameBackgrounds
    BY <1>1 DEF SameBackgrounds
  <1>3. \A l \in Logins :
            lreq'[l].pc = "verify" =>
                lreq'[l].count <= Cardinality(LoginsOf(lreq'[l].id, Ended))
    BY <1>1 DEF CountInv
  <1>4. \A i \in DOMAIN members' :
            members'[i].loginCount = Cardinality(LoginsOf(i, {"done"}))
    <2>1. CASE UNCHANGED members
      BY <2>1 DEF CountInv, LoginsAddUp
    <2>2. CASE ~ UNCHANGED members
      <3>1. /\ rreq[r].pc = "save"
            /\ members' = Append(members, NewMemberForRegister(r))
            /\ proofs' = Append(proofs, [code |-> rreq[r].code,
                                         readAt |-> rreq[r].readAt,
                                         readLen |-> rreq[r].readLen])
        BY <2>2, RegisterStepMoves, ReadCodeMoves, LookUpMoves, SaveMemberMoves
        DEF RegisterAction
      <3> DEFINE new == Len(members) + 1
      <3>2. /\ Len(members') = new /\ Len(members) \in Nat
            /\ DOMAIN members = 1..Len(members)
            /\ DOMAIN members' = 1..Len(members')
            /\ \A i \in 1..Len(members) : members'[i] = members[i]
            /\ members'[new] = NewMemberForRegister(r)
        BY <3>1, NewRows DEF AccountTypes, TableTypes
      <3>3. LoginsOf(new, {"done"}) = {}
        <4>1. new \notin DOMAIN members
          BY <3>2
        <4>2. \A l \in Logins : lreq[l].background # "none" =>
                                    lreq[l].id \in DOMAIN members
          BY RowInHand
        <4> QED
          BY <4>1, <4>2 DEF LoginsOf
      <3>4. members'[new].loginCount = 0
        BY <3>2 DEF NewMemberForRegister
      <3>5. \A i \in DOMAIN members :
                members[i].loginCount = Cardinality(LoginsOf(i, {"done"}))
        BY DEF CountInv, LoginsAddUp
      <3>6. Cardinality(LoginsOf(new, {"done"})) = 0
        BY <3>3, FS_EmptySet
      <3>7. ASSUME NEW i \in DOMAIN members'
            PROVE  members'[i].loginCount = Cardinality(LoginsOf(i, {"done"}))
        <4>1. i = new \/ i \in DOMAIN members
          BY <3>2
        <4>2. CASE i = new
          BY <4>2, <3>4, <3>6
        <4>3. CASE i \in DOMAIN members
          BY <4>3, <3>2, <3>5
        <4> QED
          BY <4>1, <4>2, <4>3
      <3> QED
        BY <3>7
    <2> QED
      BY <2>1, <2>2
  <1> QED
    BY <1>1, <1>2, <1>3, <1>4, CountFrame

\* A login that reads a member counts nothing yet.
LEMMA LoginCount ==
    ASSUME AccountTypes, CountInv, NEW l \in Logins, NEW phone \in Phones,
           NEW password \in Passwords, Login(l, phone, password)
    PROVE  CountInv'
  <1>1. /\ LoginMoves(l) /\ UNCHANGED <<members, faults>>
        /\ lreq[l].background = "none" /\ lreq'[l].background = "none"
        /\ lreq'[l].pc = "verify" =>
               lreq'[l].count = members[lreq'[l].id].loginCount
    BY LoginStepMoves
  <1>2. SameBackgrounds
    BY <1>1 DEF SameBackgrounds, LoginMoves
  <1>3. \A i \in DOMAIN members :
            members[i].loginCount = Cardinality(LoginsOf(i, {"done"}))
    BY DEF CountInv, LoginsAddUp
  <1>4. ASSUME lreq'[l].pc = "verify"
        PROVE  lreq'[l].count <= Cardinality(LoginsOf(lreq'[l].id, Ended))
    <2>1. lreq'[l].id \in DOMAIN members
      BY <1>1, <1>4 DEF LoginMoves
    <2>2. PICK id \in DOMAIN members : id = lreq'[l].id
      BY <2>1
    <2>3. lreq'[l].count = Cardinality(LoginsOf(id, {"done"}))
      BY <1>1, <1>3, <1>4, <2>2
    <2> QED
      BY <2>2, <2>3, DoneAmongEnded
  <1>5. \A k \in Logins :
            lreq'[k].pc = "verify" =>
                lreq'[k].count <= Cardinality(LoginsOf(lreq'[k].id, Ended))
    BY <1>1, <1>4 DEF LoginMoves, CountInv
  <1> QED
    BY <1>1, <1>2, <1>3, <1>5, CountFrame

\* An answer starts one goroutine more.
LEMMA AnswerCount ==
    ASSUME AccountTypes, CountInv, NEW l \in Logins, AnswerLogin(l)
    PROVE  CountInv'
  <1>1. /\ LoginMoves(l) /\ UNCHANGED <<members, faults>>
        /\ lreq[l].pc = "verify" /\ lreq[l].background = "none"
        /\ \/ lreq'[l].pc = "failed" /\ lreq'[l].background = "none"
           \/ /\ lreq'[l].background = "running"
              /\ lreq'[l].id = lreq[l].id /\ lreq'[l].count = lreq[l].count
              /\ lreq'[l].pc = "answered"
    BY AnswerMoves
  <1>2. \A i \in DOMAIN members :
            members[i].loginCount = Cardinality(LoginsOf(i, {"done"}))
    BY DEF CountInv, LoginsAddUp
  <1>3. CASE lreq'[l].pc = "failed" /\ lreq'[l].background = "none"
    <2>1. SameBackgrounds
      BY <1>1, <1>3 DEF SameBackgrounds, LoginMoves
    <2>2. \A k \in Logins :
              lreq'[k].pc = "verify" =>
                  lreq'[k].count <= Cardinality(LoginsOf(lreq'[k].id, Ended))
      BY <1>1, <1>3 DEF LoginMoves, CountInv
    <2> QED
      BY <1>1, <1>2, <2>1, <2>2, CountFrame
  <1>4. CASE /\ lreq'[l].background = "running"
             /\ lreq'[l].id = lreq[l].id /\ lreq'[l].count = lreq[l].count
             /\ lreq'[l].pc = "answered"
    <2>0. \A k \in Logins \ {l} : lreq'[k] = lreq[k]
      BY <1>1 DEF LoginMoves
    <2>1. IsFiniteSet({k \in Logins : lreq'[k].background # "none"})
      <3>1. {k \in Logins : lreq'[k].background # "none"}
              = {k \in Logins : lreq[k].background # "none"} \cup {l}
        BY <1>4, <2>0
      <3> QED
        BY <3>1, FS_AddElement DEF CountInv
    <2>2. \A i : {k \in Logins : /\ lreq'[k].id = i
                                 /\ lreq'[k].background \in {"done"}}
                   = LoginsOf(i, {"done"})
      BY <1>1, <1>4, <2>0 DEF LoginsOf
    <2>3. \A i : i # lreq[l].id =>
              {k \in Logins : /\ lreq'[k].id = i
                              /\ lreq'[k].background \in Ended}
                = LoginsOf(i, Ended)
      BY <1>1, <1>4, <2>0 DEF LoginsOf
    <2> DEFINE all == {k \in Logins : /\ lreq'[k].id = lreq[l].id
                                      /\ lreq'[k].background \in Ended}
    <2>4. /\ Cardinality(all) = Cardinality(LoginsOf(lreq[l].id, Ended)) + 1
          /\ Cardinality(LoginsOf(lreq[l].id, Ended)) \in Nat
      <3>1. all = LoginsOf(lreq[l].id, Ended) \cup {l}
        BY <1>4, <2>0 DEF LoginsOf, Ended
      <3>2. l \notin LoginsOf(lreq[l].id, Ended)
        BY <1>1 DEF LoginsOf, Ended
      <3> HIDE DEF all
      <3> QED
        BY <3>1, <3>2, FS_AddElement, LoginsFinite
    <2> HIDE DEF all
    <2>5. \A k \in Logins : lreq[k].count \in Nat
      BY RowInHand DEF LoginRow
    <2>6. ASSUME NEW k \in Logins, NEW i, lreq'[k].id = i
          PROVE  /\ lreq'[k].background # "none" =>
                      lreq'[k].count + 1 <=
                          Cardinality({j \in Logins :
                                         /\ lreq'[j].id = i
                                         /\ lreq'[j].background \in Ended})
                 /\ lreq'[k].pc = "verify" =>
                      lreq'[k].count <=
                          Cardinality({j \in Logins :
                                         /\ lreq'[j].id = i
                                         /\ lreq'[j].background \in Ended})
      <3>1. CASE k = l
        <4>1. lreq[l].count <= Cardinality(LoginsOf(lreq[l].id, Ended))
          BY <1>1 DEF CountInv
        <4>2. lreq'[l].count + 1 <= Cardinality(all)
          BY <1>4, <2>4, <2>5, <4>1
        <4> QED
          BY <1>4, <2>6, <3>1, <4>2 DEF all
      <3>2. CASE k # l
        <4>1. lreq'[k] = lreq[k]
          BY <2>0, <3>2
        <4>2. /\ lreq[k].background # "none" =>
                   lreq[k].count + 1 <= Cardinality(LoginsOf(i, Ended))
              /\ lreq[k].pc = "verify" =>
                   lreq[k].count <= Cardinality(LoginsOf(i, Ended))
          BY <2>6, <4>1 DEF CountInv, LoginsAddUp, ShownCount, Ended
        <4>3. CASE i # lreq[l].id
          BY <4>1, <4>2, <4>3, <2>3
        <4>4. CASE i = lreq[l].id
          BY <4>1, <4>2, <4>4, <2>4, <2>5 DEF all
        <4> QED
          BY <4>3, <4>4
      <3> QED
        BY <3>1, <3>2
    <2>7. \A k \in Logins : lreq'[k].background = "lost" => faults' > 0
      BY <1>1, <1>4, <2>0 DEF CountInv, LoginsAddUp
    <2>8. CountNext
      BY <1>1, <1>2, <2>1, <2>2, <2>6, <2>7 DEF CountNext
    <2> QED
      BY <2>8, CountNextIs
  <1> QED
    BY <1>1, <1>3, <1>4

\* A goroutine that was running is done, or lost to a fault.
LEMMA UpdateCount ==
    ASSUME AccountTypes, CountInv, NEW l \in Logins, UpdateLoginCount(l)
    PROVE  CountInv'
  <1>1. /\ LoginMoves(l) /\ lreq[l].background = "running"
        /\ lreq'[l].background \in {"done", "lost"}
        /\ lreq'[l].id = lreq[l].id /\ lreq'[l].count = lreq[l].count
        /\ lreq'[l].pc = lreq[l].pc
    BY UpdateMoves
  <1>2. \A k \in Logins \ {l} : lreq'[k] = lreq[k]
    BY <1>1 DEF LoginMoves
  <1>3. {k \in Logins : lreq'[k].background # "none"}
          = {k \in Logins : lreq[k].background # "none"}
    BY <1>1, <1>2
  <1>4. \A i : {k \in Logins : /\ lreq'[k].id = i
                               /\ lreq'[k].background \in Ended}
                 = LoginsOf(i, Ended)
    BY <1>1, <1>2 DEF LoginsOf, Ended
  <1>5. \A k \in Logins : \A i : lreq'[k].id = i =>
            /\ lreq'[k].background # "none" =>
                 lreq'[k].count + 1 <= Cardinality(LoginsOf(i, Ended))
            /\ lreq'[k].pc = "verify" =>
                 lreq'[k].count <= Cardinality(LoginsOf(i, Ended))
    BY <1>1, <1>2 DEF CountInv, LoginsAddUp, ShownCount, Ended
  <1>6. /\ \A k \in Logins : lreq'[k].background = "lost" => faults' > 0
        /\ \A i \in DOMAIN members' :
             members'[i].loginCount =
                 Cardinality({k \in Logins : /\ lreq'[k].id = i
                                             /\ lreq'[k].background \in {"done"}})
    <2>0. /\ \A k \in Logins : lreq[k].background = "lost" => faults > 0
          /\ \A i \in DOMAIN members :
                members[i].loginCount = Cardinality(LoginsOf(i, {"done"}))
      BY DEF CountInv, LoginsAddUp
    <2>1. CASE /\ lreq'[l].background = "lost" /\ members' = members
               /\ faults' = faults + 1
      <3>1. \A i : {k \in Logins : /\ lreq'[k].id = i
                                   /\ lreq'[k].background \in {"done"}}
                     = LoginsOf(i, {"done"})
        BY <1>1, <1>2, <2>1 DEF LoginsOf
      <3>2. faults' > 0
        BY <2>1, AccountBounds DEF AccountTypes, TableTypes
      <3> QED
        BY <2>0, <2>1, <3>1, <3>2
    <2>2. CASE /\ lreq'[l].background = "done" /\ faults' = faults
               /\ members' \in Seq(MemberRow) /\ Len(members') = Len(members)
               /\ \A i \in DOMAIN members :
                    /\ members'[i].phone = members[i].phone
                    /\ members'[i].loginCount =
                           IF i = lreq[l].id THEN members[i].loginCount + 1
                           ELSE members[i].loginCount
      <3>1. DOMAIN members' = DOMAIN members
        BY <2>2 DEF AccountTypes, TableTypes
      <3>2. ASSUME NEW i \in DOMAIN members, i # lreq[l].id
            PROVE  members'[i].loginCount =
                       Cardinality({k \in Logins :
                                      /\ lreq'[k].id = i
                                      /\ lreq'[k].background \in {"done"}})
        <4>1. {k \in Logins : /\ lreq'[k].id = i
                              /\ lreq'[k].background \in {"done"}}
                = LoginsOf(i, {"done"})
          BY <1>1, <1>2, <3>2 DEF LoginsOf
        <4> QED
          BY <2>0, <2>2, <3>2, <4>1
      <3>3. ASSUME NEW i \in DOMAIN members, i = lreq[l].id
            PROVE  members'[i].loginCount =
                       Cardinality({k \in Logins :
                                      /\ lreq'[k].id = i
                                      /\ lreq'[k].background \in {"done"}})
        <4>1. {k \in Logins : /\ lreq'[k].id = i
                              /\ lreq'[k].background \in {"done"}}
                = LoginsOf(i, {"done"}) \cup {l}
          BY <1>1, <1>2, <2>2, <3>3 DEF LoginsOf
        <4>2. l \notin LoginsOf(i, {"done"})
          BY <1>1 DEF LoginsOf
        <4>3. IsFiniteSet(LoginsOf(i, {"done"}))
          BY LoginsFinite DEF Ended
        <4>4. members[i].loginCount + 1
                = Cardinality(LoginsOf(i, {"done"}) \cup {l})
          BY <2>0, <4>2, <4>3, FS_AddElement
        <4> QED
          BY <2>2, <3>3, <4>1, <4>4
      <3>4. \A k \in Logins : lreq'[k].background = "lost" => faults' > 0
        BY <1>2, <2>0, <2>2
      <3> QED
        BY <3>1, <3>2, <3>3, <3>4
    <2> QED
      BY <2>1, <2>2, UpdateMoves
  <1>7. CountNext
    BY <1>3, <1>4, <1>5, <1>6 DEF CountNext, CountInv
  <1> QED
    BY <1>7, CountNextIs

\* A crash turns goroutines that run into lost ones: none is counted twice.
LEMMA CrashCount ==
    ASSUME AccountTypes, CountInv, Crash
    PROVE  CountInv'
  <1>1. /\ members' = members /\ faults' > 0
        /\ \A l \in Logins :
             \/ /\ lreq[l].pc = "verify" /\ lreq[l].background = "none"
                /\ lreq'[l].pc = "failed" /\ lreq'[l].background = "none"
             \/ /\ lreq[l].pc # "verify"
                /\ lreq'[l].pc = lreq[l].pc /\ lreq'[l].id = lreq[l].id
                /\ lreq'[l].count = lreq[l].count
                /\ lreq'[l].background = IF lreq[l].background = "running"
                                         THEN "lost" ELSE lreq[l].background
    BY CrashMoves, AccountBounds DEF AccountTypes, TableTypes
  <1>2. {k \in Logins : lreq'[k].background # "none"}
          = {k \in Logins : lreq[k].background # "none"}
    BY <1>1
  <1>3. \A i : {k \in Logins : /\ lreq'[k].id = i
                               /\ lreq'[k].background \in {"done"}}
                 = LoginsOf(i, {"done"})
    BY <1>1 DEF LoginsOf
  <1>4. \A i : {k \in Logins : /\ lreq'[k].id = i
                               /\ lreq'[k].background \in Ended}
                 = LoginsOf(i, Ended)
    BY <1>1 DEF LoginsOf, Ended
  <1>5. \A k \in Logins : \A i : lreq'[k].id = i =>
            /\ lreq'[k].background # "none" =>
                 lreq'[k].count + 1 <= Cardinality(LoginsOf(i, Ended))
            /\ lreq'[k].pc = "verify" =>
                 lreq'[k].count <= Cardinality(LoginsOf(i, Ended))
    BY <1>1 DEF CountInv, LoginsAddUp, ShownCount, Ended
  <1>6. /\ IsFiniteSet({k \in Logins : lreq'[k].background # "none"})
        /\ \A i \in DOMAIN members :
               members[i].loginCount = Cardinality(LoginsOf(i, {"done"}))
    BY <1>2 DEF CountInv, LoginsAddUp
  <1>7. \A i \in DOMAIN members' :
            members'[i].loginCount =
                Cardinality({k \in Logins : /\ lreq'[k].id = i
                                            /\ lreq'[k].background \in {"done"}})
    BY <1>1, <1>3, <1>6
  <1>8. ASSUME NEW k \in Logins, NEW i, lreq'[k].id = i
        PROVE  /\ lreq'[k].background # "none" =>
                    lreq'[k].count + 1 <=
                        Cardinality({j \in Logins :
                                       /\ lreq'[j].id = i
                                       /\ lreq'[j].background \in Ended})
               /\ lreq'[k].pc = "verify" =>
                    lreq'[k].count <=
                        Cardinality({j \in Logins :
                                       /\ lreq'[j].id = i
                                       /\ lreq'[j].background \in Ended})
    BY <1>4, <1>5, <1>8
  <1>9. \A l \in Logins : lreq'[l].background = "lost" => faults' > 0
    BY <1>1
  <1>10. CountNext
    BY <1>6, <1>7, <1>8, <1>9 DEF CountNext
  <1> QED
    BY <1>10, CountNextIs

\* Every step keeps the counts.
LEMMA CountStep ==
    ASSUME AccountTypes, AccountNext, CountInv
    PROVE  CountInv'
  <1>1. CASE UNCHANGED <<members, lreq, faults>>
    BY <1>1 DEF CountInv, LoginsAddUp, LoginsOf, ShownCount
  <1>2. UNCHANGED <<members, lreq, faults>>
            \/ (\E r \in Registers : RegisterAction(r))
            \/ (\E l \in Logins : LoginAction(l)) \/ Crash
    BY AccountCases, SendTypes, ServeTypes, TickTypes
  <1> QED
    BY <1>1, <1>2, RegisterCount, LoginCount, AnswerCount, UpdateCount, CrashCount
    DEF LoginAction

-----------------------------------------------------------------------------
(* Accounts: the inductive invariant, and what it gives every behaviour. *)

AccountsInv ==
    AccountTypes /\ OnePhoneOneMember /\ CodeInv /\ NoRequestAfterExpiry /\ CountInv

\* The invariant of the accounts holds at the start.
LEMMA AccountsInit == AccountInit => AccountsInv
  <1> SUFFICES ASSUME AccountInit PROVE AccountsInv
    OBVIOUS
  <1>1. /\ members = <<>> /\ served = {} /\ cache = [k \in Keys |-> NoCode]
        /\ DOMAIN members = {}
        /\ \A l \in Logins : lreq[l] = LIdle
        /\ \A r \in Registers : rreq[r] = RIdle
    BY DEF AccountInit
  <1>2. LIdle.background = "none" /\ LIdle.pc = "idle" /\ RIdle.pc = "idle"
    BY DEF LIdle, RIdle
  <1>3. OnePhoneOneMember /\ NoRequestAfterExpiry
    BY <1>1 DEF OnePhoneOneMember, NoRequestAfterExpiry
  <1>4. CodeInv
    BY <1>1, <1>2 DEF CodeInv, CacheInv, ReadInv, ProofInv, NoCode, Keys
  <1>5. CountInv
    <2>1. {l \in Logins : lreq[l].background # "none"} = {}
      BY <1>1, <1>2
    <2> QED
      BY <1>1, <1>2, <2>1, FS_EmptySet DEF CountInv, LoginsAddUp
  <1> QED
    BY <1>3, <1>4, <1>5, AccountTypesInit DEF AccountsInv

\* Every step keeps the invariant of the accounts.
LEMMA AccountsStep ==
    ASSUME AccountsInv, [Next]_vars
    PROVE  AccountsInv'
  <1>1. CASE UNCHANGED accountVars
    BY <1>1
    DEF accountVars, AccountsInv, AccountTypes, TableTypes, RegisterKnows,
        LoginKnows, OnePhoneOneMember, CodeInv, CacheInv, ReadInv, ProofInv,
        NoRequestAfterExpiry, CountInv, LoginsAddUp, LoginsOf, ShownCount
  <1>2. CASE AccountNext
    BY <1>2, AccountTypesStep, OnePhoneStep, CodeStep, ExpiryStep, CountStep
    DEF AccountsInv
  <1> QED
    BY <1>1, <1>2 DEF Next, vars, accountVars

\* The invariant of the accounts always holds.
LEMMA AccountsAlways == Spec => []AccountsInv
  <1>1. Init => AccountsInv
    BY AccountsInit DEF Init
  <1> QED
    BY <1>1, AccountsStep, PTL DEF Spec

\* A phone is registered once: of two registrations that both found it free, the
\* unique key lets one insert its row.
THEOREM OneMemberPerPhone == Spec => []OnePhoneOneMember
  BY AccountsAlways, PTL DEF AccountsInv

\* Whoever is registered under a phone gave the code last sent to it, read before it
\* expired; whoever is served shows a token that has not expired.
THEOREM IdentityIsProved == Spec => []AccountInv
  <1>1. AccountsInv => AccountInv
    BY AccountTypesAreTypes, ProofsProve DEF AccountsInv, AccountInv
  <1> QED
    BY <1>1, AccountsAlways, PTL

\* Each login is counted once, or its update was lost to a fault, and the count shown
\* is never more than the logins there were.
THEOREM LoginsAreCounted == Spec => []LoginsAddUp
  <1>1. AccountsInv => LoginsAddUp
    BY DEF AccountsInv, CountInv
  <1> QED
    BY <1>1, AccountsAlways, PTL

-----------------------------------------------------------------------------
(* Histories: days, pages and places in an order. *)

\* Division with rest.
LEMMA DivisionFacts ==
    ASSUME NEW x \in Int, NEW D \in Nat \ {0}
    PROVE  /\ x \div D \in Int /\ x % D \in 0..(D - 1)
           /\ x = (D * (x \div D)) + (x % D)
  <1>1. x \div D \in Int
    OBVIOUS
  <1>2. x % D \in 0..(D - 1)
    OBVIOUS
  <1>3. x = (D * (x \div D)) + (x % D)
    OBVIOUS
  <1> QED
    BY <1>1, <1>2, <1>3

\* The day of a moment, compared with a day: its first and its last moment.
LEMMA DayBounds ==
    ASSUME NEW x \in Int, NEW d \in Int, NEW D \in Nat \ {0}
    PROVE  /\ x \div D >= d <=> x >= d * D
           /\ x \div D <= d <=> x <= (d * D) + (D - 1)
  <1> DEFINE q == x \div D
             m == x % D
  <1>1. q \in Int /\ m \in 0..(D - 1) /\ x = (D * q) + m
    BY DivisionFacts
  <1> HIDE DEF q, m
  <1>2. ASSUME q >= d PROVE x >= d * D
    BY <1>1, <1>2
  <1>3. ASSUME q < d PROVE x < d * D
    <2>1. d - q >= 1 /\ d - q \in Int
      BY <1>1, <1>3
    <2>2. (d - q) * D >= D
      BY <2>1
    <2>3. d * D = (q * D) + ((d - q) * D)
      BY <2>1, <1>1
    <2> QED
      BY <1>1, <2>2, <2>3
  <1>4. ASSUME q <= d PROVE x <= (d * D) + (D - 1)
    BY <1>1, <1>4
  <1>5. ASSUME q > d PROVE x > (d * D) + (D - 1)
    BY <1>1, <1>5
  <1> QED
    BY <1>1, <1>2, <1>3, <1>4, <1>5 DEF q

\* The pages announced for a total hold the total.
LEMMA LastPageHoldsTotal ==
    ASSUME NEW size \in Nat \ {0}, NEW total \in Nat, NEW p \in Nat,
           ~ (p < TotalPages(size, total))
    PROVE  total <= p * size
  <1>1. (total + size - 1) \div size <= p
    <2>1. (total + size - 1) \div size \in Int
      BY DivisionFacts
    <2> QED
      BY <2>1 DEF TotalPages
  <1>2. total + size - 1 <= (p * size) + (size - 1)
    BY <1>1, DayBounds
  <1> QED
    BY <1>2

\* What stands at the places from a to m.
Placed(o, a, m) == {o[k] : k \in a..m}

Distinct(o, n) == \A i, j \in 1..n : i # j => o[i] # o[j]

\* A finite sequence without repetition has as many elements as places.
LEMMA ImageCardinality ==
    ASSUME NEW n \in Nat, NEW S, NEW o \in [1..n -> S], Distinct(o, n),
           NEW a \in Nat \ {0}, NEW m \in Nat, m <= n
    PROVE  /\ IsFiniteSet(Placed(o, a, m))
           /\ Cardinality(Placed(o, a, m)) = IF a > m THEN 0 ELSE m - a + 1
  <1> DEFINE T == {o[k] : k \in a..m}
             f == [k \in a..m |-> o[k]]
  <1>1. \A k \in a..m : k \in 1..n
    OBVIOUS
  <1>2. f \in [a..m -> T] /\ \A t \in T : \E k \in a..m : f[k] = t
    OBVIOUS
  <1>3. \A i, j \in a..m : f[i] = f[j] => i = j
    BY <1>1 DEF Distinct
  <1>4. f \in Surjection(a..m, T) /\ f \in Injection(a..m, T)
    BY <1>2, <1>3, Fun_IsInj, Fun_IsSurj
  <1>5. /\ IsFiniteSet(a..m)
        /\ Cardinality(a..m) = IF a > m THEN 0 ELSE m - a + 1
    BY FS_Interval
  <1> HIDE DEF f, T
  <1>6. IsFiniteSet(T) /\ Cardinality(T) = Cardinality(a..m)
    BY <1>4, <1>5, FS_Surjection
  <1> QED
    BY <1>5, <1>6 DEF T, Placed

\* The first m places of an order without repetitions hold m elements.
LEMMA FirstPlaces ==
    ASSUME NEW n \in Nat, NEW S, NEW o \in [1..n -> S], Distinct(o, n),
           NEW m \in 0..n
    PROVE  IsFiniteSet(Placed(o, 1, m)) /\ Cardinality(Placed(o, 1, m)) = m
  <1>1. m \in Nat /\ m <= n /\ 1 \in Nat \ {0}
    OBVIOUS
  <1>2. /\ IsFiniteSet(Placed(o, 1, m))
        /\ Cardinality(Placed(o, 1, m)) = IF 1 > m THEN 0 ELSE m - 1 + 1
    BY <1>1, ImageCardinality
  <1> QED
    BY <1>2

\* And the places after them hold the others.
LEMMA LastPlaces ==
    ASSUME NEW n \in Nat, NEW S, NEW o \in [1..n -> S], Distinct(o, n),
           NEW m \in 0..n
    PROVE  /\ IsFiniteSet(Placed(o, m + 1, n))
           /\ Cardinality(Placed(o, m + 1, n)) = n - m
  <1>1. m + 1 \in Nat \ {0} /\ n <= n
    OBVIOUS
  <1>2. /\ IsFiniteSet(Placed(o, m + 1, n))
        /\ Cardinality(Placed(o, m + 1, n))
              = IF m + 1 > n THEN 0 ELSE n - (m + 1) + 1
    BY <1>1, ImageCardinality
  <1> QED
    BY <1>2

-----------------------------------------------------------------------------
(* Histories: the rows a filter asks for, their order and their pages. *)

\* The rows of rs that a filter selects, those not older than row i, and whether no
\* other has its time: Where, and what the properties say, of any table.
Fits(row, filter) ==
    /\ row.memberId = filter.memberId
    /\ filter.type # NotGiven => ToString(row.type) = filter.type
    /\ filter.start # <<>> /\ filter.end # <<>> =>
         /\ row.createTime >= ParseBoundaryMillis(filter.start, FALSE)
         /\ row.createTime <= ParseBoundaryMillis(filter.end, TRUE)
    /\ filter.symbol # NotGiven => row.symbol = filter.symbol

Hits(rs, filter) == {i \in DOMAIN rs : Fits(rs[i], filter)}

Newer(rs, i, ids) == {j \in ids : rs[j].createTime >= rs[i].createTime}

Lone(rs, i, ids) == \A j \in ids : rs[j].createTime = rs[i].createTime => j = i

\* The rows a walk over rs may still have to show.
Unseen(rs, w) ==
    {i \in 1..w.before : /\ i \in Hits(rs, w.filter)
                         /\ Lone(rs, i, Hits(rs, w.filter))
                         /\ i \notin w.seen}

\* The WHERE clause, as a set that depends on the table alone.
LEMMA WhereHits == \A filter : Where(filter) = Hits(rows, filter)
  BY DEF Where, Hits, Fits

RowOf(kind, t) ==
    [memberId |-> kind.memberId, symbol |-> kind.symbol, type |-> kind.type,
     createTime |-> t]

RowSet == {RowOf(kind, t) : kind \in Kinds, t \in 0..MaxTime}

WalkRow ==
    [pc : {"idle", "count", "list", "done", "failed"}, filter : Filters \cup {NoFilter},
     size : Nat, page : Nat, total : Nat, seen : SUBSET Nat, before : Nat, late : Int]

\* A recorded row has its time and the fields of its kind.
LEMMA RowFacts ==
    ASSUME NEW kind \in Kinds, NEW t
    PROVE  /\ RowOf(kind, t).createTime = t
           /\ \A f \in DOMAIN kind : RowOf(kind, t)[f] = kind[f]
  <1>1. kind = [memberId |-> kind.memberId, symbol |-> kind.symbol,
                type |-> kind.type]
    BY HistoryConstants
  <1>2. DOMAIN kind = {"memberId", "symbol", "type"}
    BY <1>1
  <1> QED
    BY <1>2 DEF RowOf

Descending(rs, o, n) ==
    \A i, j \in 1..n : i < j => rs[o[i]].createTime >= rs[o[j]].createTime

Dated(rs, ids) == \A j \in ids : rs[j].createTime \in Nat

\* An order shows a lone row at the place its age gives it.
LEMMA PlaceOfLone ==
    ASSUME NEW rs, NEW ids, IsFiniteSet(ids),
           NEW n \in Nat, n = Cardinality(ids),
           Dated(rs, ids), NEW o \in [1..n -> ids], Distinct(o, n),
           Descending(rs, o, n),
           NEW i \in ids, Lone(rs, i, ids)
    PROVE  \E k \in 1..n : o[k] = i /\ Cardinality(Newer(rs, i, ids)) = k
  <1>0. n \in 0..n
    OBVIOUS
  <1>1. \A x \in ids : \E k \in 1..n : o[k] = x
    <2>1. IsFiniteSet(Placed(o, 1, n)) /\ Cardinality(Placed(o, 1, n)) = n
      BY <1>0, FirstPlaces
    <2>2. Placed(o, 1, n) \in SUBSET ids
      BY DEF Placed
    <2>3. Placed(o, 1, n) = ids
      BY <2>1, <2>2, FS_Subset
    <2> QED
      BY <2>3 DEF Placed
  <1>2. PICK k \in 1..n : o[k] = i
    BY <1>1
  <1>3. Newer(rs, i, ids) = Placed(o, 1, k)
    <2>1. ASSUME NEW j \in 1..k
          PROVE  o[j] \in Newer(rs, i, ids)
      <3>1. j \in 1..n /\ o[j] \in ids
        OBVIOUS
      <3>2. rs[o[j]].createTime >= rs[o[k]].createTime
        BY <3>1 DEF Descending, Dated
      <3> QED
        BY <1>2, <3>1, <3>2 DEF Newer
    <2>2. ASSUME NEW x \in Newer(rs, i, ids)
          PROVE  \E j \in 1..k : o[j] = x
      <3>1. x \in ids /\ rs[x].createTime >= rs[i].createTime
        BY DEF Newer
      <3>2. PICK j \in 1..n : o[j] = x
        BY <1>1, <3>1
      <3>3. CASE j > k
        <4>1. rs[o[k]].createTime >= rs[o[j]].createTime
          BY <3>3 DEF Descending
        <4>2. x = i
          BY <1>2, <3>1, <3>2, <4>1 DEF Lone, Dated
        <4> QED
          BY <1>2, <3>2, <3>3, <4>2
      <3> QED
        BY <3>2, <3>3
    <2> QED
      BY <2>1, <2>2 DEF Placed
  <1>4. Cardinality(Placed(o, 1, k)) = k
    <2>1. k \in 0..n
      OBVIOUS
    <2> QED
      BY <2>1, FirstPlaces
  <1> QED
    BY <1>2, <1>3, <1>4

\* What a page of an order shows.
Shown(o, p, size) == {PageOf(o, p, size)[i] : i \in DOMAIN PageOf(o, p, size)}

\* A page shows the places from its offset to its limit.
LEMMA PageShows ==
    ASSUME NEW n \in Nat, NEW S, NEW o \in [1..n -> S],
           NEW p \in Nat \ {0}, NEW size \in Nat \ {0}
    PROVE  /\ Shown(o, p, size) \subseteq S
           /\ \A k \in 1..n : k > (p - 1) * size /\ k <= p * size =>
                                  o[k] \in Shown(o, p, size)
  <1> DEFINE off == (p - 1) * size
             m == IF off + size <= n THEN off + size ELSE n
  <1>1. off \in Nat /\ p * size = off + size
    OBVIOUS
  <1>2. o \in Seq(S) /\ Len(o) = n
    OBVIOUS
  <1>3. PageOf(o, p, size) = SubSeq(o, off + 1, Min({off + size, n}))
    <2>1. ~ (off < 0 \/ size < 0)
      BY <1>1
    <2> QED
      BY <1>2, <2>1, Zenon DEF PageOf
  <1> HIDE DEF off
  <1>4. Min({off + size, n}) = m
    BY <1>1 DEF Min
  <1>5. m \in Nat /\ m <= n /\ off + 1 \in Nat \ {0}
    BY <1>1
  <1> HIDE DEF m
  <1> DEFINE page == SubSeq(o, off + 1, m)
  <1>6. /\ DOMAIN page = 1..(m - (off + 1) + 1)
        /\ \A k \in 1..(m - (off + 1) + 1) : page[k] = o[k + (off + 1) - 1]
    BY <1>1, <1>5
  <1>7. PageOf(o, p, size) = page
    BY <1>3, <1>4
  <1> HIDE DEF page
  <1>8. \A i \in DOMAIN page : page[i] \in S
    <2>1. ASSUME NEW i \in DOMAIN page
          PROVE  i + (off + 1) - 1 \in 1..n
      BY <1>1, <1>5, <1>6
    <2> QED
      BY <2>1, <1>6
  <1>9. ASSUME NEW k \in 1..n, k > off, k <= off + size
        PROVE  \E i \in DOMAIN page : page[i] = o[k]
    <2>1. k <= m
      BY <1>9, <1>1 DEF m
    <2>2. k - off \in 1..(m - (off + 1) + 1) /\ (k - off) + (off + 1) - 1 = k
      BY <2>1, <1>9, <1>1, <1>5
    <2> QED
      BY <2>2, <1>6
  <1>10. \A k \in 1..n : k > off /\ k <= p * size =>
                             \E i \in DOMAIN page : page[i] = o[k]
    BY <1>1, <1>9
  <1> QED
    BY <1>7, <1>8, <1>10 DEF Shown, off

-----------------------------------------------------------------------------
(* Histories: the invariant of a walk. *)

HistoryTypes ==
    /\ rows \in Seq(RowSet) /\ Len(rows) <= MaxRows
    /\ \A i \in DOMAIN rows : rows[i].createTime \in 0..time
    /\ time \in 0..MaxTime
    /\ walk \in WalkRow
    /\ walk.before <= Len(rows)
    /\ walk.pc \in {"count", "list", "done"} =>
           walk.filter \in Filters /\ walk.size > 0 /\ walk.page > 0

WalkInv ==
    /\ walk.seen \subseteq Hits(rows, walk.filter)
    /\ walk.pc \in {"count", "list"} =>
           \A i \in Unseen(rows, walk) :
               Cardinality(Newer(rows, i, Hits(rows, walk.filter)))
                   > (walk.page - 1) * walk.size
    /\ walk.pc = "list" => walk.total <= Cardinality(Hits(rows, walk.filter))
    /\ walk.pc = "done" => Cardinality(Unseen(rows, walk)) <= walk.late
    /\ walk.late \in 0..MaxRows

HistoryIInv == HistoryTypes /\ WalkInv

\* The assumptions on the constants, as facts.
LEMMA HistoryBounds ==
    /\ DayLength \in Nat \ {0} /\ DefaultSize \in Nat \ {0}
    /\ MaxTime \in Nat /\ MaxRows \in Nat /\ Sizes \subseteq Int
  BY HistoryConstants

\* What the rows of a table are.
LEMMA RowsTyped ==
    ASSUME NEW rs \in Seq(RowSet)
    PROVE  /\ DOMAIN rs = 1..Len(rs) /\ Len(rs) \in Nat
           /\ \A i \in DOMAIN rs :
                /\ rs[i].createTime \in Nat
                /\ \E kind \in Kinds : \A f \in DOMAIN kind : rs[i][f] = kind[f]
  <1>1. DOMAIN rs = 1..Len(rs) /\ Len(rs) \in Nat
        /\ \A i \in DOMAIN rs : rs[i] \in RowSet
    OBVIOUS
  <1>2. ASSUME NEW i \in DOMAIN rs
        PROVE  /\ rs[i].createTime \in Nat
               /\ \E kind \in Kinds : \A f \in DOMAIN kind : rs[i][f] = kind[f]
    <2>1. PICK kind \in Kinds, t \in 0..MaxTime : rs[i] = RowOf(kind, t)
      BY <1>1 DEF RowSet
    <2>2. rs[i].createTime = t /\ \A f \in DOMAIN kind : rs[i][f] = kind[f]
      BY <2>1, RowFacts
    <2> QED
      BY <2>2, HistoryBounds
  <1> QED
    BY <1>1, <1>2

\* The rows that match are finitely many.
LEMMA HitsFinite ==
    ASSUME NEW rs \in Seq(RowSet), NEW filter
    PROVE  /\ IsFiniteSet(Hits(rs, filter)) /\ Hits(rs, filter) \subseteq DOMAIN rs
           /\ Cardinality(Hits(rs, filter)) \in 0..Len(rs)
           /\ Dated(rs, Hits(rs, filter))
           /\ \A i : /\ IsFiniteSet(Newer(rs, i, Hits(rs, filter)))
                     /\ Cardinality(Newer(rs, i, Hits(rs, filter))) \in Nat
           /\ \A w : w.before \in Nat => /\ IsFiniteSet(Unseen(rs, w))
                                         /\ Cardinality(Unseen(rs, w)) \in Nat
  <1> DEFINE ids == Hits(rs, filter)
  <1>1. DOMAIN rs = 1..Len(rs) /\ Len(rs) \in Nat
        /\ \A i \in DOMAIN rs : rs[i].createTime \in Nat
    BY RowsTyped
  <1>2. IsFiniteSet(1..Len(rs)) /\ Cardinality(1..Len(rs)) = Len(rs)
    BY <1>1, FS_Interval
  <1>3. ids \in SUBSET (1..Len(rs))
    BY <1>1 DEF Hits
  <1>4. Dated(rs, ids)
    BY <1>1 DEF Hits, Dated
  <1> HIDE DEF ids
  <1>5. IsFiniteSet(ids) /\ Cardinality(ids) \in 0..Len(rs)
    <2>1. IsFiniteSet(ids) /\ Cardinality(ids) <= Len(rs)
      BY <1>2, <1>3, FS_Subset
    <2>2. Cardinality(ids) \in Nat
      BY <2>1, FS_CardinalityType
    <2> QED
      BY <1>1, <2>1, <2>2
  <1>6. \A i : Newer(rs, i, ids) \in SUBSET ids
    BY DEF Newer
  <1>7. \A i : /\ IsFiniteSet(Newer(rs, i, ids))
               /\ Cardinality(Newer(rs, i, ids)) \in Nat
    BY <1>5, <1>6, FS_Subset, FS_CardinalityType
  <1>8. ASSUME NEW w, w.before \in Nat
        PROVE  IsFiniteSet(Unseen(rs, w)) /\ Cardinality(Unseen(rs, w)) \in Nat
    <2>1. IsFiniteSet(1..w.before)
      BY <1>8, FS_Interval
    <2>2. Unseen(rs, w) \in SUBSET (1..w.before)
      BY DEF Unseen
    <2> QED
      BY <2>1, <2>2, FS_Subset, FS_CardinalityType
  <1> QED
    BY <1>1, <1>3, <1>4, <1>5, <1>7, <1>8 DEF ids

\* The WHERE clause selects what the member means: a bare date is its whole day.
LEMMA HitsAreMeant ==
    ASSUME HistoryTypes, NEW filter \in Filters, NEW i \in DOMAIN rows
    PROVE  i \in Hits(rows, filter) <=> Meant(i, filter)
  <1> DEFINE x == rows[i].createTime
  <1>1. x \in Int
    BY RowsTyped DEF HistoryTypes
  <1>2. ASSUME NEW raw \in {"date", "time"} \X Int
        PROVE  /\ NotBefore(i, raw) <=> x >= ParseBoundaryMillis(raw, FALSE)
               /\ NotAfter(i, raw) <=> x <= ParseBoundaryMillis(raw, TRUE)
    <2>1. raw[1] \in {"date", "time"} /\ raw[2] \in Int
      BY <1>2
    <2>2. /\ x \div DayLength >= raw[2] <=> x >= raw[2] * DayLength
          /\ x \div DayLength <= raw[2]
                <=> x <= (raw[2] * DayLength) + (DayLength - 1)
      BY <1>1, <2>1, HistoryBounds, DayBounds
    <2>3. (raw[2] * DayLength) + 0 = raw[2] * DayLength
      BY <2>1, HistoryBounds
    <2> HIDE DEF x
    <2>4. NotBefore(i, raw) <=> x >= ParseBoundaryMillis(raw, FALSE)
      BY <2>1, <2>2, <2>3 DEF NotBefore, DayOf, ParseBoundaryMillis, x
    <2>5. NotAfter(i, raw) <=> x <= ParseBoundaryMillis(raw, TRUE)
      BY <2>1, <2>2 DEF NotAfter, DayOf, ParseBoundaryMillis, x
    <2> QED
      BY <2>4, <2>5
  <1>3. filter.start # <<>> => filter.start \in {"date", "time"} \X Int
    BY HistoryConstants
  <1>4. filter.end # <<>> => filter.end \in {"date", "time"} \X Int
    BY HistoryConstants
  <1>5. filter.start # <<>> /\ filter.end # <<>> =>
          ((NotBefore(i, filter.start) /\ NotAfter(i, filter.end))
             <=> (/\ x >= ParseBoundaryMillis(filter.start, FALSE)
                  /\ x <= ParseBoundaryMillis(filter.end, TRUE)))
    BY <1>2, <1>3, <1>4
  <1> QED
    BY <1>5 DEF Hits, Fits, Meant

\* A row more: the matching rows stay, the ranks grow, nothing more is left unseen.
LEMMA RowMore ==
    ASSUME NEW rs \in Seq(RowSet), NEW row \in RowSet, NEW rs2, rs2 = Append(rs, row),
           NEW w, w.before \in 0..Len(rs)
    PROVE  /\ Hits(rs, w.filter) \subseteq Hits(rs2, w.filter)
           /\ Cardinality(Hits(rs, w.filter)) <= Cardinality(Hits(rs2, w.filter))
           /\ Unseen(rs2, w) \subseteq Unseen(rs, w)
           /\ Cardinality(Unseen(rs2, w)) <= Cardinality(Unseen(rs, w))
           /\ \A i \in DOMAIN rs :
                Cardinality(Newer(rs, i, Hits(rs, w.filter)))
                    <= Cardinality(Newer(rs2, i, Hits(rs2, w.filter)))
  <1> DEFINE H == Hits(rs, w.filter)
             H2 == Hits(rs2, w.filter)
  <1>1. /\ rs2 \in Seq(RowSet) /\ DOMAIN rs \subseteq DOMAIN rs2
        /\ DOMAIN rs = 1..Len(rs) /\ Len(rs) \in Nat
        /\ \A i \in DOMAIN rs : rs2[i] = rs[i]
    OBVIOUS
  <1>2. H \subseteq H2 /\ H = H2 \cap DOMAIN rs
    BY <1>1 DEF Hits
  <1>3. /\ IsFiniteSet(H2) /\ H \subseteq DOMAIN rs
        /\ \A i : IsFiniteSet(Newer(rs2, i, H2))
        /\ IsFiniteSet(Unseen(rs, w))
    <2>1. w.before \in Nat
      BY <1>1
    <2> QED
      BY <1>1, <2>1, HitsFinite
  <1>4. Unseen(rs2, w) \subseteq Unseen(rs, w)
    <2>1. 1..w.before \subseteq DOMAIN rs
      BY <1>1
    <2>2. ASSUME NEW i \in DOMAIN rs, Lone(rs2, i, H2)
          PROVE  Lone(rs, i, H)
      BY <2>2, <1>1, <1>2 DEF Lone
    <2> QED
      BY <1>2, <2>1, <2>2 DEF Unseen
  <1>5. \A i \in DOMAIN rs : Newer(rs, i, H) \subseteq Newer(rs2, i, H2)
    BY <1>1, <1>2 DEF Newer
  <1> HIDE DEF H, H2
  <1>6. Cardinality(H) <= Cardinality(H2)
    BY <1>2, <1>3, FS_Subset
  <1>7. Cardinality(Unseen(rs2, w)) <= Cardinality(Unseen(rs, w))
    BY <1>3, <1>4, FS_Subset
  <1>8. \A i \in DOMAIN rs :
            Cardinality(Newer(rs, i, H)) <= Cardinality(Newer(rs2, i, H2))
    BY <1>3, <1>5, FS_Subset
  <1> QED
    BY <1>2, <1>4, <1>6, <1>7, <1>8 DEF H, H2

\* A row that is recorded pushes no row to an earlier place.
LEMMA RecordHistory ==
    ASSUME HistoryIInv, NEW kind \in Kinds, Record(kind)
    PROVE  HistoryIInv'
  <1>1. PICK t \in {time, time + 1} :
            t <= MaxTime /\ time' = t /\ rows' = Append(rows, RowOf(kind, t))
    BY DEF Record, RowOf
  <1>2. walk' = walk /\ Len(rows) < MaxRows
    BY DEF Record
  <1>3. /\ rows \in Seq(RowSet) /\ time \in 0..MaxTime /\ Len(rows) \in Nat
        /\ walk \in WalkRow /\ walk.before \in 0..Len(rows)
    BY DEF HistoryIInv, HistoryTypes, WalkRow
  <1>4. RowOf(kind, t) \in RowSet /\ RowOf(kind, t).createTime = t /\ t \in 0..MaxTime
    <2>1. t \in 0..MaxTime
      BY <1>1, <1>3, HistoryBounds
    <2> QED
      BY <2>1, RowFacts DEF RowSet
  <1>5. /\ rows' \in Seq(RowSet) /\ Len(rows') = Len(rows) + 1
        /\ DOMAIN rows' = 1..Len(rows')
        /\ \A i \in 1..Len(rows) : rows'[i] = rows[i]
        /\ rows'[Len(rows')] = RowOf(kind, t)
    BY <1>1, <1>3, <1>4
  <1>6. \A i \in DOMAIN rows' : rows'[i].createTime \in 0..time'
    <2>1. \A i \in 1..Len(rows) : rows[i].createTime \in 0..time
      BY <1>3 DEF HistoryIInv, HistoryTypes
    <2> QED
      BY <1>1, <1>3, <1>4, <1>5, <2>1
  <1>7. HistoryTypes'
    BY <1>1, <1>2, <1>3, <1>4, <1>5, <1>6, HistoryBounds
    DEF HistoryIInv, HistoryTypes
  <1>8. /\ Hits(rows, walk.filter) \subseteq Hits(rows', walk.filter)
        /\ Cardinality(Hits(rows, walk.filter))
               <= Cardinality(Hits(rows', walk.filter))
        /\ Unseen(rows', walk) \subseteq Unseen(rows, walk)
        /\ Cardinality(Unseen(rows', walk)) <= Cardinality(Unseen(rows, walk))
        /\ \A i \in DOMAIN rows :
             Cardinality(Newer(rows, i, Hits(rows, walk.filter)))
                 <= Cardinality(Newer(rows', i, Hits(rows', walk.filter)))
    BY <1>1, <1>3, <1>4, RowMore
  <1>9. /\ Cardinality(Hits(rows, walk.filter)) \in Nat
        /\ Cardinality(Hits(rows', walk.filter)) \in Nat
        /\ Cardinality(Unseen(rows, walk)) \in Nat
        /\ Cardinality(Unseen(rows', walk)) \in Nat
        /\ \A i : /\ Cardinality(Newer(rows, i, Hits(rows, walk.filter))) \in Nat
                  /\ Cardinality(Newer(rows', i, Hits(rows', walk.filter))) \in Nat
    BY <1>3, <1>5, HitsFinite
  <1>10. (walk.page - 1) * walk.size \in Int /\ walk.total \in Nat
    BY <1>3 DEF WalkRow
  <1>11. Unseen(rows, walk) \subseteq DOMAIN rows
    BY <1>3 DEF Unseen, Hits
  <1>12. walk.pc \in {"count", "list"} =>
            \A i \in Unseen(rows', walk) :
                Cardinality(Newer(rows', i, Hits(rows', walk.filter)))
                    > (walk.page - 1) * walk.size
    BY <1>8, <1>9, <1>10, <1>11 DEF HistoryIInv, WalkInv
  <1>13. /\ walk.pc = "list" => walk.total <= Cardinality(Hits(rows', walk.filter))
         /\ walk.pc = "done" => Cardinality(Unseen(rows', walk)) <= walk.late
    BY <1>3, <1>8, <1>9, <1>10 DEF HistoryIInv, WalkInv
  <1>14. WalkInv'
    BY <1>2, <1>8, <1>12, <1>13 DEF HistoryIInv, WalkInv
  <1> QED
    BY <1>7, <1>14 DEF HistoryIInv

\* What opening a list does.
LEMMA OpenMoves ==
    ASSUME HistoryTypes, NEW filter \in Filters, NEW size \in Sizes,
           Open(filter, size)
    PROVE  /\ rows' = rows /\ time' = time /\ walk' \in WalkRow
           /\ walk'.pc \in {"count", "failed"} /\ walk'.filter = filter
           /\ walk'.size > 0 /\ walk'.page = 1 /\ walk'.seen = {}
           /\ walk'.before = Len(rows) /\ walk'.late = 0
  <1> DEFINE pc == IF ParsesType(filter.type) THEN "count" ELSE "failed"
             a == [NotWalking EXCEPT !.pc = pc]
             b == [a EXCEPT !.filter = filter]
             c == [b EXCEPT !.size = DefaultPageSize(size)]
             d == [c EXCEPT !.page = DefaultPage(0)]
             e == [d EXCEPT !.before = Len(rows)]
  <1>1. walk' = e /\ UNCHANGED <<rows, time>>
    BY Zenon DEF Open, a, b, c, d, e
  <1>2. Len(rows) \in Nat
    BY DEF HistoryTypes
  <1>3. /\ NotWalking \in WalkRow /\ NotWalking.seen = {} /\ NotWalking.late = 0
    BY DEF NotWalking, WalkRow
  <1>4. /\ a \in WalkRow /\ a.seen = {} /\ a.late = 0
        /\ a.pc \in {"count", "failed"}
    BY <1>3 DEF WalkRow
  <1> HIDE DEF a
  <1>5. /\ b \in WalkRow /\ b.seen = {} /\ b.late = 0
        /\ b.pc \in {"count", "failed"} /\ b.filter = filter
    BY <1>4 DEF WalkRow
  <1> HIDE DEF b
  <1>6. DefaultPageSize(size) \in Nat /\ DefaultPageSize(size) > 0
    BY HistoryBounds DEF DefaultPageSize
  <1>7. /\ c \in WalkRow /\ c.seen = {} /\ c.late = 0
        /\ c.pc \in {"count", "failed"} /\ c.filter = filter /\ c.size > 0
    BY <1>5, <1>6 DEF WalkRow
  <1> HIDE DEF c
  <1>8. DefaultPage(0) = 1
    BY DEF DefaultPage
  <1>9. /\ d \in WalkRow /\ d.seen = {} /\ d.late = 0
        /\ d.pc \in {"count", "failed"} /\ d.filter = filter /\ d.size > 0
        /\ d.page = 1
    BY <1>7, <1>8 DEF WalkRow
  <1> HIDE DEF d
  <1>10. /\ e \in WalkRow /\ e.seen = {} /\ e.late = 0
         /\ e.pc \in {"count", "failed"} /\ e.filter = filter /\ e.size > 0
         /\ e.page = 1 /\ e.before = Len(rows)
    BY <1>2, <1>9 DEF WalkRow
  <1> HIDE DEF e
  <1> QED
    BY <1>1, <1>10

\* A walk that begins has seen nothing, and has everything in front of it.
LEMMA OpenHistory ==
    ASSUME HistoryIInv, NEW filter \in Filters, NEW size \in Sizes,
           Open(filter, size)
    PROVE  HistoryIInv'
  <1>1. /\ rows' = rows /\ time' = time /\ walk' \in WalkRow
        /\ walk'.pc \in {"count", "failed"} /\ walk'.filter = filter
        /\ walk'.size > 0 /\ walk'.page = 1 /\ walk'.seen = {}
        /\ walk'.before = Len(rows) /\ walk'.late = 0
    BY OpenMoves DEF HistoryIInv
  <1>2. Len(rows) \in Nat /\ rows \in Seq(RowSet)
    BY DEF HistoryIInv, HistoryTypes
  <1>3. HistoryTypes'
    BY <1>1, <1>2 DEF HistoryIInv, HistoryTypes
  <1>4. ASSUME NEW i \in Hits(rows, filter)
        PROVE  Cardinality(Newer(rows, i, Hits(rows, filter))) > 0
    <2>1. i \in Newer(rows, i, Hits(rows, filter))
      BY <1>2, RowsTyped DEF Newer, Hits
    <2>2. /\ IsFiniteSet(Newer(rows, i, Hits(rows, filter)))
          /\ Cardinality(Newer(rows, i, Hits(rows, filter))) \in Nat
      BY <1>2, HitsFinite
    <2> QED
      BY <2>1, <2>2, FS_EmptySet
  <1>5. (walk'.page - 1) * walk'.size = 0
    BY <1>1 DEF WalkRow
  <1>6. \A i \in Unseen(rows, walk') :
            Cardinality(Newer(rows, i, Hits(rows, walk'.filter)))
                > (walk'.page - 1) * walk'.size
    BY <1>1, <1>4, <1>5 DEF Unseen
  <1>7. WalkInv'
    BY <1>1, <1>6, HistoryBounds DEF WalkInv
  <1> QED
    BY <1>3, <1>7 DEF HistoryIInv

\* A COUNT keeps the invariant: its total is at most what is there.
LEMMA CountHistory ==
    ASSUME HistoryIInv, Count
    PROVE  HistoryIInv'
  <1> DEFINE n == Cardinality(Hits(rows, walk.filter))
             a == [walk EXCEPT !.pc = "list"]
             b == [a EXCEPT !.total = n]
  <1>1. /\ rows' = rows /\ time' = time /\ walk.pc = "count"
        /\ walk' = [walk EXCEPT !.pc = "list",
                                !.total = Cardinality(Where(walk.filter))]
    BY DEF Count
  <1>2. walk' = b
    BY <1>1, WhereHits, Zenon DEF a, b
  <1>3. n \in Nat /\ walk \in WalkRow
    BY HitsFinite DEF HistoryIInv, HistoryTypes
  <1> HIDE DEF n
  <1>4. /\ a \in WalkRow /\ a.pc = "list" /\ a.filter = walk.filter
        /\ a.size = walk.size /\ a.page = walk.page /\ a.seen = walk.seen
        /\ a.before = walk.before /\ a.late = walk.late
    BY <1>3 DEF WalkRow
  <1> HIDE DEF a
  <1>5. /\ b \in WalkRow /\ b.pc = "list" /\ b.filter = walk.filter
        /\ b.size = walk.size /\ b.page = walk.page /\ b.seen = walk.seen
        /\ b.before = walk.before /\ b.late = walk.late /\ b.total = n
    BY <1>3, <1>4 DEF WalkRow
  <1> HIDE DEF b
  <1>6. HistoryTypes'
    BY <1>1, <1>2, <1>5 DEF HistoryIInv, HistoryTypes
  <1>7. Unseen(rows, walk') = Unseen(rows, walk)
    BY <1>2, <1>5 DEF Unseen
  <1>8. WalkInv'
    <2>1. /\ walk'.pc = "list" /\ walk'.filter = walk.filter
          /\ walk'.size = walk.size /\ walk'.page = walk.page
          /\ walk'.seen = walk.seen /\ walk'.late = walk.late /\ walk'.total = n
      BY <1>2, <1>5
    <2>2. \A i \in Unseen(rows, walk) :
              Cardinality(Newer(rows, i, Hits(rows, walk.filter)))
                  > (walk.page - 1) * walk.size
      BY <1>1 DEF HistoryIInv, WalkInv
    <2>3. \A i \in Unseen(rows', walk') :
              Cardinality(Newer(rows', i, Hits(rows', walk'.filter)))
                  > (walk'.page - 1) * walk'.size
      BY <1>1, <1>7, <2>1, <2>2
    <2>4. walk'.total <= Cardinality(Hits(rows', walk'.filter))
      BY <1>1, <1>3, <2>1 DEF n
    <2>5. walk'.seen \subseteq Hits(rows', walk'.filter)
      BY <1>1, <2>1 DEF HistoryIInv, WalkInv
    <2>6. walk'.late \in 0..MaxRows
      BY <2>1 DEF HistoryIInv, WalkInv
    <2> QED
      BY <2>1, <2>3, <2>4, <2>5, <2>6 DEF WalkInv
  <1> QED
    BY <1>6, <1>8 DEF HistoryIInv

\* What the SELECT of a page does.
LEMMA FindMoves ==
    ASSUME HistoryTypes, FindList
    PROVE  /\ rows' = rows /\ time' = time /\ walk.pc = "list" /\ walk' \in WalkRow
           /\ walk'.filter = walk.filter /\ walk'.size = walk.size
           /\ walk'.before = walk.before /\ walk'.total = walk.total
           /\ walk'.page = walk.page + 1
           /\ walk'.late = Cardinality(Hits(rows, walk.filter)) - walk.total
           /\ walk'.pc = IF walk.page < TotalPages(walk.size, walk.total)
                         THEN "count" ELSE "done"
           /\ \E o \in [1..Cardinality(Hits(rows, walk.filter))
                          -> Hits(rows, walk.filter)] :
                /\ Distinct(o, Cardinality(Hits(rows, walk.filter)))
                /\ Descending(rows, o, Cardinality(Hits(rows, walk.filter)))
                /\ walk'.seen = walk.seen \cup Shown(o, walk.page, walk.size)
  <1> DEFINE H == Hits(rows, walk.filter)
             n == Cardinality(H)
             pc == IF walk.page < TotalPages(walk.size, walk.total)
                   THEN "count" ELSE "done"
             Next4(o) == [walk EXCEPT !.seen = walk.seen
                                          \cup Shown(o, walk.page, walk.size),
                                      !.page = walk.page + 1,
                                      !.late = n - walk.total, !.pc = pc]
  <1>1. rows' = rows /\ time' = time /\ walk.pc = "list"
    BY DEF FindList
  <1>2. Where(walk.filter) = H
    BY WhereHits
  <1>3. \A c, p, s, t : NewPage(c, p, s, t).totalPages = TotalPages(s, t)
    BY DEF NewPage
  <1>4. PICK o \in NewestFirst(H) : walk' = Next4(o)
    <2>1. PICK o \in NewestFirst(Where(walk.filter)) :
            walk' = [walk EXCEPT
                !.seen = walk.seen \cup Shown(o, walk.page, walk.size),
                !.page = walk.page + 1,
                !.late = Cardinality(Where(walk.filter)) - walk.total,
                !.pc = IF walk.page < NewPage(PageOf(o, walk.page, walk.size),
                                walk.page, walk.size, walk.total).totalPages
                       THEN "count" ELSE "done"]
      BY Zenon DEF FindList, Shown
    <2>2. NewPage(PageOf(o, walk.page, walk.size), walk.page, walk.size,
                  walk.total).totalPages = TotalPages(walk.size, walk.total)
      BY <1>3
    <2>3. walk' = Next4(o)
      BY <1>2, <2>1, <2>2, Zenon
    <2> QED
      BY <1>2, <2>3, Zenon
  <1>5. H \subseteq DOMAIN rows /\ n \in Nat
    BY HitsFinite DEF HistoryTypes
  <1>6. walk \in WalkRow /\ DOMAIN rows = 1..Len(rows)
    BY DEF HistoryTypes
  <1>7. /\ o \in [1..n -> H] /\ Distinct(o, n) /\ Descending(rows, o, n)
    <2>1. /\ o \in [1..n -> H]
          /\ \A i, j \in DOMAIN o : i # j => o[i] # o[j]
          /\ \A i, j \in DOMAIN o :
               i < j => rows[o[i]].createTime >= rows[o[j]].createTime
      BY DEF NewestFirst
    <2>2. DOMAIN o = 1..n
      BY <2>1
    <2> QED
      BY <2>1, <2>2 DEF Distinct, Descending
  <1>8. walk.page \in Nat \ {0} /\ walk.size \in Nat \ {0} /\ walk.total \in Nat
    BY <1>1, <1>6 DEF HistoryTypes, WalkRow
  <1> HIDE DEF n, H
  <1>9. walk.seen \cup Shown(o, walk.page, walk.size) \in SUBSET Nat
    <2>1. Shown(o, walk.page, walk.size) \subseteq H
      BY <1>5, <1>7, <1>8, PageShows
    <2>2. H \subseteq Nat
      BY <1>5, <1>6
    <2> QED
      BY <1>6, <2>1, <2>2 DEF WalkRow
  <1> DEFINE seen == walk.seen \cup Shown(o, walk.page, walk.size)
             a == [walk EXCEPT !.seen = seen]
             b == [a EXCEPT !.page = walk.page + 1]
             c == [b EXCEPT !.late = n - walk.total]
             d == [c EXCEPT !.pc = pc]
  <1>10. walk' = d
    BY <1>4, Zenon DEF a, b, c, d
  <1>11. seen \in SUBSET Nat
    BY <1>9
  <1> HIDE DEF seen
  <1>12. /\ a \in WalkRow /\ a.seen = seen /\ a.filter = walk.filter
         /\ a.size = walk.size /\ a.before = walk.before /\ a.total = walk.total
    BY <1>6, <1>11 DEF WalkRow
  <1> HIDE DEF a
  <1>13. /\ b \in WalkRow /\ b.seen = seen /\ b.filter = walk.filter
         /\ b.size = walk.size /\ b.before = walk.before /\ b.total = walk.total
         /\ b.page = walk.page + 1
    BY <1>8, <1>12 DEF WalkRow
  <1> HIDE DEF b
  <1>14. /\ c \in WalkRow /\ c.seen = seen /\ c.filter = walk.filter
         /\ c.size = walk.size /\ c.before = walk.before /\ c.total = walk.total
         /\ c.page = walk.page + 1 /\ c.late = n - walk.total
    BY <1>5, <1>8, <1>13 DEF WalkRow
  <1> HIDE DEF c
  <1>15. pc \in {"count", "done"}
    OBVIOUS
  <1> HIDE DEF pc
  <1>16. /\ d \in WalkRow /\ d.seen = seen /\ d.filter = walk.filter
         /\ d.size = walk.size /\ d.before = walk.before /\ d.total = walk.total
         /\ d.page = walk.page + 1 /\ d.late = n - walk.total /\ d.pc = pc
    BY <1>14, <1>15 DEF WalkRow
  <1> HIDE DEF d
  <1> QED
    BY <1>1, <1>7, <1>10, <1>16 DEF n, H, pc, seen

\* A SELECT shows the next places, so what it leaves out stands behind them.
LEMMA FindHistory ==
    ASSUME HistoryIInv, FindList
    PROVE  HistoryIInv'
  <1> DEFINE H == Hits(rows, walk.filter)
             n == Cardinality(H)
  <1>1. /\ rows' = rows /\ time' = time /\ walk.pc = "list" /\ walk' \in WalkRow
        /\ walk'.filter = walk.filter /\ walk'.size = walk.size
        /\ walk'.before = walk.before /\ walk'.total = walk.total
        /\ walk'.page = walk.page + 1 /\ walk'.late = n - walk.total
        /\ walk'.pc = IF walk.page < TotalPages(walk.size, walk.total)
                      THEN "count" ELSE "done"
    BY FindMoves DEF HistoryIInv
  <1>2. PICK o \in [1..n -> H] :
            /\ Distinct(o, n) /\ Descending(rows, o, n)
            /\ walk'.seen = walk.seen \cup Shown(o, walk.page, walk.size)
    BY FindMoves DEF HistoryIInv
  <1>3. /\ walk \in WalkRow /\ rows \in Seq(RowSet) /\ Len(rows) <= MaxRows
        /\ walk.page \in Nat \ {0} /\ walk.size \in Nat \ {0}
        /\ walk.total \in Nat /\ walk.total <= n /\ walk.before \in Nat
    BY <1>1 DEF HistoryIInv, HistoryTypes, WalkInv, WalkRow
  <1>4. /\ IsFiniteSet(H) /\ n \in 0..Len(rows) /\ Dated(rows, H)
        /\ Len(rows) \in Nat
    BY <1>3, HitsFinite
  <1>5. HistoryTypes'
    BY <1>1, <1>3 DEF HistoryIInv, HistoryTypes
  <1> HIDE DEF H, n
  <1>6. /\ Shown(o, walk.page, walk.size) \subseteq H
        /\ \A k \in 1..n :
             k > (walk.page - 1) * walk.size /\ k <= walk.page * walk.size =>
                 o[k] \in Shown(o, walk.page, walk.size)
    <2>1. n \in Nat
      BY <1>4
    <2> QED
      BY <1>3, <2>1, PageShows
  <1>7. walk'.seen \subseteq H
    BY <1>2, <1>6 DEF HistoryIInv, WalkInv, H
  \* A row still unseen stands after this page.
  <1>8. ASSUME NEW i \in Unseen(rows, walk')
        PROVE  /\ Cardinality(Newer(rows, i, H)) > walk.page * walk.size
               /\ \E k \in 1..n : o[k] = i /\ k = Cardinality(Newer(rows, i, H))
    <2>1. i \in H /\ Lone(rows, i, H) /\ i \notin walk'.seen /\ i \in Unseen(rows, walk)
      BY <1>1, <1>2 DEF Unseen, H
    <2>2. PICK k \in 1..n : o[k] = i /\ Cardinality(Newer(rows, i, H)) = k
      <3>1. n \in Nat /\ n = Cardinality(H)
        BY <1>4 DEF n
      <3> QED
        BY <1>2, <1>4, <2>1, <3>1, PlaceOfLone
    <2>3. k > (walk.page - 1) * walk.size
      BY <1>1, <2>1, <2>2 DEF HistoryIInv, WalkInv, H
    <2>4. ~ (k <= walk.page * walk.size)
      BY <1>2, <1>6, <2>1, <2>2, <2>3
    <2>5. walk.page * walk.size \in Int /\ k \in Int
      BY <1>3
    <2> QED
      BY <2>2, <2>4, <2>5
  <1>9. walk'.pc = "count" =>
            \A i \in Unseen(rows, walk') :
                Cardinality(Newer(rows, i, H)) > (walk'.page - 1) * walk'.size
    <2>1. (walk.page + 1) - 1 = walk.page
      BY <1>3
    <2> QED
      BY <1>1, <1>8, <2>1
  <1>10. walk'.pc = "done" => Cardinality(Unseen(rows, walk')) <= n - walk.total
    <2> SUFFICES ASSUME walk'.pc = "done"
                 PROVE  Cardinality(Unseen(rows, walk')) <= n - walk.total
      OBVIOUS
    <2>1. walk.total <= walk.page * walk.size
      BY <1>1, <1>3, LastPageHoldsTotal
    <2>2. Unseen(rows, walk') \in SUBSET Placed(o, walk.total + 1, n)
      <3>1. ASSUME NEW i \in Unseen(rows, walk')
            PROVE  \E k \in (walk.total + 1)..n : o[k] = i
        <4>1. PICK k \in 1..n : o[k] = i /\ k > walk.page * walk.size
          BY <1>8
        <4>2. k \in (walk.total + 1)..n
          BY <1>3, <1>4, <2>1, <4>1
        <4> QED
          BY <4>1, <4>2
      <3> QED
        BY <3>1 DEF Placed
    <2>3. /\ IsFiniteSet(Placed(o, walk.total + 1, n))
          /\ Cardinality(Placed(o, walk.total + 1, n)) = n - walk.total
      <3>1. walk.total \in 0..n /\ n \in Nat
        BY <1>3, <1>4
      <3> QED
        BY <1>2, <3>1, LastPlaces
    <2> QED
      BY <2>2, <2>3, FS_Subset
  <1>11. walk'.pc \in {"count", "done"} /\ n - walk.total \in 0..MaxRows
    BY <1>1, <1>3, <1>4, HistoryBounds
  <1>12. WalkInv'
    <2>1. Hits(rows', walk'.filter) = H
      BY <1>1 DEF H
    <2>2. walk'.late = n - walk.total /\ walk'.pc # "list"
      BY <1>1, <1>11
    <2> QED
      BY <1>1, <1>7, <1>9, <1>10, <1>11, <2>1, <2>2 DEF WalkInv
  <1> QED
    BY <1>5, <1>12 DEF HistoryIInv

\* The invariant of the histories holds at the start.
LEMMA HistoryStarts == HistoryInit => HistoryIInv
  <1> SUFFICES ASSUME HistoryInit PROVE HistoryIInv
    OBVIOUS
  <1>1. rows = <<>> /\ time = 0 /\ walk = NotWalking
    BY DEF HistoryInit
  <1>2. /\ NotWalking \in WalkRow /\ NotWalking.pc = "idle"
        /\ NotWalking.seen = {} /\ NotWalking.before = 0 /\ NotWalking.late = 0
    BY DEF NotWalking, WalkRow
  <1> QED
    BY <1>1, <1>2, HistoryBounds DEF HistoryIInv, HistoryTypes, WalkInv

\* Every step keeps the invariant of the histories.
LEMMA HistoryStep ==
    ASSUME HistoryIInv, [Next]_vars
    PROVE  HistoryIInv'
  <1>1. CASE UNCHANGED historyVars
    <2>1. rows' = rows /\ time' = time /\ walk' = walk
      BY <1>1 DEF historyVars
    <2>2. HistoryTypes'
      BY <2>1 DEF HistoryIInv, HistoryTypes
    <2>3. WalkInv'
      BY <2>1, Zenon DEF HistoryIInv, WalkInv
    <2> QED
      BY <2>2, <2>3 DEF HistoryIInv
  <1>2. CASE HistoryNext
    BY <1>2, RecordHistory, OpenHistory, CountHistory, FindHistory DEF HistoryNext
  <1> QED
    BY <1>1, <1>2 DEF Next, vars, historyVars

\* The inductive invariant gives the one the run checks.
LEMMA HistoryIInvGives == HistoryIInv => HistoryInv
  <1> SUFFICES ASSUME HistoryIInv PROVE HistoryInv
    OBVIOUS
  <1>1. /\ rows \in Seq(RowSet) /\ walk \in WalkRow
        /\ DOMAIN rows = 1..Len(rows) /\ Len(rows) \in Nat
    BY DEF HistoryIInv, HistoryTypes
  <1>2. HistoryTypeOK
    <2>1. \A i \in DOMAIN rows :
             /\ \E kind \in Kinds : \A f \in DOMAIN kind : rows[i][f] = kind[f]
             /\ rows[i].createTime \in 0..time
      BY <1>1, RowsTyped DEF HistoryIInv, HistoryTypes
    <2>2. walk.seen \subseteq DOMAIN rows
      BY DEF HistoryIInv, WalkInv, Hits
    <2>3. /\ walk.pc \in {"idle", "count", "list", "done", "failed"}
          /\ walk.filter \in Filters \cup {NoFilter} /\ walk.before \in 0..Len(rows)
      BY <1>1 DEF HistoryIInv, HistoryTypes, WalkRow
    <2> QED
      BY <2>1, <2>2, <2>3 DEF HistoryTypeOK, HistoryIInv, HistoryTypes, WalkInv
  <1>3. WalkSeesWhatWasAsked
    <2> SUFFICES ASSUME walk.pc = "done"
                 PROVE  /\ \A i \in walk.seen : Meant(i, walk.filter)
                        /\ Cardinality(Missed) <= walk.late
      BY DEF WalkSeesWhatWasAsked
    <2>1. walk.filter \in Filters /\ walk.before <= Len(rows)
      BY DEF HistoryIInv, HistoryTypes
    <2>2. \A i \in DOMAIN rows :
              i \in Hits(rows, walk.filter) <=> Meant(i, walk.filter)
      BY <2>1, HitsAreMeant DEF HistoryIInv
    <2>3. Hits(rows, walk.filter) = {j \in DOMAIN rows : Meant(j, walk.filter)}
      BY <2>2 DEF Hits
    <2>4. 1..walk.before \subseteq DOMAIN rows
      BY <1>1, <2>1 DEF WalkRow
    <2>5. Missed = Unseen(rows, walk)
      BY <2>2, <2>3, <2>4 DEF Missed, Unseen, Lone, Alone
    <2> QED
      BY <2>2, <2>5 DEF HistoryIInv, WalkInv, Hits
  <1> QED
    BY <1>2, <1>3 DEF HistoryInv

\* A member who pages to the end of a list sees only what he asked for, and misses no
\* more of it than was written between the count and the list of his last page.
THEOREM WalksSeeWhatWasAsked == Spec => []HistoryInv
  <1>1. Init => HistoryIInv
    BY HistoryStarts DEF Init
  <1> QED
    BY <1>1, HistoryStep, HistoryIInvGives, PTL DEF Spec
=============================================================================
