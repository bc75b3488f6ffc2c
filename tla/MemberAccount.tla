---------------------------- MODULE MemberAccount ----------------------------
(***************************************************************************)
(* Members of ucenter: a code is sent to a phone through Redis, a phone is *)
(* registered with it, a member logs in and gets a token, and tokens open  *)
(* the authenticated part of the HTTP APIs.  Registering reads the code,   *)
(* looks the phone up and inserts the row in three calls; logging in reads *)
(* the row, answers, and counts the login in a goroutine of its own.       *)
(* Handlers run at once, calls fail, and the process may crash.            *)
(***************************************************************************)
EXTENDS Integers, Sequences, FiniteSets

CONSTANTS
    Phones, Codes, Passwords,
    Registers, Logins,   \* handlers of register requests and of login requests
    Partners,            \* what the form may say of partnership; "none": nothing
    CodeTTL,             \* 15 minutes
    AccessExpire,        \* JWT.AccessExpire
    MaxNow, MaxSends, MaxServed, MaxFaults  \* bounds

ASSUME AccountConstants ==
    /\ CodeTTL \in Nat \ {0} /\ AccessExpire \in Nat \ {0}
    /\ {MaxNow, MaxSends, MaxServed, MaxFaults} \subseteq Nat
    /\ Partners \subseteq {"none", "0", "1", "2"}

VARIABLES
    now,
    cache,     \* Redis: key -> the code stored and when it expires
    sent,      \* history of the codes sent: [phone, code, at]
    members,   \* table member: its rows, the position being the id
    proofs,    \* history: with what code, read when, each row was registered
    rreq, lreq,
    served,    \* history of the authenticated requests: [userId, iat, at]
    faults

accountVars == <<now, cache, sent, members, proofs, rreq, lreq, served, faults>>

NoMember == 0
NoCode == [code |-> "none", until |-> 0]

CodeKeyShared(phone) == "REGISTER::"  \* mutant: the key does not name the phone
CodeKey(phone) == phone

Keys == Phones \cup {"REGISTER::"}

RIdle == [pc |-> "idle", phone |-> "none", password |-> "none", code |-> "none",
          partner |-> "none", readAt |-> 0, readLen |-> 0]
LIdle == [pc |-> "idle", password |-> "none", id |-> NoMember, count |-> 0,
          iat |-> 0, background |-> "none"]

AccountTypeOK ==
    /\ now \in 0..MaxNow
    /\ cache \in [Keys -> [code : Codes \cup {"none"}, until : 0..(MaxNow + CodeTTL)]]
    /\ sent \in Seq([phone : Phones, code : Codes, at : 0..MaxNow])
    /\ members \in Seq([phone : Phones, password : Passwords, loginCount : Nat,
                        superPartner : {"0", "1", "2"}, status : {"normal", "illegal"},
                        transactionStatus : {0, 1}])
    /\ Len(proofs) = Len(members)
    /\ \A r \in Registers : /\ rreq[r].pc \in {"idle", "code", "phone", "save", "answered", "failed"}
                            /\ rreq[r].phone \in Phones \cup {"none"}
    /\ \A l \in Logins : /\ lreq[l].pc \in {"idle", "find", "verify", "answered", "failed"}
                         /\ lreq[l].id \in 0..Len(members)
                         /\ lreq[l].background \in {"none", "running", "done", "lost"}
    /\ served \subseteq [userId : 1..Len(members), iat : 0..MaxNow, at : 0..MaxNow]
    /\ faults \in 0..MaxFaults

AccountInit ==
    /\ now = 0
    /\ cache = [k \in Keys |-> NoCode]
    /\ sent = <<>>
    /\ members = <<>>
    /\ proofs = <<>>
    /\ rreq = [r \in Registers |-> RIdle]
    /\ lreq = [l \in Logins |-> LIdle]
    /\ served = {}
    /\ faults = 0

(***************************************************************************)
(* Redis and the table.                                                    *)
(***************************************************************************)
Until(ttl) == now + ttl

\* GetCtx: an absent or expired key is an error (redis.Nil), never an empty value.
Present(key) == cache[key].code # "none" /\ now < cache[key].until

FindByPhone(phone) == {i \in DOMAIN members : members[i].phone = phone}

(***************************************************************************)
(* Sending a code: four digits of crypto/rand, kept for fifteen minutes; a *)
(* second one replaces the first.                                          *)
(***************************************************************************)
SendRegisterCode(phone) ==
    /\ Len(sent) < MaxSends
    /\ \E code \in Codes :
         /\ cache' = [cache EXCEPT ![CodeKey(phone)] = [code |-> code, until |-> Until(CodeTTL)]]
         /\ sent' = Append(sent, [phone |-> phone, code |-> code, at |-> now])
    /\ UNCHANGED <<now, members, proofs, rreq, lreq, served, faults>>

(***************************************************************************)
(* Registering.                                                            *)
(***************************************************************************)
RGoto(r, pc) == rreq' = [rreq EXCEPT ![r].pc = pc]
RLeave(r, pc) == rreq' = [rreq EXCEPT ![r] = [RIdle EXCEPT !.pc = pc]]
RRest == UNCHANGED <<now, cache, sent, lreq, served>>

\* What the captcha server may say of a token; none is asked when none is configured.
Verify == BOOLEAN

Register(r, phone, password, code, partner) ==
    /\ rreq[r].pc = "idle"
    /\ \E ok \in Verify :
         IF ok
         THEN rreq' = [rreq EXCEPT ![r] = [RIdle EXCEPT !.phone = phone, !.password = password,
                          !.code = code, !.partner = partner, !.pc = "code"]]
         ELSE RLeave(r, "failed")
    /\ RRest /\ UNCHANGED <<members, proofs, faults>>

CodeAccepted(r) ==
    LET key == CodeKey(rreq[r].phone)
    IN  Present(key) /\ cache[key].code = rreq[r].code

\* The code stays in Redis: it is good for another request until it expires.
ReadCode(r) ==
    /\ rreq[r].pc = "code"
    /\ IF CodeAccepted(r)
       THEN rreq' = [rreq EXCEPT ![r].pc = "phone", ![r].readAt = now, ![r].readLen = Len(sent)]
       ELSE RLeave(r, "failed")
    /\ RRest /\ UNCHANGED <<members, proofs, faults>>

LookUpPhone(r) ==
    /\ rreq[r].pc = "phone"
    /\ IF FindByPhone(rreq[r].phone) = {} THEN RGoto(r, "save") ELSE RLeave(r, "failed")
    /\ RRest /\ UNCHANGED <<members, proofs, faults>>

\* Any partnership but the plain one makes the new member "illegal" until reviewed.
FillSuperPartner(partner) ==
    [superPartner |-> IF partner = "none" THEN "0" ELSE partner,
     status |-> IF partner \in {"none", "0"} THEN "normal" ELSE "illegal"]

\* No login so far, and not yet allowed to trade.
NewMemberForRegister(r) ==
    [phone |-> rreq[r].phone, password |-> rreq[r].password, loginCount |-> 0,
     superPartner |-> FillSuperPartner(rreq[r].partner).superPartner,
     status |-> FillSuperPartner(rreq[r].partner).status, transactionStatus |-> 0]

MemberRate(m) == CASE m.superPartner = "1" -> 1 [] m.superPartner = "2" -> 2 [] OTHER -> 0

PhoneNeverTaken(phone) == FALSE  \* mutant: the table without its unique key

\* UNIQUE KEY uk_member_mobile_phone (mobile_phone)
PhoneTaken(phone) == FindByPhone(phone) # {}

SaveMember(r) ==
    /\ rreq[r].pc = "save"
    /\ IF PhoneTaken(rreq[r].phone)
       THEN RLeave(r, "failed") /\ UNCHANGED <<members, proofs, faults>>
       ELSE /\ members' = Append(members, NewMemberForRegister(r))
            /\ proofs' = Append(proofs, [code |-> rreq[r].code, readAt |-> rreq[r].readAt,
                                         readLen |-> rreq[r].readLen])
            /\ \/ RLeave(r, "answered") /\ UNCHANGED faults
               \/ RLeave(r, "failed") /\ faults < MaxFaults /\ faults' = faults + 1
    /\ RRest

RegisterFails(r) ==
    /\ rreq[r].pc \in {"code", "phone", "save"}
    /\ faults < MaxFaults /\ faults' = faults + 1
    /\ RLeave(r, "failed")
    /\ RRest /\ UNCHANGED <<members, proofs>>

(***************************************************************************)
(* Logging in.                                                             *)
(***************************************************************************)
LRest == UNCHANGED <<now, cache, sent, proofs, rreq, served>>

Login(l, phone, password) ==
    /\ lreq[l].pc = "idle"
    /\ \E ok \in Verify :
         IF ~ok \/ FindByPhone(phone) = {}
         THEN lreq' = [lreq EXCEPT ![l].pc = "failed"]
         ELSE \E i \in FindByPhone(phone) :
                lreq' = [lreq EXCEPT ![l] = [LIdle EXCEPT !.pc = "verify", !.id = i,
                            !.password = password, !.count = members[i].loginCount]]
    /\ LRest /\ UNCHANGED <<members, faults>>

\* Password, token, the goroutine and the answer, from the row as it was read.
AnswerLogin(l) ==
    /\ lreq[l].pc = "verify"
    /\ lreq' = IF members[lreq[l].id].password = lreq[l].password
               THEN [lreq EXCEPT ![l].pc = "answered", ![l].iat = now,
                                 ![l].background = "running"]
               ELSE [lreq EXCEPT ![l] = [LIdle EXCEPT !.pc = "failed"]]
    /\ LRest /\ UNCHANGED <<members, faults>>

ShownCount(l) == lreq[l].count + 1

CountFromSnapshot(l) ==  \* mutant: the count that was read is written back, plus one
    [members EXCEPT ![lreq[l].id].loginCount = ShownCount(l)]

\* UPDATE member SET login_count = login_count + 1 WHERE id = ?
CountLogin(l) == [members EXCEPT ![lreq[l].id].loginCount = @ + 1]

UpdateLoginCount(l) ==
    /\ lreq[l].background = "running"
    /\ \/ /\ members' = CountLogin(l)
          /\ lreq' = [lreq EXCEPT ![l].background = "done"]
          /\ UNCHANGED faults
       \/ /\ faults < MaxFaults /\ faults' = faults + 1   \* its error is dropped
          /\ lreq' = [lreq EXCEPT ![l].background = "lost"]
          /\ UNCHANGED members
    /\ LRest

\* ucenter dies: handlers and goroutines are gone.
Crash ==
    /\ faults < MaxFaults /\ faults' = faults + 1
    /\ rreq' = [r \in Registers |->
         IF rreq[r].pc \in {"code", "phone", "save"} THEN [RIdle EXCEPT !.pc = "failed"]
         ELSE rreq[r]]
    /\ lreq' = [l \in Logins |->
         IF lreq[l].pc = "verify" THEN [LIdle EXCEPT !.pc = "failed"]
         ELSE [lreq[l] EXCEPT !.background = IF @ = "running" THEN "lost" ELSE @]]
    /\ UNCHANGED <<now, cache, sent, members, proofs, served>>

(***************************************************************************)
(* Tokens and the authenticated requests.                                  *)
(***************************************************************************)
GenerateUserToken(l) == [userId |-> lreq[l].id, iat |-> lreq[l].iat,
                         exp |-> lreq[l].iat + AccessExpire]

\* A token is refused from the second its claim names on.
ParseUserID(token) == token.exp > now

\* The middleware lets a request pass as the member of its token; FindMemberById
\* reads his row.
Serve(l) ==
    /\ lreq[l].pc = "answered"
    /\ Cardinality(served) < MaxServed
    /\ LET token == GenerateUserToken(l)
       IN  /\ ParseUserID(token)
           /\ token.userId \in DOMAIN members
           /\ served' = served \cup {[userId |-> token.userId, iat |-> token.iat, at |-> now]}
    /\ UNCHANGED <<now, cache, sent, members, proofs, rreq, lreq, faults>>

Tick ==
    /\ now < MaxNow
    /\ now' = now + 1
    /\ UNCHANGED <<cache, sent, members, proofs, rreq, lreq, served, faults>>

AccountNext ==
    \/ \E phone \in Phones : SendRegisterCode(phone)
    \/ \E r \in Registers :
         \/ \E phone \in Phones, password \in Passwords, code \in Codes, partner \in Partners :
                Register(r, phone, password, code, partner)
         \/ ReadCode(r) \/ LookUpPhone(r) \/ SaveMember(r) \/ RegisterFails(r)
    \/ \E l \in Logins :
         \/ \E phone \in Phones, password \in Passwords : Login(l, phone, password)
         \/ AnswerLogin(l) \/ UpdateLoginCount(l) \/ Serve(l)
    \/ Crash
    \/ Tick

(***************************************************************************)
(* Properties.                                                             *)
(***************************************************************************)
\* Two registrations of one phone that both find it free make one member.
OnePhoneOneMember ==
    \A i, j \in DOMAIN members : members[i].phone = members[j].phone => i = j

\* Whoever is registered under a phone gave the code last sent to THAT phone, read
\* before it expired, whatever else was sent, asked and lost meanwhile.
CodeProvesPhone ==
    \A i \in DOMAIN members :
        \E n \in 1..proofs[i].readLen :
            /\ sent[n].phone = members[i].phone
            /\ sent[n].code = proofs[i].code
            /\ proofs[i].readAt - sent[n].at < CodeTTL
            /\ \A k \in (n + 1)..proofs[i].readLen : sent[k].phone # members[i].phone

LoginsOf(i, background) ==
    {l \in Logins : lreq[l].id = i /\ lreq[l].background \in background}

\* However logins overlap, each is counted once by the goroutine it leaves behind, or
\* its update was lost to a fault; and the count a member is shown is one he reached.
LoginsAddUp ==
    /\ \A i \in DOMAIN members : members[i].loginCount = Cardinality(LoginsOf(i, {"done"}))
    /\ \A l \in Logins : lreq[l].background = "lost" => faults > 0
    /\ \A l \in Logins : lreq[l].background # "none" =>
         ShownCount(l) <= Cardinality(LoginsOf(lreq[l].id, {"running", "done", "lost"}))

\* Nothing is served to a token AccessExpire after it was given.
NoRequestAfterExpiry == \A s \in served : s.at - s.iat < AccessExpire

\* Who somebody is was proved in time: with a code when he registered, with a token
\* whenever he is served.
AccountInv == AccountTypeOK /\ CodeProvesPhone /\ NoRequestAfterExpiry
=============================================================================
