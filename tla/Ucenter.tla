------------------------------- MODULE Ucenter -------------------------------
(***************************************************************************)
(* Accounts and histories of ucenter's members in one specification.  The  *)
(* two share no state and no handler, so a behaviour in which both run     *)
(* tells nothing the two behaviours apart do not: one of them runs, chosen *)
(* at the start.                                                           *)
(***************************************************************************)
EXTENDS MemberAccount, MemberHistory

VARIABLE part  \* "account" or "history"

vars == <<part, now, cache, sent, members, proofs, rreq, lreq, served, faults, rows, time, walk>>

Init == AccountInit /\ HistoryInit /\ part \in {"account", "history"}

Next ==
    /\ UNCHANGED part
    /\ \/ part = "account" /\ AccountNext /\ UNCHANGED historyVars
       \/ part = "history" /\ HistoryNext /\ UNCHANGED accountVars

Spec == Init /\ [][Next]_vars
=============================================================================
