------------------------------ MODULE MCUcenter ------------------------------
(* A bounded instance of Ucenter. *)
EXTENDS Ucenter

CONSTANTS a, b, p1, p2, c1, c2, l1, l2, m1, m2

Kind(m, symbol, type) == [memberId |-> m, symbol |-> symbol, type |-> type]
MCKinds == {Kind(m1, "BTC", 0), Kind(m1, "ETH", 1), Kind(m2, "BTC", 0)}

Filter(m, symbol, type, start, end) ==
    [memberId |-> m, symbol |-> symbol, type |-> type, start |-> start, end |-> end]

MCFilters == {
    Filter(m1, NotGiven, NotGiven, <<>>, <<>>),
    Filter(m1, NotGiven, "0", <<>>, <<>>),
    Filter(m1, "BTC", NotGiven, <<"date", 0>>, <<"date", 0>>),
    Filter(m1, NotGiven, NotGiven, <<"date", 0>>, <<"time", 2>>),
    Filter(m1, NotGiven, "RECHARGE", <<>>, <<>>)}

MemberSymmetry == Permutations(Phones) \cup Permutations(Codes)
                  \cup Permutations(Registers) \cup Permutations(Logins)
=============================================================================
