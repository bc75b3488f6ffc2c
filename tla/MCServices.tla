----------------------------- MODULE MCServices ----------------------------
(* A bounded instance of Services. *)
EXTENDS Services

MCExchangeCoins == [s \in {"OLD/USDT", "BTC/USDT", "HID/USDT"} |-> s # "HID/USDT"]
MCPeriodLength == [p \in {"1m", "1H"} |-> IF p = "1m" THEN 1 ELSE 2]
MCEnabledSets == {{"1m"}, {"1H"}, {RateJob}}
=============================================================================
