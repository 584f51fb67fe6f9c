----------------------------- MODULE MCRouting -----------------------------
(* Seven CLPs; the leaves have two, two, one and one ALPs.  A message of each *)
(* class, those with values with each of the values below.                    *)
EXTENDS RoutedMessages

SixAlps == [a \in 7..12 |-> CASE a \in {7, 8} -> 3 [] a \in {9, 11} -> 4
                              [] a = 10 -> 5 [] a = 12 -> 6]

\* std::ostream prints a double with six digits.
Printed == ("0.1234567" :> "0.123457")

OnePerClp == ("70" :> 0) @@ ("71" :> 1) @@ ("72" :> 2) @@ ("73" :> 3) @@ ("74" :> 4)
               @@ ("75" :> 5) @@ ("76" :> 6)

At(x, y) == <<"<", x, ":", y, ">">>
Values ==
    {[type |-> "VALUEINT", data |-> <<"-5">>], [type |-> "VALUEDOUBLE", data |-> <<"0.5">>],
     [type |-> "VALUEDOUBLE", data |-> <<"0.1234567">>],
     [type |-> "VALUEPOINT", data |-> At("2", "-3")], [type |-> "VALUESTRING", data |-> <<>>]}
      \cup [type : {"VALUESTRING"},
            data : {<<"a", c, "b">> : c \in {":", "<", ">", "|", "@", " "}}]

Agents == {[id |-> "9", rank |-> "9"], [id |-> "20", rank |-> "8"]}

Period(v, start, end, agents) ==
    [start |-> start, end |-> end, agent |-> [id |-> "10", rank |-> "10"],
     reads |-> [i \in 1..Len(agents) |-> [key |-> agents[i], value |-> "4"]], value |-> v]

History(v) ==
    LET readers == SetToSeq(Agents)
    IN  <<[key |-> "70", value |-> [id |-> "70", periods |->
              <<Period(v, "0", "3", readers), Period(v, "4", "9", <<>>)>>]],
          [key |-> "75", value |-> [id |-> "75", periods |-> <<Period(v, "0", "9", readers)>>]]>>

Fields(f, v) ==
    CASE f = "original_agent_"   -> [id |-> "9", rank |-> "9"]
      [] f = "fSsvId"            -> "70"
      [] f = "fRange"            -> [min |-> [x |-> "1", y |-> "-2"], max |-> [x |-> "3", y |-> "5"]]
      [] f = "fRollbackTag"      -> [ssv |-> "70", time |-> "4", type |-> "1", realTimeStamp |-> "6"]
      [] f = "fValue"            -> v
      [] f = "fMessageCount"     -> <<[key |-> "0", value |-> "2"], [key |-> "8", value |-> "-1"]>>
      [] f = "fSsvIdValueMap"    -> <<[key |-> "70", value |-> [type |-> "VALUEPOINT", data |-> At("2", "4")]],
                                      [key |-> "71", value |-> [type |-> "VALUEPOINT", data |-> At("1", "1")]]>>
      [] f = "fStateVariableMap" -> History(v)
      [] OTHER                   -> "1"

OneOfEach ==
    {[type |-> type, fields |-> [f \in ToSet(messageClassMap[type]) |-> Fields(f, v)]] :
       type \in DOMAIN messageClassMap, v \in Values}
=============================================================================
