----------------------------- MODULE WireFormat -----------------------------
(***************************************************************************)
(* What a message looks like between two LPs (messages/, types/, state/    *)
(* Value.h, lp/SendThread.cpp, lp/ReceiveThread.cpp).  A message is sent   *)
(* as text: the fields of its class in their order, each after a ':'.  The *)
(* receiver makes a message of the class that the text begins with, and    *)
(* reads the same fields; it gets from one to the next by skipping to the  *)
(* next delimiter, and so relies on every field's leaving the stream where *)
(* the next one expects it.                                                *)
(*                                                                         *)
(* A text is a sequence of tokens: delimiters, blanks and words.  Numbers  *)
(* are words; the types that are printed differently from how they are     *)
(* kept are the values: a double is printed with six digits.               *)
(***************************************************************************)
EXTENDS Naturals, SequencesExt, TLC

CONSTANTS
    SixDigits,    \* [the doubles that have more -> what is printed]
    MaxNumber     \* bound: the numbers that the model reads as numbers

DELIM_VAR_SEPARATOR == ":"
DELIM_LEFT == "<"
DELIM_RIGHT == ">"
DELIM_LIST_LEFT == "|"
DELIM_LIST_RIGHT == "@"
Blank == " "
Delimiter == {DELIM_VAR_SEPARATOR, DELIM_LEFT, DELIM_RIGHT, DELIM_LIST_LEFT, DELIM_LIST_RIGHT}

(***************************************************************************)
(* The fields of each class.                                               *)
(***************************************************************************)
Ends == <<"fOrigin", "fDestination">>
Simulation == Ends \o <<"fTimestamp", "fMatternColour">>
Counted == Append(Simulation, "fNumberOfHops")

EndMessage == Append(Ends, "fSenderAlp")
GvtControlMessage ==
    Ends \o <<"fMessageMinimumTime", "fRedMessageTime", "fMatternCut", "fMessageCount">>
GvtRequestMessage == Ends
GvtValueMessage == Append(Ends, "fGVT")
RangeQueryAntiMessage ==
    Counted \o <<"fRollbackTag", "original_agent_", "fRange", "fIdentifier">>
RangeQueryMessage ==
    Counted \o <<"fIdentifier", "original_agent_", "fRange", "fNumberOfTraverseHops",
                 "fSsvIdValueMap">>
RangeUpdateMessage == Ends \o <<"fTimestamp", "fRange">>
RollbackMessage == Simulation \o <<"fRollbackTag", "original_agent_">>
SingleReadAntiMessage == Counted \o <<"fRollbackTag", "original_agent_", "fSsvId">>
SingleReadMessage == Counted \o <<"fIdentifier", "original_agent_", "fSsvId">>
SingleReadResponseMessage == Simulation \o <<"fIdentifier", "original_agent_", "fValue">>
StateMigrationMessage == Append(Ends, "fStateVariableMap")
WriteAntiMessage == Counted \o <<"fRollbackTag", "original_agent_", "fSsvId">>
WriteMessage == Counted \o <<"fIdentifier", "original_agent_", "fSsvId", "fValue">>
WriteResponseMessage == Simulation \o <<"fIdentifier", "original_agent_", "fWriteStatus">>

\* The classes that are registered, by the number their text begins with.
messageClassMap ==
    [ENDMESSAGE |-> EndMessage, GVTCONTROLMESSAGE |-> GvtControlMessage,
     GVTREQUESTMESSAGE |-> GvtRequestMessage, GVTVALUEMESSAGE |-> GvtValueMessage,
     RANGEQUERYANTIMESSAGE |-> RangeQueryAntiMessage, RANGEQUERYMESSAGE |-> RangeQueryMessage,
     RANGEUPDATEMESSAGE |-> RangeUpdateMessage, ROLLBACKMESSAGE |-> RollbackMessage,
     SINGLEREADANTIMESSAGE |-> SingleReadAntiMessage, SINGLEREADMESSAGE |-> SingleReadMessage,
     SINGLEREADRESPONSEMESSAGE |-> SingleReadResponseMessage,
     STATEMIGRATIONMESSAGE |-> StateMigrationMessage, WRITEANTIMESSAGE |-> WriteAntiMessage,
     WRITEMESSAGE |-> WriteMessage, WRITERESPONSEMESSAGE |-> WriteResponseMessage]

(***************************************************************************)
(* Serialise.                                                              *)
(***************************************************************************)
PrintLpId(x) == <<DELIM_LEFT, x.id, DELIM_VAR_SEPARATOR, x.rank, DELIM_RIGHT>>
PrintSsvId(x) == <<DELIM_LEFT, x, DELIM_RIGHT>>

PrintPoint(q) == <<DELIM_LEFT, q.x, DELIM_VAR_SEPARATOR, q.y, DELIM_RIGHT>>
PrintRange(r) ==
    <<DELIM_LEFT>> \o PrintPoint(r.min) \o <<DELIM_VAR_SEPARATOR>> \o PrintPoint(r.max)
      \o <<DELIM_RIGHT>>

PrintRollbackTag(x) ==
    <<DELIM_LEFT>> \o PrintSsvId(x.ssv)
      \o <<DELIM_VAR_SEPARATOR, x.time, DELIM_VAR_SEPARATOR, x.type,
           DELIM_VAR_SEPARATOR, x.realTimeStamp, DELIM_RIGHT>>

\* The data of a value is the text of it: one word, a point, or a string.
PrintValue(v) ==
    <<DELIM_LEFT, v.type, DELIM_VAR_SEPARATOR>>
      \o (IF v.type = "VALUEDOUBLE" /\ v.data[1] \in DOMAIN SixDigits
          THEN <<SixDigits[v.data[1]]>> ELSE v.data)
      \o <<DELIM_RIGHT>>

PrintList(list, PrintOne(_)) ==
    <<ToString(Len(list))>>
      \o FlattenSeq([i \in DOMAIN list |->
                       <<DELIM_LIST_LEFT>> \o PrintOne(list[i]) \o <<DELIM_LIST_RIGHT>>])

\* A map or multimap is the list of its pairs, in its order.
PrintMap(map, PrintKey(_), PrintOne(_)) ==
    PrintList(map, LAMBDA e : PrintKey(e.key) \o <<DELIM_LIST_LEFT>> \o PrintOne(e.value))

PrintWord(x) == <<x>>

PrintWritePeriod(p) ==
    <<DELIM_LEFT, p.start, DELIM_VAR_SEPARATOR, p.end, DELIM_VAR_SEPARATOR>>
      \o PrintLpId(p.agent) \o <<DELIM_VAR_SEPARATOR>>
      \o PrintMap(p.reads, PrintLpId, PrintWord) \o <<DELIM_VAR_SEPARATOR>>
      \o PrintValue(p.value) \o <<DELIM_RIGHT>>

PrintStateVariable(x) ==
    <<DELIM_LEFT>> \o PrintSsvId(x.id) \o <<DELIM_VAR_SEPARATOR>>
      \o PrintList(x.periods, PrintWritePeriod) \o <<DELIM_RIGHT>>

PrintField(f, x) ==
    CASE f = "original_agent_"   -> PrintLpId(x)
      [] f = "fSsvId"            -> PrintSsvId(x)
      [] f = "fRange"            -> PrintRange(x)
      [] f = "fRollbackTag"      -> PrintRollbackTag(x)
      [] f = "fValue"            -> PrintValue(x)
      [] f = "fMessageCount"     -> PrintMap(x, PrintWord, PrintWord)
      [] f = "fSsvIdValueMap"    -> PrintMap(x, PrintSsvId, PrintValue)
      [] f = "fStateVariableMap" -> PrintMap(x, PrintSsvId, PrintStateVariable)
      [] OTHER                   -> PrintWord(x)

Serialise(m) ==
    LET fields == messageClassMap[m.type]
    IN  <<DELIM_LEFT, m.type>>
          \o FlattenSeq([i \in DOMAIN fields |->
                           <<DELIM_VAR_SEPARATOR>> \o PrintField(fields[i], m.fields[fields[i]])])
          \o <<DELIM_RIGHT>>

(***************************************************************************)
(* Deserialise.  Reading gives what was read and what is left.             *)
(***************************************************************************)
Read(value, rest) == [value |-> value, rest |-> rest]

\* The tokens before the first of c, and those after it.
Before(s, c) == SubSeq(s, 1, Min({i \in DOMAIN s : s[i] = c} \cup {Len(s) + 1}) - 1)
IgnoreTo(s, c) == SubSeq(s, Len(Before(s, c)) + 2, Len(s))

\* The number a word stands for; 0 is what a stream leaves that has not found one.
Number(word) ==
    IF \E n \in 0..MaxNumber : ToString(n) = word
    THEN CHOOSE n \in 0..MaxNumber : ToString(n) = word ELSE 0

\* Where a word is not, nothing is read.
ReadWord(s) ==
    IF s = <<>> \/ s[1] \in Delimiter \cup {Blank} THEN Read("?", s) ELSE Read(s[1], Tail(s))

\* One more field, and what is left after it.
Added(read, f, one) == Read((f :> one.value) @@ read.value, one.rest)

\* A type that consists of these fields: the first comes after '<', the others after ':'.
ReadRecord(s, fields, ReadOne(_, _)) ==
    LET Mark(i) == IF i = 1 THEN DELIM_LEFT ELSE DELIM_VAR_SEPARATOR
        WithField(read, i) ==
            Added(read, fields[i], ReadOne(fields[i], IgnoreTo(read.rest, Mark(i))))
    IN  FoldLeft(WithField, Read(<<>>, s), [i \in DOMAIN fields |-> i])

\* Nearly all of them go on to the next '>'.
Closed(read) == Read(read.value, IgnoreTo(read.rest, DELIM_RIGHT))

ReadLpId(s) == Closed(ReadRecord(s, <<"id", "rank">>, LAMBDA f, t : ReadWord(t)))

ReadSsvId(s) == Closed(ReadWord(IgnoreTo(s, DELIM_LEFT)))

ReadPoint(s) == Closed(ReadRecord(s, <<"x", "y">>, LAMBDA f, t : ReadWord(t)))
ReadRange(s) == Closed(ReadRecord(s, <<"min", "max">>, LAMBDA f, t : ReadPoint(t)))

ReadRollbackTag(s) ==
    Closed(ReadRecord(s, <<"ssv", "time", "type", "realTimeStamp">>,
                      LAMBDA f, t : IF f = "ssv" THEN ReadSsvId(t) ELSE ReadWord(t)))

\* GetTypeID and GetValueString take a text apart that begins with a value, or its
\* type: the type is before the first ':', the data from there to the first '>'.
Untagged(s) == SubSeq(s, SelectInSeq(s, LAMBDA t : t # DELIM_LEFT), Len(s))
GetTypeID(s) == ReadWord(Untagged(s)).value
GetValueString(s) == Before(IgnoreTo(Untagged(s), DELIM_VAR_SEPARATOR), DELIM_RIGHT)

\* stream >> string: the blanks are skipped, and the string ends before a blank.
ReadString(s) ==
    LET first == SelectInSeq(s, LAMBDA t : t # Blank)
        text == IF first = 0 THEN <<>> ELSE SubSeq(s, first, Len(s))
        value == Before(text, Blank)
    IN  Read(value, SubSeq(text, Len(value) + 1, Len(text)))

\* What a value of this type makes of its data, with >> (Value::SetValue).
Converted(type, data) ==
    CASE type = "VALUEPOINT"  -> PrintPoint(ReadPoint(data).value)
      [] type = "VALUESTRING" -> ReadString(data).value
      [] OTHER                -> <<ReadWord(data).value>>

SetValue(text) ==
    [type |-> GetTypeID(text), data |-> Converted(GetTypeID(text), GetValueString(text))]

\* Value::Deserialise, of points only.
ReadValue(s) ==
    LET Text(q) == Read(PrintPoint(q.value), q.rest)
    IN  Closed(ReadRecord(s, <<"type", "data">>,
                          LAMBDA f, t : IF f = "type" THEN ReadWord(t) ELSE Text(ReadPoint(t))))

ReadList(s, ReadOne(_)) ==
    LET Appended(read, one) ==
            Read(Append(read.value, one.value), IgnoreTo(one.rest, DELIM_LIST_RIGHT))
        WithOne(read, i) == Appended(read, ReadOne(IgnoreTo(read.rest, DELIM_LIST_LEFT)))
        Elements(size) ==
            FoldLeft(WithOne, Read(<<>>, size.rest), [i \in 1..Number(size.value) |-> i])
    IN  Elements(ReadWord(s))

ReadMap(s, ReadKey(_), ReadOne(_)) ==
    LET Entry(key, one) == Read([key |-> key.value, value |-> one.value], one.rest)
        EntryOf(key) == Entry(key, ReadOne(IgnoreTo(key.rest, DELIM_LIST_LEFT)))
    IN  ReadList(s, LAMBDA t : EntryOf(ReadKey(t)))

\* Mutant: the '@' is not put back.
ReadPeriodValueToEnd(s) ==
    LET text == Before(s, DELIM_LIST_RIGHT)
    IN  Read(SetValue(text), SubSeq(s, Len(text) + 2, Len(s)))

\* The value of a period is all up to the '@' that ends the period in its list,
\* which is put back (unget) for the list to find.
ReadPeriodValue(s) ==
    LET text == Before(s, DELIM_LIST_RIGHT)
    IN  Read(SetValue(text), SubSeq(s, Len(text) + 1, Len(s)))

ReadWritePeriod(s) ==
    ReadRecord(s, <<"start", "end", "agent", "reads", "value">>,
               LAMBDA f, t : CASE f = "agent" -> ReadLpId(t)
                               [] f = "reads" -> ReadMap(t, ReadLpId, ReadWord)
                               [] f = "value" -> ReadPeriodValue(IgnoreTo(t, DELIM_LEFT))
                               [] OTHER       -> ReadWord(t))

ReadStateVariable(s) ==
    Closed(ReadRecord(s, <<"id", "periods">>,
                      LAMBDA f, t : IF f = "id" THEN ReadSsvId(t)
                                    ELSE ReadList(t, ReadWritePeriod)))

\* The value of a message is the rest of it, up to a blank.
ReadMessageValue(s) ==
    LET text == ReadString(s) IN Read(SetValue(text.value), text.rest)

ReadField(f, s) ==
    CASE f = "original_agent_"   -> ReadLpId(s)
      [] f = "fSsvId"            -> ReadSsvId(s)
      [] f = "fRange"            -> ReadRange(s)
      [] f = "fRollbackTag"      -> ReadRollbackTag(s)
      [] f = "fValue"            -> ReadMessageValue(s)
      [] f = "fMessageCount"     -> ReadMap(s, ReadWord, ReadWord)
      [] f = "fSsvIdValueMap"    -> ReadMap(s, ReadSsvId, ReadValue)
      [] f = "fStateVariableMap" -> ReadMap(s, ReadSsvId, ReadStateVariable)
      [] OTHER                   -> ReadWord(s)

Deserialise(text) ==
    LET type == GetTypeID(text)
        WithField(read, f) ==
            Added(read, f, ReadField(f, IgnoreTo(read.rest, DELIM_VAR_SEPARATOR)))
    IN  [type |-> type,
         fields |-> FoldLeft(WithField, Read(<<>>, text), messageClassMap[type]).value]

-----------------------------------------------------------------------------
\* What survives being printed and read again: a string has no blank in it and
\* no '>', and no '@' where it is part of a history; a double has six digits.
IsPlain(v) ==
    /\ v.type = "VALUESTRING" => \A i \in DOMAIN v.data : v.data[i] \notin {Blank, DELIM_RIGHT}
    /\ v.type = "VALUEDOUBLE" => v.data[1] \notin DOMAIN SixDigits

HasPlainValues(m) ==
    /\ "fValue" \in DOMAIN m.fields => IsPlain(m.fields.fValue)
    /\ "fStateVariableMap" \in DOMAIN m.fields =>
         \A i \in DOMAIN m.fields.fStateVariableMap :
           LET periods == m.fields.fStateVariableMap[i].value.periods
           IN  \A j \in DOMAIN periods :
                 /\ IsPlain(periods[j].value)
                 /\ DELIM_LIST_RIGHT \notin ToSet(periods[j].value.data)
=============================================================================
