---------------------------- MODULE FileFormats ----------------------------
(* What the files of RoaringBitmap32 hold: text of decimal numbers as        *)
(* src/src/cpp/serialization-csv.h writes and reads it, and binary images,   *)
(* of which only the size, the order of their bytes and what a reader makes  *)
(* of an intact or a damaged one matters here; what is in them is modelled   *)
(* in RoaringFormats.  A byte is a tuple that says what it is.               *)
EXTENDS Integers, FiniteSets, FiniteSetsExt, SequencesExt

CONSTANTS Contents,    \* the sets of values that are written
          UINT32_MAX,  \* largest value
          Base,        \* of the numbers in text (10)
          BUFFER_SIZE, \* of the text writer and reader (131072)
          ValueRoom    \* free bytes a number needs in it (15)

ASSUME FormatsAssumption ==
    /\ {UINT32_MAX, BUFFER_SIZE, ValueRoom} \subseteq Nat \ {0}
    /\ Base \in Nat \ {0, 1}
    /\ Contents \subseteq SUBSET (0 .. UINT32_MAX)

BinaryFormat == {"portable", "unsafe_frozen_croaring", "uint32_array"}
TextFormat == {"comma_separated_values", "tab_separated_values", "newline_separated_values", "json_array"}

Digit(d) == <<"digit", d>>
Zero == <<"zero">>
IsDigit(c) == c[1] = "digit"
Symbol == {"-", "space", ",", "[", "]", "tab", "newline", "zero"}
Byte ==
    {Digit(d) : d \in 0 .. Base - 1} \cup {<<s>> : s \in Symbol}
        \cup ({"value"} \X (0 .. UINT32_MAX) \X {1, 2}) \cup (BinaryFormat \X Contents \X {1, 2})

---------------------------------------------------------------------------
(* Text, as it is written: a number is put after a separator unless it is     *)
(* the first one.                                                            *)

Separator(format) ==
    CASE format \in {"comma_separated_values", "json_array"} -> <<",">>
      [] format = "tab_separated_values"     -> <<"tab">>
      [] format = "newline_separated_values" -> <<"newline">>

Decimal[v \in 0 .. UINT32_MAX] ==
    IF v < Base THEN <<Digit(v)>> ELSE Append(Decimal[v \div Base], Digit(v % Base))

(* A number and its separator have the room that is made for them. *)
ASSUME RoomAssumption == \A v \in 0 .. UINT32_MAX : Len(Decimal[v]) < ValueRoom

Opening(format) == IF format = "json_array" THEN <<<<"[">>>> ELSE <<>>
Closing(format) ==
    CASE format = "json_array" -> <<<<"]">>>>
      [] format = "newline_separated_values" -> <<<<"newline">>>>
      [] format \in {"comma_separated_values", "tab_separated_values"} -> <<>>

Smaller(S, v) == Cardinality({w \in S : w < v})
Ascending == [S \in Contents |-> [i \in 1 .. Cardinality(S) |-> CHOOSE v \in S : Smaller(S, v) = i - 1]]
Joined(S, format, first) ==
    LET text[n \in 0 .. Cardinality(S)] ==
            IF n = 0 THEN <<>>
            ELSE text[n - 1] \o (IF n > 1 THEN <<Separator(format)>> ELSE <<>>) \o Decimal[Ascending[S][n]]
    IN  text[first]
Text == [S \in Contents |-> [format \in TextFormat |->
    Opening(format) \o Joined(S, format, Cardinality(S)) \o Closing(format)]]

(* Text, as it is read: the state of the loop over the characters.  A number  *)
(* that is too large already is not extended, and not taken; nor is one that *)
(* follows a minus.                                                          *)
Parsing == [value : 0 .. Base * UINT32_MAX + Base, hasValue : BOOLEAN, isNegative : BOOLEAN, found : SUBSET (0 .. UINT32_MAX)]
ParseInit == [value |-> 0, hasValue |-> FALSE, isNegative |-> FALSE, found |-> {}]
Taken(p) == IF p.hasValue /\ ~p.isNegative /\ p.value <= UINT32_MAX THEN p.found \cup {p.value} ELSE p.found
ParseChar(p, c) ==
    CASE IsDigit(c) /\ p.value <= UINT32_MAX -> [p EXCEPT !.value = Base * p.value + c[2], !.hasValue = TRUE]
      [] IsDigit(c) /\ p.value > UINT32_MAX  -> p
      [] ~IsDigit(c) -> [value |-> 0, hasValue |-> FALSE, isNegative |-> c = <<"-">>, found |-> Taken(p)]
Parse(p, text) ==
    LET after[n \in 0 .. Len(text)] == IF n = 0 THEN p ELSE ParseChar(after[n - 1], text[n])
    IN  after[Len(text)]

(* What text means: its longest runs of digits, unless a minus is before one. *)
TextValues(text) ==
    LET runs == {r \in (1 .. Len(text)) \X (1 .. Len(text)) :
                    /\ r[1] <= r[2]
                    /\ \A i \in r[1] .. r[2] : IsDigit(text[i])
                    /\ r[1] > 1 => ~IsDigit(text[r[1] - 1]) /\ text[r[1] - 1] # <<"-">>
                    /\ r[2] < Len(text) => ~IsDigit(text[r[2] + 1])}
        ending[n \in 0 .. Len(text)] == \* the number whose digits end there
            IF n = 0 THEN 0 ELSE IF IsDigit(text[n]) THEN Base * ending[n - 1] + text[n][2] ELSE 0
    IN  {ending[r[2]] : r \in runs} \cap (0 .. UINT32_MAX)

---------------------------------------------------------------------------
(* Binary images.  A value in an array takes two bytes here, an image of     *)
(* containers as well.                                                       *)

Image == [S \in Contents |-> [format \in BinaryFormat |->
    IF format = "uint32_array"
    THEN [i \in 1 .. 2 * Cardinality(S) |-> <<"value", Ascending[S][(i + 1) \div 2], IF i % 2 = 1 THEN 1 ELSE 2>>]
    ELSE <<<<format, S, 1>>, <<format, S, 2>>>>]]

Written(S, format) == IF format \in TextFormat THEN Text[S][format] ELSE Image[S][format]

(* What a reader makes of bytes, empty for an error.  The portable reader     *)
(* stops where the image ends, the frozen one wants all of the bytes, and an *)
(* array is what its bytes are: two zeros are the value 0, and so is here a  *)
(* value that is torn.                                                       *)
Decoded(bytes, format) ==
    LET value(i) == IF /\ bytes[i][1] = "value" /\ bytes[i + 1][1] = "value"
                       /\ bytes[i][2] = bytes[i + 1][2] /\ bytes[i][3] < bytes[i + 1][3]
                    THEN bytes[i][2] ELSE 0
    IN  CASE format = "portable" -> {S \in Contents : IsPrefix(Image[S][format], bytes)}
          [] format = "unsafe_frozen_croaring" -> {S \in Contents : bytes = Image[S][format]}
          [] format = "uint32_array" ->
                IF Len(bytes) % 2 # 0 THEN {} ELSE {{value(2 * i - 1) : i \in 1 .. Len(bytes) \div 2}}

(* The file after bytes were written at a position, and after it was resized. *)
WrittenAt(bytes, pos, more) ==
    [i \in 1 .. Max({Len(bytes), pos + Len(more)}) |->
        IF i > pos /\ i <= pos + Len(more) THEN more[i - pos] ELSE IF i <= Len(bytes) THEN bytes[i] ELSE Zero]
Resized(bytes, size) == [i \in 1 .. size |-> IF i <= Len(bytes) THEN bytes[i] ELSE Zero]
============================================================================
