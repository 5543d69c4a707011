--------------------------------- MODULE Frame ---------------------------------
(***************************************************************************)
(* Texts in fixed places.  A client sends its results as texts; the server *)
(* keeps each in an array of MAX_RECORD_SIZE characters and answers        *)
(* GetParams by joining such arrays with '!'; the scripts take the answer  *)
(* apart by position.  Nothing marks a text that is wider than the places  *)
(* foreseen for it.                                                        *)
(*                                                                         *)
(* A character is <<field, width, i>>, the i-th of a text of that width.   *)
(* Any command may come at any time, as in Server; here the interest is in *)
(* the bytes.                                                              *)
(***************************************************************************)
EXTENDS Integers, Sequences, FiniteSets, SequencesExt

CONSTANTS
  Widths,   \* for each field, the widths its texts may have
  MaxOdd    \* bound: texts of an unusual width at a time

\* pkss_structs.h: the arrays of each device's struct, in their order.
Struct == [E |-> <<"T_o", "T_zm">>,
           W |-> <<"T_pm", "T_zco">>,
           B |-> <<"T_pco", "F_zco", "B_P", "B_I", "T_bud">>,
           R |-> <<"F_zm", "R_P", "R_I">>]
Devices == DOMAIN Struct
Fields == UNION {ToSet(Struct[d]) : d \in Devices}
Tuned == [E |-> {}, W |-> {}, B |-> {"B_P", "B_I"}, R |-> {"R_P", "R_I"}]

\* The fields each SendData carries, in the order of the command.
Carries == [d \in Devices |-> SelectSeq(Struct[d], LAMBDA f : f \notin Tuned[d])]

Nominal == [f \in Fields |-> IF f \in {"F_zco", "F_zm"} THEN 9
                             ELSE IF f \in Tuned.B \cup Tuned.R THEN 5 ELSE 7]

MAX_RECORD_SIZE == 10
TOO_WIDE == 11          \* a text that goes on behind the array
STR_TO_SIZE == 43       \* 4*MAX_RECORD_SIZE+3
CSV_BUFFER_SIZE == 150

FrameAssumption ==
  /\ \A f \in Fields : Nominal[f] \in Widths[f] /\ Widths[f] \subseteq 1..MAX_RECORD_SIZE
  /\ MaxOdd \in Nat

MinOf(s) == CHOOSE m \in s : \A n \in s : m <= n

NUL == <<"0", 0, 0>>
SEP == <<"!", 0, 0>>
JUNK == <<"?", 0, 0>>       \* a byte nobody wrote
Text(f, w) == [i \in 1..w |-> <<f, w, i>>]

VARIABLES
  inBufClear,  \* memset(inBuf): only after the first command
  obecne,      \* per field, the array as sent
  zeszle,      \* per field, the array as published
  sent,        \* per field, the width of the text last sent
  shown        \* per field, the width of the text last published or read

vars == <<inBufClear, obecne, zeszle, sent, shown>>

IsByte(b) ==
  \/ b \in {NUL, JUNK}
  \/ b[1] \in Fields /\ b[2] \in Widths[b[1]] /\ b[3] \in 1..b[2]
IsArray(a) == Len(a) = MAX_RECORD_SIZE /\ \A i \in DOMAIN a : IsByte(a[i])

TypeOK ==
  /\ inBufClear \in BOOLEAN
  /\ \A f \in Fields : IsArray(obecne[f]) /\ IsArray(zeszle[f])
  /\ {sent, shown} \subseteq [Fields -> 0..TOO_WIDE]

\* Mutant: the text is copied, the rest of the array left as it was.
strncpyNoFill(dst, s) ==
  [i \in 1..MAX_RECORD_SIZE |-> IF i <= Len(s) THEN s[i] ELSE dst[i]]

\* The rest is filled with zeros; a text that fills the array has no end.
strncpy(dst, s) ==
  [i \in 1..MAX_RECORD_SIZE |-> IF i <= Len(s) THEN s[i] ELSE NUL]

Cleared == [f \in Fields |-> [i \in 1..MAX_RECORD_SIZE |-> NUL]]

Copy(arrays, fs, text) ==
  [f \in Fields |-> IF f \in fs THEN strncpy(arrays[f], text[f]) ELSE arrays[f]]

Odd(widths) == {f \in Fields : widths[f] \notin {0, Nominal[f]}}

Place(s, f) == CHOOSE i \in DOMAIN s : s[i] = f

WidthsOf(fs) == {w \in [fs -> UNION {Widths[f] : f \in fs}] : \A f \in fs : w[f] \in Widths[f]}

Put(widths, fs, w) == [f \in Fields |-> IF f \in fs THEN w[f] ELSE widths[f]]
------------------------------------------------------------------------------
Init ==
  /\ inBufClear = FALSE
  /\ obecne = Cleared
  /\ zeszle = Cleared
  /\ sent = [f \in Fields |-> 0]
  /\ shown = [f \in Fields |-> 0]

\* strtok cuts the command at '!'; its last text ends where inBuf has a zero,
\* which the first command of a run may not find.
SendData(d, w, tail) ==
  LET fs == ToSet(Carries[d])
      text == [f \in fs |-> Text(f, w[f]) \o IF f = Last(Carries[d]) THEN tail ELSE << >>]
  IN /\ tail \in IF inBufClear THEN {<< >>} ELSE {<< >>, [i \in 1..MAX_RECORD_SIZE |-> JUNK]}
     /\ obecne' = Copy(obecne, fs, text)
     /\ sent' = Put(sent, fs, [f \in fs |-> MinOf({Len(text[f]), TOO_WIDE})])
     /\ Cardinality(Odd(sent')) <= MaxOdd
     /\ inBufClear' = TRUE
     /\ UNCHANGED <<zeszle, shown>>

Published == UNION {ToSet(Carries[d]) : d \in Devices}

\* Only when all have sent.
updateDeviceValues ==
  /\ \A f \in Published : sent[f] # 0
  /\ zeszle' = Copy(zeszle, Published, obecne)
  /\ shown' = Put(shown, Published, sent)
  /\ UNCHANGED <<inBufClear, obecne, sent>>

\* GetParams of B and R stores the settings into the published record.
czytaj_nastawy(d, w) ==
  /\ zeszle' = Copy(zeszle, Tuned[d], [f \in Tuned[d] |-> Text(f, w[f])])
  /\ shown' = Put(shown, Tuned[d], w)
  /\ Cardinality(Odd(shown')) <= MaxOdd
  /\ inBufClear' = TRUE
  /\ UNCHANGED <<obecne, sent>>

Next ==
  \/ \E d \in Devices : \E w \in WidthsOf(ToSet(Carries[d])),
       tail \in {<< >>, [i \in 1..MAX_RECORD_SIZE |-> JUNK]} : SendData(d, w, tail)
  \/ updateDeviceValues
  \/ \E d \in {"B", "R"} : \E w \in WidthsOf(Tuned[d]) : czytaj_nastawy(d, w)

Spec == Init /\ [][Next]_vars

------------------------------------------------------------------------------
(* The answer to GetParams, joined in strTo. *)

DeviceOf(f) == CHOOSE d \in Devices : f \in ToSet(Struct[d])

\* The string at array f: up to the first zero, through the arrays behind it,
\* and through what lies behind the struct if there is none.
StringAt(f) ==
  LET s == Struct[DeviceOf(f)]
      bytes == FlattenSeq([i \in 1..(Len(s) + 1 - Place(s, f)) |->
                             zeszle[s[i + Place(s, f) - 1]]]) \o <<JUNK, NUL>>
  IN SubSeq(bytes, 1, MinOf({i \in DOMAIN bytes : bytes[i] = NUL}) - 1)

\* The longest line of data.csv with these texts: three numbers of two digits,
\* the texts of printAllData, separators of two characters, the end.
RowLength == 10 + FoldLeft(LAMBDA n, f : n + 2 + Len(StringAt(f)), 0,
                           Struct.E \o Struct.W \o Struct.B \o Struct.R) + 2

Asks == [E |-> <<"T_pm">>,
         W |-> <<"T_pco", "T_zm", "F_zm", "F_zco">>,
         B |-> <<"T_zco", "T_o", "B_P", "B_I">>,
         R |-> <<"T_zco", "T_o", "R_P", "R_I">>]

Join(parts) == FoldLeft(LAMBDA a, p : Append(a, SEP) \o p, Head(parts), Tail(parts))

Answer(d) == Join([i \in DOMAIN Asks[d] |-> StringAt(Asks[d][i])])

\* What the scripts cut out: <<field, place of the sign, integer digits,
\* decimals>>.  A setting has no sign; its digits begin one place further.
\* Mutant: the fourth value is expected where a seven-character third one ends.
PlacesAsIfNarrow ==
  [E |-> {<<"T_pm", 1, 3, 2>>},
   W |-> {<<"T_pco", 1, 3, 2>>, <<"T_zm", 9, 3, 2>>, <<"F_zm", 17, 3, 4>>, <<"F_zco", 25, 3, 1>>},
   B |-> {<<"T_zco", 1, 3, 2>>, <<"T_o", 9, 3, 2>>, <<"B_P", 16, 2, 2>>, <<"B_I", 22, 2, 2>>},
   R |-> {<<"T_zco", 1, 3, 2>>, <<"T_o", 9, 3, 2>>}]

Places ==
  [E |-> {<<"T_pm", 1, 3, 2>>},
   W |-> {<<"T_pco", 1, 3, 2>>, <<"T_zm", 9, 3, 2>>, <<"F_zm", 17, 3, 4>>, <<"F_zco", 27, 3, 1>>},
   B |-> {<<"T_zco", 1, 3, 2>>, <<"T_o", 9, 3, 2>>, <<"B_P", 16, 2, 2>>, <<"B_I", 22, 2, 2>>},
   R |-> {<<"T_zco", 1, 3, 2>>, <<"T_o", 9, 3, 2>>}]

\* fread gives up after as many characters as the script asks for.
FreadSize == [E |-> 10, W |-> 43, B |-> 32, R |-> 21]

Cut(d, first, n) ==
  LET a == Answer(d) IN
  [i \in 1..n |-> IF first + i - 1 <= MinOf({Len(a), FreadSize[d]}) THEN a[first + i - 1] ELSE NUL]

Parsed(d, p) == [sign |-> Cut(d, p[2], 1)[1],
                 int  |-> Cut(d, p[2] + 1, p[3]),
                 frac |-> Cut(d, p[2] + p[3] + 2, p[4])]

\* The number a text stands for: all its integer digits and the first n of its
\* decimals.
Signless == Tuned.B \cup Tuned.R
Decimals(f) == IF f \in {"F_zm", "F_zco"} THEN 4 ELSE 2
First(f) == IF f \in Signless THEN 1 ELSE 2
Meant(f, n) ==
  LET w == shown[f]  dot == w - Decimals(f) IN
  [int  |-> [i \in 1..(dot - First(f)) |-> <<f, w, First(f) + i - 1>>],
   frac |-> [i \in 1..n |-> <<f, w, dot + i>>]]

Understood(d, p) ==
  LET q == Parsed(d, p) IN
  /\ [int |-> q.int, frac |-> q.frac] = Meant(p[1], p[4])
  /\ p[1] \notin Signless => q.sign = <<p[1], shown[p[1]], 1>>

------------------------------------------------------------------------------
(* Properties. *)

Known(d) == \A i \in DOMAIN Asks[d] : shown[Asks[d][i]] # 0
Before(d, f) == {Asks[d][i] : i \in 1..Place(Asks[d], f)}
Plain(d, f) == \A g \in Before(d, f) : shown[g] = Nominal[g]

\* A value is understood by the script that asks for it as soon as it and all
\* values before it in the answer have the foreseen width, whatever was in the
\* arrays earlier and whatever width the values behind it have.
PlainValuesUnderstood ==
  \A d \in Devices : \A p \in Places[d] :
    Known(d) /\ Plain(d, p[1]) => Understood(d, p)

\* As long as the texts asked for are shorter than the arrays, the answer is
\* these texts, each once, with a separator between them: nothing of an
\* earlier, wider text is left over, and strTo is not exceeded, nor is the
\* line's buffer when all texts are short.
ShortTextsJoined ==
  /\ (\A f \in Fields : shown[f] < MAX_RECORD_SIZE) => RowLength <= CSV_BUFFER_SIZE
  /\ \A d \in Devices :
    (\A i \in DOMAIN Asks[d] : shown[Asks[d][i]] < MAX_RECORD_SIZE) =>
      /\ Answer(d) = Join([i \in DOMAIN Asks[d] |-> Text(Asks[d][i], shown[Asks[d][i]])])
      /\ Len(Answer(d)) < STR_TO_SIZE

\* "n parameters of DLUGOSC_REKORDU (10) characters and n - 1 separators": a
\* record of ten characters is foreseen.
FullRecordsFit ==
  \A d \in Devices :
    Known(d) /\ (\A i \in DOMAIN Asks[d] : shown[Asks[d][i]] <= MAX_RECORD_SIZE) =>
      Len(Answer(d)) <= Len(Asks[d]) * MAX_RECORD_SIZE + Len(Asks[d]) - 1

\* "For a PI controller these are two numbers; the controller will parse them":
\* the regulator learns its settings.
SettingsReachRegulator ==
  Known("R") => \A f \in Tuned.R : \E p \in Places.R : p[1] = f /\ Understood("R", p)
==============================================================================
