----------------------------- MODULE AjaxConvert -----------------------------
(***************************************************************************)
(* What jQuery.ajax makes of an answer (page/flot/jquery.js):              *)
(* ajaxHandleResponses finds out which of the response fields to start     *)
(* from, and ajaxConvert takes it from type to type to the one asked for.  *)
(*                                                                         *)
(* A converter is a pair of types; equivalences need no function.  Objects *)
(* have their keys in no order the code could rely on, so the loops over   *)
(* them choose.  A converter may throw.                                    *)
(***************************************************************************)
EXTENDS SequencesExt

CONSTANTS
  Known,          \* the types of ajaxSettings.contents
  Asked,          \* lists of data types the page may ask for ("*" for any)
  Own             \* sets of converters a page may have added

\* ajaxSettings.converters, with the script converter; "text html" is an
\* equivalence.
Converters == {<<"*", "text">>, <<"text", "html">>, <<"text", "json">>, <<"text", "xml">>,
               <<"text", "script">>}
Equivalences == {<<"text", "html">>}

VARIABLES
  converters,
  responses,      \* the response fields that are there: "xml", "text"
  dataTypes, i,   \* the list, and the loop of ajaxConvert
  prev,
  got,            \* the type the data really have
  result          \* "handle", "convert", "success", "failed", "no conversion"

vars == <<converters, responses, dataTypes, i, prev, got, result>>

Init ==
  /\ converters \in {Converters \cup own : own \in Own}
  /\ dataTypes \in Asked
  /\ responses \in {{"xml", "text"}, {"text"}} \cup (IF Head(dataTypes) = "script" THEN {{}} ELSE {})
  /\ i = 0 /\ prev = "" /\ got = "" /\ result = "handle"

\* The first type that is no "*"; the content type is asked only when there
\* was a "*" in front, and goes in front when it is known.
Guessed(types, contentType) ==
  LET rest == SelectSeq(types, LAMBDA t : t # "*")
      guess == Len(types) > 0 /\ types[1] = "*" /\ contentType \in Known
  IN  IF guess THEN <<contentType>> \o rest ELSE rest

\* The response to begin with: one of the first type, or one that has a
\* converter to it, or any.
Starts(types) ==
  LET convertible == {t \in responses : types = << >> \/ <<t, types[1]>> \in converters}
  IN  IF types # << >> /\ types[1] \in responses THEN {types[1]}
      ELSE IF convertible # {} THEN convertible ELSE responses

ajaxHandleResponses(contentType) ==
  /\ result = "handle" /\ responses # {}
  /\ LET types == Guessed(dataTypes, contentType)
     IN  \E start \in Starts(types) :
           /\ got' = start
           /\ dataTypes' = IF types # << >> /\ types[1] = start THEN types ELSE <<start>> \o types
           /\ prev' = start /\ i' = 1 /\ result' = "convert"
  /\ UNCHANGED <<converters, responses>>

\* The script transport gives no responses: the script has run.
NoResponses ==
  /\ result = "handle" /\ responses = {}
  /\ got' = Head(dataTypes) /\ prev' = Head(dataTypes) /\ i' = 1 /\ result' = "convert"
  /\ UNCHANGED <<converters, responses, dataTypes>>

Direct(a, b) == {c \in converters : c \in {<<a, b>>, <<"*", b>>}}

\* The next type is the one before, or "*": nothing to do.
Skip ==
  /\ result = "convert" /\ i < Len(dataTypes)
  /\ LET current == dataTypes[i + 1]
     IN  /\ prev \in {"*", current} \/ current = "*"
         /\ prev' = IF current = "*" THEN prev ELSE current
  /\ i' = i + 1
  /\ UNCHANGED <<converters, responses, dataTypes, got, result>>

Converts == result = "convert" /\ i < Len(dataTypes)
            /\ prev # "*" /\ dataTypes[i + 1] \notin {"*", prev}

\* A direct converter, the exact one first.
ConvertDirect ==
  /\ Converts
  /\ LET current == dataTypes[i + 1]
     IN  /\ Direct(prev, current) # {}
         /\ got' = current /\ prev' = current
  /\ i' = i + 1
  /\ UNCHANGED <<converters, responses, dataTypes, result>>

\* A pair of converters over a type between.
Pairs(a, b) == {mid \in {c[1] : c \in converters} : <<mid, b>> \in converters /\ Direct(a, mid) # {}}

\* Mutant: the type between is converted to but not remembered.
ConvertPairAtOnce ==
  /\ Converts
  /\ LET current == dataTypes[i + 1]
     IN  /\ Direct(prev, current) = {}
         /\ \E mid \in Pairs(prev, current) : got' = mid
         /\ prev' = current
  /\ i' = i + 1
  /\ UNCHANGED <<converters, responses, dataTypes, result>>

\* An equivalence on one side is condensed: the other converter does it all.
\* Otherwise the type between is inserted, and the loop goes over it again.
ConvertPair ==
  /\ Converts
  /\ LET current == dataTypes[i + 1]
     IN  /\ Direct(prev, current) = {}
         /\ \E mid \in Pairs(prev, current) :
              IF <<prev, mid>> \in Equivalences \/ <<mid, current>> \in Equivalences
              THEN /\ got' = current /\ prev' = current
                   /\ i' = i + 1 /\ UNCHANGED dataTypes
              ELSE /\ got' = mid /\ prev' = mid
                   /\ dataTypes' = InsertAt(dataTypes, i + 1, mid)
                   /\ UNCHANGED i
  /\ UNCHANGED <<converters, responses, result>>

NoConversion ==
  /\ Converts
  /\ Direct(prev, dataTypes[i + 1]) = {} /\ Pairs(prev, dataTypes[i + 1]) = {}
  /\ result' = "no conversion"
  /\ UNCHANGED <<converters, responses, dataTypes, i, prev, got>>

\* The converter throws on these data.
ConverterThrows ==
  /\ Converts
  /\ Direct(prev, dataTypes[i + 1]) # {} \/ Pairs(prev, dataTypes[i + 1]) # {}
  /\ result' = "failed"
  /\ UNCHANGED <<converters, responses, dataTypes, i, prev, got>>

Finish ==
  /\ result = "convert" /\ i = Len(dataTypes)
  /\ result' = "success"
  /\ UNCHANGED <<converters, responses, dataTypes, i, prev, got>>

Next ==
  \/ \E contentType \in Known \cup {"none"} : ajaxHandleResponses(contentType)
  \/ NoResponses \/ Skip \/ ConvertDirect \/ ConvertPair \/ NoConversion \/ ConverterThrows \/ Finish

Spec == Init /\ [][Next]_vars /\ WF_vars(Next)

------------------------------------------------------------------------------
\* Each converter is given data of the type it converts from: the loop's
\* type before is always the type of the data.
PrevIsReal == result # "handle" => prev = got

\* A success gives data of the last type that was asked for.
AskedFor == (result = "success" /\ Last(dataTypes) # "*") => got = Last(dataTypes)

\* "No conversion" is said only where no converter, nor two of them after
\* each other, make the type.
Exhaustive ==
  result = "no conversion" =>
    LET to == dataTypes[i + 1]
        reaches(a, b) == \E c \in converters : c[1] \in {a, "*"} /\ c[2] = b
    IN  ~reaches(got, to) /\ ~\E mid \in {c[2] : c \in converters} :
          reaches(got, mid) /\ <<mid, to>> \in converters

==============================================================================
