------------------------------- MODULE Handshake -------------------------------
(***************************************************************************)
(* The websocket handshake in C (sockets/server.c): read a request, hash   *)
(* its key, encode the hash in base 64, answer.  The encoder is a machine  *)
(* of three steps that is left and entered again between any two bytes;    *)
(* one action here is what it does with one byte.                          *)
(*                                                                         *)
(* Bytes are 0..255, code characters their values 0..63, "=" and "\n".     *)
(***************************************************************************)
EXTENDS Integers, Sequences, SequencesExt

CONSTANTS
  Hashes,          \* the hashes of the keys that are sent: sequences of bytes
  CHARS_PER_LINE   \* 72 in b64/cencode.h

HandshakeAssumption ==
  /\ \A h \in Hashes : h \in Seq(0..255)
  /\ CHARS_PER_LINE \in Nat \ {0} /\ CHARS_PER_LINE % 4 = 0

VARIABLES
  phase,      \* "read", "encode", "end", "answered"
  hash,       \* what sha1_result returned
  plainchar,  \* bytes of it that are encoded
  step,       \* base64_encodestate
  result,
  stepcount,
  code        \* the encoded text

vars == <<phase, hash, plainchar, step, result, stepcount, code>>

CodeChars == 0..63 \cup {64, 65}
PAD == 64      \* '='
NEWLINE == 65

TypeOK ==
  /\ phase \in {"read", "encode", "end", "answered", "crashed"}
  /\ hash \in Hashes \cup {<< >>}
  /\ plainchar \in 0..Len(hash)
  /\ step \in {"A", "B", "C"}
  /\ result \in 0..63
  /\ stepcount \in 0..((CHARS_PER_LINE \div 4) - 1)
  /\ code \in Seq(CodeChars)

Init ==
  /\ phase = "read"
  /\ hash = << >>
  /\ plainchar = 0
  /\ step = "A"
  /\ result = 0
  /\ stepcount = 0
  /\ code = << >>

\* encode allocates a new text and initialises the encoder.
ReadRequest ==
  /\ phase \in {"read", "answered"}
  /\ phase' = "encode"
  /\ hash' \in Hashes
  /\ plainchar' = 0
  /\ step' = "A"
  /\ result' = 0
  /\ stepcount' = 0
  /\ code' = << >>

\* A message without a key, or the end of the connection: strstr finds
\* nothing, and the key is copied from behind a null pointer.
ReadNoKey ==
  /\ phase \in {"read", "answered"}
  /\ phase' = "crashed"
  /\ UNCHANGED <<hash, plainchar, step, result, stepcount, code>>

------------------------------------------------------------------------------
(* base64_encode_block. *)

\* strlen: the text ends at the first zero.
strlen == LET zeros == {i \in DOMAIN hash : hash[i] = 0} IN
          IF zeros = {} THEN Len(hash) ELSE (CHOOSE i \in zeros : \A j \in zeros : i <= j) - 1

fragment == hash[plainchar + 1]

HasByte == phase = "encode" /\ plainchar < strlen

StepA ==
  /\ HasByte /\ step = "A"
  /\ code' = Append(code, fragment \div 4)
  /\ result' = (fragment % 4) * 16
  /\ step' = "B"
  /\ UNCHANGED stepcount

StepB ==
  /\ HasByte /\ step = "B"
  /\ code' = Append(code, result + fragment \div 16)
  /\ result' = (fragment % 16) * 4
  /\ step' = "C"
  /\ UNCHANGED stepcount

\* Mutant: the two bits kept from the byte before are dropped.
StepCForgetful ==
  /\ HasByte /\ step = "C"
  /\ code' = code \o <<fragment \div 64, fragment % 64>>
  /\ result' = fragment % 64
  /\ stepcount' = (stepcount + 1) % (CHARS_PER_LINE \div 4)
  /\ step' = "A"

\* The third byte completes a group of four characters; a full line is ended.
StepC ==
  /\ HasByte /\ step = "C"
  /\ LET full == stepcount + 1 = CHARS_PER_LINE \div 4 IN
       /\ code' = code \o <<result + fragment \div 64, fragment % 64>>
                       \o IF full THEN <<NEWLINE>> ELSE << >>
       /\ stepcount' = IF full THEN 0 ELSE stepcount + 1
  /\ result' = fragment % 64
  /\ step' = "A"

EncodeByte ==
  /\ StepA \/ StepB \/ StepC
  /\ plainchar' = plainchar + 1
  /\ UNCHANGED <<phase, hash>>

base64_encode_blockend ==
  /\ phase = "encode"
  /\ plainchar = strlen
  /\ code' = Append(code \o CASE step = "A" -> << >>
                              [] step = "B" -> <<result, PAD, PAD>>
                              [] step = "C" -> <<result, PAD>>, NEWLINE)
  /\ phase' = "answered"
  /\ UNCHANGED <<hash, plainchar, step, result, stepcount>>

Next == ReadRequest \/ ReadNoKey \/ EncodeByte \/ base64_encode_blockend

Spec == Init /\ [][Next]_vars

------------------------------------------------------------------------------
(* base64_decode_block: characters that are no digits are skipped; plain is   *)
(* what is complete, char the byte that is begun.                             *)

DecodeChar(s, v) ==
  IF v \in {PAD, NEWLINE} THEN s
  ELSE CASE s.step = "a" -> [s EXCEPT !.step = "b", !.char = v * 4]
         [] s.step = "b" -> [step |-> "c", char |-> (v % 16) * 16,
                             plain |-> Append(s.plain, s.char + v \div 16)]
         [] s.step = "c" -> [step |-> "d", char |-> (v % 4) * 64,
                             plain |-> Append(s.plain, s.char + v \div 4)]
         [] s.step = "d" -> [step |-> "a", char |-> 0,
                             plain |-> Append(s.plain, s.char + v)]

Decoded(c) ==
  FoldLeft(DecodeChar, [step |-> "a", char |-> 0, plain |-> << >>], c)

------------------------------------------------------------------------------
(* Properties. *)

\* Between any two bytes, what is not yet in the code is in result: code and
\* state together decode to the bytes that went in, and the decoder expects
\* the character the encoder will write next.
RoundTrip ==
  phase \in {"encode", "answered"} =>
    LET d == Decoded(code) IN
    /\ d.plain = SubSeq(hash, 1, plainchar - IF phase = "encode" /\ step # "A" THEN 1 ELSE 0)
    /\ phase = "encode" =>
         d.step = CASE step = "A" -> "a" [] step = "B" -> "b" [] step = "C" -> "c"

\* Lines are full but for the last, and no line is longer than promised.
LinesFull ==
  phase = "answered" =>
    \A i \in DOMAIN code :
      code[i] = NEWLINE <=> i = Len(code) \/ i % (CHARS_PER_LINE + 1) = 0

\* "encode() has to know where the end is": the accept key stands for the
\* whole hash.
AcceptsWholeHash == phase = "answered" => Decoded(code).plain = hash
==============================================================================
