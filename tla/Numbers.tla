-------------------------------- MODULE Numbers --------------------------------
(***************************************************************************)
(* Two conversions of numbers, digit by digit: how MojoRenderer writes     *)
(* integers and references (render.h), and how pylong_to_llong (long.h)    *)
(* reads the numbers that name tasks.  Machine integers have Width bits.   *)
(***************************************************************************)
EXTENDS Integers, Sequences, SequencesExt

CONSTANTS
  Width,        (* of mojo_int_t, of mojo_uint_t and of long long          *)
  Values,       (* the numbers that are converted                          *)
  PyLong_SHIFT, (* bits of a digit of a Python integer                     *)
  MAX_DIGITS

VARIABLES
  conversion,   (* "integer", "ref" or "pylong"                            *)
  value,        (* what is converted                                       *)
  pc,
  integer,      (* what is left to be written                              *)
  output,       (* the bytes written                                       *)
  i, ret        (* the digits left to be read, and those read              *)

vars == <<conversion, value, pc, integer, output, i, ret>>

Modulus == 2^Width

Signed(u) == IF u >= Modulus \div 2 THEN u - Modulus ELSE u
MachineInt == -(Modulus \div 2)..(Modulus \div 2 - 1)

TypeOK ==
  /\ conversion \in {"integer", "ref", "pylong"}
  /\ value \in Int
  /\ pc \in {"begin", "loop", "done", "error"}
  /\ integer \in 0..(Modulus - 1)
  /\ output \in Seq(0..255)
  /\ i \in 0..MAX_DIGITS
  /\ ret \in MachineInt

Init ==
  /\ \/ conversion = "integer" /\ value \in Values \cap MachineInt
     \/ conversion = "ref" /\ value \in Values \cap 0..(Modulus - 1)
     \/ conversion = "pylong" /\ value \in Values
  /\ pc = "begin"
  /\ integer = 0 /\ output = <<>>
  /\ i = 0 /\ ret = 0

-----------------------------------------------------------------------------
(* MojoRenderer::ref and integer.                                          *)

(* The least integer has no opposite: builds leave it as it is. *)
Negated(n) == (-n) % Modulus

PutSign(n) == IF n < 0 THEN 64 ELSE 0
Continued(rest) == IF rest > 0 THEN 128 ELSE 0

Begin(n) ==
  LET all  == IF n < 0 THEN Negated(n) ELSE n
      rest == all \div 64
  IN /\ output' = <<(all % 64) + PutSign(n) + Continued(rest)>>
     /\ integer' = rest

BeginInteger ==
  /\ pc = "begin" /\ conversion \in {"integer", "ref"}
  /\ Begin(IF conversion = "ref" THEN Signed(value) ELSE value)
  /\ pc' = IF integer' > 0 THEN "loop" ELSE "done"
  /\ UNCHANGED <<conversion, value, i, ret>>

PutByte ==
  /\ pc = "loop" /\ conversion # "pylong"
  /\ integer' = integer \div 128
  /\ output' = Append(output, (integer % 128) + Continued(integer'))
  /\ pc' = IF integer' > 0 THEN "loop" ELSE "done"
  /\ UNCHANGED <<conversion, value, i, ret>>

-----------------------------------------------------------------------------
(* pylong_to_llong.                                                        *)

Base == 2^PyLong_SHIFT
Magnitude == IF value < 0 THEN -value ELSE value

(* The digits of the object (CPython, external), the lowest first. *)
Digits[n \in Nat] == IF n = 0 THEN <<>> ELSE <<n % Base>> \o Digits[n \div Base]

(* A number of one digit is stored with its sign. *)
Compact == Len(Digits[Magnitude]) <= 1

BeginPyLong ==
  /\ pc = "begin" /\ conversion = "pylong"
  /\ \/ Compact /\ ret' = value /\ pc' = "done" /\ UNCHANGED i
     \/ /\ ~Compact
        /\ IF Len(Digits[Magnitude]) > MAX_DIGITS THEN pc' = "error" /\ UNCHANGED i
           ELSE pc' = "loop" /\ i' = Len(Digits[Magnitude])
        /\ UNCHANGED ret
     \/ pc' = "error" /\ UNCHANGED <<i, ret>>   (* the copy fails *)
  /\ UNCHANGED <<conversion, value, integer, output>>

(* Bits that do not fit are lost. *)
Wrapped(n) == Signed(n % Modulus)

Shifted(n) == Wrapped(n * Base)

TakeDigit ==
  /\ pc = "loop" /\ conversion = "pylong" /\ i > 0
  /\ ret' = Shifted(ret) + Digits[Magnitude][i]
  /\ i' = i - 1
  /\ UNCHANGED <<conversion, value, pc, integer, output>>

TakeSign ==
  /\ pc = "loop" /\ conversion = "pylong" /\ i = 0
  /\ ret' = IF value < 0 THEN Wrapped(-ret) ELSE ret
  /\ pc' = "done"
  /\ UNCHANGED <<conversion, value, integer, output, i>>

Next == BeginInteger \/ PutByte \/ BeginPyLong \/ TakeDigit \/ TakeSign

Spec == Init /\ [][Next]_vars

-----------------------------------------------------------------------------
(* Properties.                                                             *)

(* What a reader of the stream makes of bytes. *)
Read(bytes) ==
  LET high == FoldRight(LAMBDA byte, v : (byte % 128) + 128 * v, Tail(bytes), 0)
      size == (Head(bytes) % 64) + 64 * high
  IN IF (Head(bytes) \div 64) % 2 = 1 THEN -size ELSE size

(* A reader goes on exactly while bytes are marked. *)
Delimited(bytes) ==
  \A k \in DOMAIN bytes : bytes[k] >= 128 <=> k < Len(bytes)

(* Every integer is read as it was, up to the ends of the range, and every *)
(* reference as one and the same number, the same machine word             *)
(* (render.h:176-203).  A Python integer that fits in a word is converted  *)
(* to itself, or not at all (long.h:27-70).                                *)
NumbersKept ==
  pc = "done" =>
    IF conversion = "pylong" THEN value \in MachineInt => ret = value
    ELSE /\ Delimited(output)
         /\ (Read(output) - value) % Modulus = 0
         /\ conversion = "integer" => Read(output) = value
=============================================================================
