------------------------------ MODULE ModeLine -------------------------------
(***************************************************************************)
(* The numbers of a mode line: strtoul (src/shared/wstdlib.c), parse_u32,  *)
(* parse_mode_format and parse_config_mode (src/phase3/wboot_config.c).    *)
(*                                                                         *)
(* A character is its digit value, 0 to 15 for 0-9 and a-f; Minus and      *)
(* Letter stand for the others.  strtok_r cuts the value into tokens,      *)
(* which are never empty (Tokens).  The widths of the three integer types are       *)
(* constants, so that the arithmetic can wrap on small numbers.            *)
(***************************************************************************)
EXTENDS Integers, Sequences

CONSTANTS
  UINTN_LIMIT,  \* 2^64
  UINT32_MAX,   \* 0xFFFFFFFF
  INT32_MAX     \* 0x7FFFFFFF

ASSUME WidthsAssumption ==
  /\ UINTN_LIMIT \in Nat /\ UINT32_MAX \in Nat /\ INT32_MAX \in Nat
  /\ INT32_MAX < UINT32_MAX /\ UINT32_MAX < UINTN_LIMIT

Minus == 16
Letter == 17
Tokens == Seq(0..Letter) \ {<<>>}
MinusOne == <<Minus, 1>>

Invalid == [valid |-> FALSE]
Parsed(v) == [valid |-> TRUE, value |-> v]

(* How many characters strtoul passes over, and the number it makes of      *)
(* them: nothing stops it when the number wraps.                            *)
DigitsOf(str, base) ==
  CHOOSE n \in 0..Len(str) :
    /\ \A k \in 1..n : str[k] < base
    /\ n < Len(str) => str[n + 1] >= base

strtoul(str, base) ==
  LET result[k \in 0..Len(str)] ==
        IF k = 0 THEN 0 ELSE (result[k - 1] * base + str[k]) % UINTN_LIMIT
  IN result[DigitsOf(str, base)]

TruncatingParseU32(str) ==
  IF str = <<>> \/ DigitsOf(str, 10) < Len(str)
    THEN Invalid
    ELSE Parsed(strtoul(str, 10) % (UINT32_MAX + 1))
parse_u32(str) ==
  IF str = <<>> \/ DigitsOf(str, 10) < Len(str) \/ strtoul(str, 10) > UINT32_MAX
    THEN Invalid
    ELSE Parsed(strtoul(str, 10))

parse_mode_format(str) ==
  IF str = MinusOne
    THEN Parsed(-1)
    ELSE LET n == parse_u32(str) IN
         IF n.valid /\ n.value <= INT32_MAX THEN n ELSE Invalid

(* The mode of the configuration, or Invalid: two to four tokens, the       *)
(* fields set only when all of them parse.                                  *)
parse_config_mode(tokens) ==
  LET width == parse_u32(tokens[1])
      height == parse_u32(tokens[2])
      format == IF Len(tokens) < 3 THEN Parsed(-1) ELSE parse_mode_format(tokens[3])
      depth == IF Len(tokens) < 4 THEN Parsed(0) ELSE parse_u32(tokens[4])
  IN IF /\ Len(tokens) \in 2..4
        /\ width.valid /\ height.valid /\ format.valid /\ depth.valid
       THEN Parsed([width |-> width.value, height |-> height.value,
                    format |-> format.value, depth |-> depth.value])
       ELSE Invalid

-----------------------------------------------------------------------------
(* What a mode line says to a reader: the numbers as they are written.      *)
Weights(str) ==
  LET weight[n \in 0..Len(str)] == IF n = 0 THEN 1 ELSE 10 * weight[n - 1]
  IN weight
Sums(str) ==
  LET sum[k \in 0..Len(str)] ==
        IF k = 0 THEN 0 ELSE sum[k - 1] + str[k] * Weights(str)[Len(str) - k]
  IN sum
Written(str) == Sums(str)[Len(str)]

IsNumber(str) == \A k \in DOMAIN str : str[k] \in 0..9

Admissible(tokens) ==
  /\ Len(tokens) \in 2..4
  /\ \A k \in DOMAIN tokens :
       \/ k = 3 /\ tokens[k] = MinusOne
       \/ /\ IsNumber(tokens[k])
          /\ Written(tokens[k]) <= IF k = 3 THEN INT32_MAX ELSE UINT32_MAX

ModeWritten(tokens) ==
  [width |-> Written(tokens[1]), height |-> Written(tokens[2]),
   format |-> IF Len(tokens) < 3 \/ tokens[3] = MinusOne THEN -1 ELSE Written(tokens[3]),
   depth |-> IF Len(tokens) < 4 THEN 0 ELSE Written(tokens[4])]

(* A token strtoul wraps on.                                                *)
Wraps(str) == IsNumber(str) /\ Written(str) >= UINTN_LIMIT
==============================================================================
