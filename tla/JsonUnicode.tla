---------------------------- MODULE JsonUnicode ----------------------------
(***************************************************************************)
(* What UTF-8 and the escapes of JSON are, whoever writes them: the        *)
(* reference that the strings cJSON reads and prints are compared with.    *)
(***************************************************************************)
EXTENDS JsonBuffer

\* The bytes of a code point in UTF-8.
Utf8(c) ==
  LET Cont(weight) == 128 + ((c \div weight) % 64)
  IN IF c < 128 THEN <<c>>
     ELSE IF c < 2048 THEN <<192 + (c \div 64), Cont(1)>>
     ELSE IF c < 65536 THEN <<224 + (c \div 4096), Cont(64), Cont(1)>>
     ELSE <<240 + (c \div 262144), Cont(4096), Cont(64), Cont(1)>>

\* Four hexadecimal digits.
Hex4(n) ==
  <<HexDigit(n \div 4096), HexDigit((n \div 256) % 16), HexDigit((n \div 16) % 16), HexDigit(n % 16)>>

\* A character as another program may write it: \uXXXX, twice above FFFF.
Escape(c) ==
  IF c < 65536 THEN <<92, 117>> \o Hex4(c)
  ELSE <<92, 117>> \o Hex4(55296 + (c - 65536) \div 1024)
       \o <<92, 117>> \o Hex4(56320 + ((c - 65536) % 1024))
=============================================================================
