---------------------------- MODULE ClientConfig ----------------------------
(***************************************************************************)
(* The validation of a client's configuration (rust/src/client_config.rs). *)
(*                                                                         *)
(* The hash is a sequence of characters, of which only the class matters:  *)
(* "hex", "plus" and "other" take one byte, "blank" is white space, "wide" *)
(* takes two bytes of UTF-8.  HashBytes is 32 in the code.                 *)
(***************************************************************************)
EXTENDS Naturals, Sequences, FiniteSets

CONSTANTS
  HashBytes,    \* bytes of a certificate hash
  MaxChars,     \* bound on the characters of the texts tried
  Urls,         \* "empty", "https" or "other"
  Idles         \* values of idleTimeoutMs

VARIABLES
  config,       \* the ClientConfig: url, hash and idle timeout
  status        \* what parse answered, "none" before

vars == <<config, status>>

Chars == {"hex", "plus", "other", "blank", "wide"}
Texts == UNION {[1..n -> Chars] : n \in 0..MaxChars}

\* str::trim.
Inner(text) == {i \in 1..Len(text) : \E l, r \in 1..Len(text) :
                  l <= i /\ i <= r /\ text[l] # "blank" /\ text[r] # "blank"}
trim(text) == SelectSeq([i \in 1..Len(text) |-> IF i \in Inner(text) THEN text[i] ELSE "out"],
                        LAMBDA c : c # "out")

\* str::len: bytes, not characters.
ByteLen(text) == Len(text) + Cardinality({i \in 1..Len(text) : text[i] = "wide"})

\* The byte offsets at which a slice of the text may begin or end.
Boundaries(text) == {ByteLen(SubSeq(text, 1, i)) : i \in 0..Len(text)}

\* The character that begins at a byte offset.
CharAt(text, offset) ==
  text[1 + CHOOSE i \in 0..(Len(text) - 1) : ByteLen(SubSeq(text, 1, i)) = offset]

\* u8::from_str_radix(pair, 16): digits, with a sign in front if there is one.
IsByte(first, second) == first \in {"hex", "plus"} /\ second = "hex"

\* The loop of parse_hash, which ends at the first pair it cannot use: a slice
\* that cuts a character panics, and a pair that is not a number is refused.
ParsePairs(text) ==
  LET cut(i) == 2 * i \notin Boundaries(text) \/ 2 * i + 2 \notin Boundaries(text)
      bad(i) == ~cut(i) /\ (\/ 2 * i + 1 \notin Boundaries(text)
                            \/ ~IsByte(CharAt(text, 2 * i), CharAt(text, 2 * i + 1)))
      stops == {i \in 0..(HashBytes - 1) : cut(i) \/ bad(i)}
  IN IF stops = {} THEN "ok"
     ELSE LET first == CHOOSE i \in stops : \A j \in stops : i <= j
          IN IF cut(first) THEN "panic" ELSE "invalidArgument"

parse_hash(text) ==
  IF ByteLen(trim(text)) # 2 * HashBytes THEN "invalidArgument" ELSE ParsePairs(trim(text))

\* ClientConfig::parse, as rk_quic_client_connect reports it: guard turns the
\* panic into a status.
parse(c) ==
  CASE c.url # "https" -> "invalidArgument"
    [] OTHER -> LET hash == parse_hash(c.hash) IN
                CASE hash # "ok" -> hash
                  [] c.idle = 0 -> "invalidArgument"
                  [] OTHER -> "ok"

-----------------------------------------------------------------------------
(* Specification *)

Init ==
  /\ config \in [url : Urls, hash : Texts, idle : Idles]
  /\ status = "none"

Connect ==
  /\ status = "none"
  /\ status' = parse(config)
  /\ UNCHANGED config

Spec == Init /\ [][Connect]_vars

(* The claim of client_config.rs:115: 64 hex characters into 32 bytes, or a   *)
(* sentence saying why not.  A hash is accepted exactly when it consists of   *)
(* hex digits, and everything else is an invalidArgument with its sentence.   *)
HashOrSentence ==
  status # "none" /\ config.url = "https" /\ config.idle # 0 =>
    LET text == trim(config.hash)
        whole == Len(text) = 2 * HashBytes /\ \A i \in 1..Len(text) : text[i] = "hex"
    IN status = IF whole THEN "ok" ELSE "invalidArgument"
=============================================================================
