----------------------------- MODULE LicenceKey -----------------------------
(***************************************************************************)
(* src/src/crypto/key.c: the checksum of native keys, and what a key that  *)
(* was typed is turned into.  A text is a sequence of characters.          *)
(***************************************************************************)
EXTENDS Integers, Sequences

Alphabet == <<"0", "1", "2", "3", "4", "5", "6", "7", "8", "9", "A", "B", "C", "D", "E", "F",
              "G", "H", "J", "K", "M", "N", "P", "Q", "R", "S", "T", "V", "W", "X", "Y", "Z">>
ALPHABET_LEN == Len(Alphabet)

LowerCase == <<"a", "b", "c", "d", "e", "f", "g", "h", "i", "j", "k", "l", "m",
               "n", "o", "p", "q", "r", "s", "t", "u", "v", "w", "x", "y", "z">>
UpperCase == <<"A", "B", "C", "D", "E", "F", "G", "H", "I", "J", "K", "L", "M",
               "N", "O", "P", "Q", "R", "S", "T", "U", "V", "W", "X", "Y", "Z">>

Places(list, c) == {i \in DOMAIN list : list[i] = c}

\* What a character counts for: a character outside the alphabet counts 0.
Value(c) == IF Places(Alphabet, c) = {} THEN 0 ELSE (CHOOSE i \in Places(Alphabet, c) : TRUE) - 1

\* Mutant of Weight: all places weigh the same.
WeightOne(i) == 1

\* The first place, and every other one from there, counts twice.
Weight(i) == IF i % 2 = 1 THEN 2 ELSE 1

\* The sum after each turn of the loop over data.
Sums(data) ==
    LET sum[i \in 0 .. Len(data)] ==
            IF i = 0 THEN 0 ELSE sum[i - 1] + Weight(i) * Value(data[i])
    IN  sum

\* calculate_checksum
Checksum(data, length) ==
    LET sum == Sums(data)[Len(data)]
    IN  [i \in 1 .. length |-> Alphabet[((sum + (i - 1) * 31) % ALPHABET_LEN) + 1]]

\* ll_validate_key
ValidateKey(key, luhn_len) ==
    LET data_len == Len(key) - luhn_len
    IN  /\ data_len >= 0
        /\ SubSeq(key, data_len + 1, Len(key)) = Checksum(SubSeq(key, 1, data_len), luhn_len)

ToUpper(c) ==
    IF Places(LowerCase, c) = {} THEN c
    ELSE UpperCase[CHOOSE i \in Places(LowerCase, c) : TRUE]

Separators == {"-", " "}

\* The buffer after each turn of the loop over src: separators are skipped, and
\* what does not fit is dropped.
Copied(src, size) ==
    LET dst[i \in 0 .. Len(src)] ==
            IF i = 0 THEN <<>>
            ELSE IF Len(dst[i - 1]) + 1 >= size \/ ToUpper(src[i]) \in Separators
                 THEN dst[i - 1] ELSE Append(dst[i - 1], ToUpper(src[i]))
    IN  dst

\* ll_normalize_key
NormalizeKey(src, size) == Copied(src, size)[Len(src)]

\* Mutant of Fold: the letter L is left alone.
FoldButL(c) == CASE c = "O" -> "0" [] c = "I" -> "1" [] OTHER -> c

\* The letters that the alphabet leaves out are read as the digits they look like.
Fold(c) == CASE c = "O" -> "0" [] c \in {"I", "L"} -> "1" [] OTHER -> c

\* ll_sanitize_key
SanitizeKey(src, size) ==
    LET key == NormalizeKey(src, size) IN [i \in DOMAIN key |-> Fold(key[i])]

-----------------------------------------------------------------------------
(***************************************************************************)
(* What a text spells, as a reader of it would say.                        *)
(***************************************************************************)

\* The ways to read n characters off a text: all but its separators, in order.
Readings(text, n) ==
    {place \in [1 .. n -> DOMAIN text] :
        /\ \A i, j \in 1 .. n : i < j => place[i] < place[j]
        /\ \A p \in DOMAIN text :
            text[p] \in Separators <=> \A i \in 1 .. n : place[i] # p}

\* An alias is spelled in any case.
Spells(text, alias) ==
    \E place \in Readings(text, Len(alias)) :
        \A i \in DOMAIN alias : ToUpper(text[place[i]]) = alias[i]

\* In a native key O also stands for 0, and I and L for 1.
LooksLike(c, k) ==
    \/ c = k
    \/ c = "O" /\ k = "0"
    \/ c \in {"I", "L"} /\ k = "1"

SpellsNative(text, key) ==
    \E place \in Readings(text, Len(key)) :
        \A i \in DOMAIN key : LooksLike(ToUpper(text[place[i]]), key[i])
=============================================================================
