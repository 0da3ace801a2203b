------------------------------- MODULE Secrets -------------------------------
(***************************************************************************)
(* The secret of a second factor as the text an authenticator app is given *)
(* and as the bytes read back at every sign-in (lib/totp.ts).  Both ways   *)
(* go through one accumulator that is shifted and never cleared: a secret  *)
(* of 20 bytes is longer than it, and the bits shifted out are lost.  As   *)
(* in Rules a behaviour asks one question.                                 *)
(***************************************************************************)
EXTENDS Integers, Sequences, SequencesExt

CONSTANTS Byte, MaxBytes,  \* the bytes that are tried, and how many in a row
          Width,           \* bits of the accumulator, 32 in JavaScript
          None

VARIABLE question

Init == question = None
-----------------------------------------------------------------------------
(* The accumulator takes n more bits and gives whole groups of m, the highest first; bits
   counts those it has not given. *)
Taken(s, x, n, m) ==
    LET value == (s.value * 2^n + x) % 2^Width
        bits  == s.bits + n
        group == [i \in 1..(bits \div m) |-> (value \div 2^(bits - m * i)) % 2^m]
    IN  [value |-> value, bits |-> bits % m, out |-> s.out \o group]

Empty == [value |-> 0, bits |-> 0, out |-> <<>>]

(* One item after the other, n bits each, in groups of m. *)
Regrouped(items, n, m) ==
    LET s[k \in 0..Len(items)] == IF k = 0 THEN Empty ELSE Taken(s[k - 1], items[k], n, m)
    IN  s[Len(items)]

(* A text is the sequence of its letters' places in the alphabet.  Zeros fill the last. *)
base32Encode(bytes) ==
    LET s == Regrouped(bytes, 8, 5)
    IN  IF s.bits > 0 THEN Append(s.out, (s.value * 2^(5 - s.bits)) % 2^5) ELSE s.out

(* What is left over at the end is dropped. *)
base32Decode(text) == Regrouped(text, 5, 8).out

Next ==
    /\ question = None
    /\ \E bytes \in SeqOf(Byte, MaxBytes) : question' = [secret |-> bytes]

Spec == Init /\ [][Next]_question
-----------------------------------------------------------------------------
(* Every sign-in computes with the secret that was made, whatever was shifted out of the
   accumulator on the way (totp.ts:24, :39). *)
SecretReadBack ==
    question # None =>
        LET text == base32Encode(question.secret)
        IN  base32Decode(text) = question.secret /\ \A i \in DOMAIN text : text[i] < 32
=============================================================================
