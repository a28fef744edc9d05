-------------------------------- MODULE Auth --------------------------------
(***************************************************************************)
(* What ServerClient signs, and how the signature is written.  A text of a *)
(* URL is a sequence of its reserved characters and the words between      *)
(* them.  The HMAC is abstract: any digest.                                *)
(***************************************************************************)
EXTENDS Integers, SequencesExt

\* The text before the first of these characters.
Before(text, characters) ==
  LET i == SelectInSeq(text, LAMBDA c : c \in characters)
  IN  IF i = 0 THEN text ELSE SubSeq(text, 1, i - 1)

After(text, character) ==
  LET i == SelectInSeq(text, LAMBDA c : c = character)
  IN  IF i = 0 THEN <<>> ELSE SubSeq(text, i + 1, Len(text))

\* Mutant of CleanPath: the query is signed as well.
WholePath(path) == path

\* generate_hmac_signature cuts the path at its query.
CleanPath(path) == Before(path, {"?"})
-----------------------------------------------------------------------------
(* base64_encode, in sextets; 64 stands for '='.                           *)

Byte == 0 .. 255
Pad  == 64

\* Mutant of Group: no room is left for the missing bytes.
GroupUnpadded(bytes, i) ==
  LET at(k) == IF k <= Len(bytes) THEN bytes[k] ELSE 0
      n == at(i) * 65536 + at(i + 1) * 256 + at(i + 2)
  IN  <<n \div 262144, (n \div 4096) % 64, (n \div 64) % 64, n % 64>>

\* The four sextets for the three bytes from i on, some of which may be missing.
Group(bytes, i) ==
  LET sextets == GroupUnpadded(bytes, i)
  IN  [sextets EXCEPT ![3] = IF i + 1 <= Len(bytes) THEN @ ELSE Pad,
                      ![4] = IF i + 2 <= Len(bytes) THEN @ ELSE Pad]

Base64(bytes) ==
  FlattenSeq([g \in 1 .. (Len(bytes) + 2) \div 3 |-> Group(bytes, 3 * g - 2)])

\* build_auth_header: the path that is signed, and the HMAC as it is written.
\* The key's name and the time are in it too.
AuthHeader(path, digest) == [signed |-> CleanPath(path), signature |-> Base64(digest)]
NoAuthHeader == [signed |-> <<>>, signature |-> <<>>]

\* RFC 4648's decoder: what stands before the padding is one row of bits, six of
\* each sextet, and a byte is the next eight of them.
Decoded(sextets) ==
  LET data == Before(sextets, {Pad})
      at(k) == (4 * (k - 1)) \div 3 + 1
      below(k) == IF k % 3 = 1 THEN 16 ELSE IF k % 3 = 2 THEN 4 ELSE 1
  IN  [k \in 1 .. (3 * Len(data)) \div 4 |->
         ((data[at(k)] * 64 + data[at(k) + 1]) \div below(k)) % 256]
=============================================================================
