------------------------------ MODULE MCDocIndex ------------------------------
(* Instances of DocIndex for TLC: sets of two or three chunks that share a  *)
(* hash, so that only the rest of their contents tells them apart.          *)
EXTENDS DocIndex

CONSTANTS letter, tax, hash, one, two, m1, m2

Says(consent, names) ==
    [consent |-> consent, confidential |-> FALSE, names |-> names, sha256 |-> Missing]
Chunk(source, text) ==
    [consent |-> source.consent, confidential |-> source.confidential,
     names |-> source.names, sha256 |-> hash, text |-> text]

\* A letter, and the same letter cut into fewer chunks, the first one blank.
Letter  == [own |-> Says(Missing, {letter}),
            chunks |-> <<Chunk(Says(FALSE, {}), one), Chunk(Says(FALSE, {}), two)>>]
\* The document is a tax return after all, with consent.
Return  == [own |-> Says(TRUE, {letter}),
            chunks |-> <<Chunk(Says(TRUE, {tax}), one), Chunk(Says(TRUE, {}), two)>>]
\* One of its chunks says nothing of consent, and nothing says what it is.
Unsure  == [own |-> Says(TRUE, {Blank}),
            chunks |-> <<Chunk(Says(TRUE, {}), one), Chunk(Says(Missing, {}), two)>>]
\* Chunked anew: a blank first chunk.
Shorter == [own |-> Says(Missing, {letter}),
            chunks |-> <<Chunk(Says(FALSE, {}), Blank), Chunk(Says(FALSE, {}), two)>>]
\* Without a hash it is written again by every run.
NoHash  == [own |-> Says(Missing, {letter}),
            chunks |-> <<[Chunk(Says(FALSE, {}), one) EXCEPT !.sha256 = Missing]>>]
\* No text at all.
Empty   == [own |-> Says(Missing, {letter}), chunks |-> <<>>]
\* Chunks that disagree about the hash.
Clash   == [own |-> [Says(Missing, {letter}) EXCEPT !.sha256 = one],
            chunks |-> <<Chunk(Says(FALSE, {}), one)>>]

MCFiles == {Letter, Return, Unsure, Shorter, NoHash, Empty, Clash}
MCMixed == {Letter, Return}
==============================================================================
