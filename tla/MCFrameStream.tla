--------------------------- MODULE MCFrameStream ---------------------------
(* Small instances of FrameStream for TLC: the bytes 2 and 3 are the magic, *)
(* 0 and 1 good lengths.                                                    *)
EXTENDS FrameStream, SequencesExt

TwoThree == <<2, 3>>

SomeCrc(bytes) == FoldLeft(LAMBDA crc, b : (2 * crc + b + 1) % 4, 0, bytes)

SomeNoise == {<<0>>, <<2>>, <<1, 3, 2>>, <<0, 3, 1, 1, 0, 2>>}

\* Cut short, too long, not intact, and a second magic where a length should be.
SomeGarbage == {<<2, 3>>, <<2, 3, 1>>, <<2, 3, 3>>, <<2, 3, 2, 0, 0>>, <<2, 3, 0, 0>>,
                <<2, 3, 2, 3, 0>>}
=============================================================================
