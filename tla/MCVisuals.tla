-------------------------------- MODULE MCVisuals --------------------------------
EXTENDS Visuals

\* The key 00 01 .. 1f with the block 00 11 .. ff of the standard's example, and
\* another pair.
Sample ==
    { << [i \in 0 .. 31 |-> i], [i \in 0 .. 15 |-> 17 * i] >>,
      << [i \in 0 .. 31 |-> (255 - 7 * i) % 256], [i \in 0 .. 15 |-> (37 * i + 5) % 256] >> }

\* A ciphertext of two bytes.
Texts == {<<1, 2>>}
=============================================================================
