------------------------------- MODULE AESVisual -------------------------------
(***************************************************************************)
(* The AES-256 of the visualisation, AESVisualEngine, which works on       *)
(* arrays of 16 bytes taken column by column, and the four operations as   *)
(* the scene of step 3 animates them, which takes its arrays row by row.   *)
(***************************************************************************)
EXTENDS Integers, Sequences, FiniteSets

Byte == 0 .. 255
Index == 0 .. 15
Keys == [0 .. 31 -> Byte]
Blocks == [Index -> Byte]

SBOX == <<
     99, 124, 119, 123, 242, 107, 111, 197,  48,   1, 103,  43, 254, 215, 171, 118,
    202, 130, 201, 125, 250,  89,  71, 240, 173, 212, 162, 175, 156, 164, 114, 192,
    183, 253, 147,  38,  54,  63, 247, 204,  52, 165, 229, 241, 113, 216,  49,  21,
      4, 199,  35, 195,  24, 150,   5, 154,   7,  18, 128, 226, 235,  39, 178, 117,
      9, 131,  44,  26,  27, 110,  90, 160,  82,  59, 214, 179,  41, 227,  47, 132,
     83, 209,   0, 237,  32, 252, 177,  91, 106, 203, 190,  57,  74,  76,  88, 207,
    208, 239, 170, 251,  67,  77,  51, 133,  69, 249,   2, 127,  80,  60, 159, 168,
     81, 163,  64, 143, 146, 157,  56, 245, 188, 182, 218,  33,  16, 255, 243, 210,
    205,  12,  19, 236,  95, 151,  68,  23, 196, 167, 126,  61, 100,  93,  25, 115,
     96, 129,  79, 220,  34,  42, 144, 136,  70, 238, 184,  20, 222,  94,  11, 219,
    224,  50,  58,  10,  73,   6,  36,  92, 194, 211, 172,  98, 145, 149, 228, 121,
    231, 200,  55, 109, 141, 213,  78, 169, 108,  86, 244, 234, 101, 122, 174,   8,
    186, 120,  37,  46,  28, 166, 180, 198, 232, 221, 116,  31,  75, 189, 139, 138,
    112,  62, 181, 102,  72,   3, 246,  14,  97,  53,  87, 185, 134, 193,  29, 158,
    225, 248, 152,  17, 105, 217, 142, 148, 155,  30, 135, 233, 206,  85,  40, 223,
    140, 161, 137,  13, 191, 230,  66, 104,  65, 153,  45,  15, 176,  84, 187,  22 >>

\* Bit k of a number.
Place == <<1, 2, 4, 8, 16, 32, 64, 128>>
Bit(a, k) == (a \div Place[k + 1]) % 2

Nibble == 0 .. 15
NibbleXor ==
    [a \in Nibble |-> [b \in Nibble |->
        LET bit(k) == Place[k + 1] * ((Bit(a, k) + Bit(b, k)) % 2)
        IN bit(0) + bit(1) + bit(2) + bit(3)]]

\* a ^ b, of bytes.
XorBytes(a, b) == 16 * NibbleXor[a \div 16][b \div 16] + NibbleXor[a % 16][b % 16]

Xor4(a, b, c, d) == XorBytes(XorBytes(a, b), XorBytes(c, d))

SubByte(b) == SBOX[b + 1]

\* A pass of the loop of gmul.  The engine's `a' may grow beyond a byte and its
\* result is cut, the scene cuts `a' each time: the same.
Doubled(a, polynomial) == IF a >= 128 THEN XorBytes((2 * a) % 256, polynomial) ELSE 2 * a
Pass(s, polynomial) ==
    [p |-> IF s.b % 2 = 1 THEN XorBytes(s.p, s.a) ELSE s.p,
     a |-> Doubled(s.a, polynomial),
     b |-> s.b \div 2]

\* The eight passes.
Shifted(a, b, polynomial) ==
    LET after[n \in 0 .. 8] ==
            IF n = 0 THEN [p |-> 0, a |-> a, b |-> b] ELSE Pass(after[n - 1], polynomial)
    IN after[8].p

\* Mutant of gmul: the reduction polynomial is 0x1d, a neighbour in every table.
gmulOtherField(a, b) == Shifted(a, b, 29)

gmul(a, b) == Shifted(a, b, 27)

-----------------------------------------------------------------------------
(* The key schedule; a word is its four bytes, the highest first. *)

rcon == <<1, 2, 4, 8, 16, 32, 64, 128, 27, 54>>

Word(bytes, i) == [k \in 1 .. 4 |-> bytes[4 * i + k - 1]]
XorWords(u, v) == <<XorBytes(u[1], v[1]), XorBytes(u[2], v[2]), XorBytes(u[3], v[3]), XorBytes(u[4], v[4])>>
SubWord(w) == [k \in 1 .. 4 |-> SubByte(w[k])]
RotWord(w) == <<w[2], w[3], w[4], w[1]>>

\* The word i of the schedule, from those before it.
ScheduledWord(words, i) ==
    LET temp == words[i - 1] IN
    XorWords(words[i - 8],
             IF i % 8 = 0
             THEN XorWords(SubWord(RotWord(temp)), <<rcon[i \div 8], 0, 0, 0>>)
             ELSE IF i % 8 = 4 THEN SubWord(temp) ELSE temp)

\* The 60 words, one after the other.
Expanded(key) ==
    LET upTo[n \in 7 .. 59] ==
            IF n = 7 THEN [i \in 0 .. 59 |-> IF i < 8 THEN Word(key, i) ELSE <<0, 0, 0, 0>>]
            ELSE LET words == upTo[n - 1] IN [words EXCEPT ![n] = ScheduledWord(words, n)]
    IN upTo[59]

\* The 15 round keys of a key of 32 bytes.
expandKey(key) ==
    LET words == Expanded(key)
    IN [r \in 0 .. 14 |-> [i \in Index |-> words[4 * r + (i \div 4)][(i % 4) + 1]]]

-----------------------------------------------------------------------------
(* The operations of the engine. *)

AddRoundKey(state, key) == [i \in Index |-> XorBytes(state[i], key[i])]

SubBytes(state) == [i \in Index |-> SubByte(state[i])]

\* The 16 assignments, from row i % 4 on: 0 from 0, 1 from 5, 2 from 10, ...
ShiftRows(state) == [i \in Index |-> state[(i + 4 * (i % 4)) % 16]]

MixColumns(state) ==
    [i \in Index |->
        LET s(k) == state[4 * (i \div 4) + k] IN
        CASE i % 4 = 0 -> Xor4(gmul(s(0), 2), gmul(s(1), 3), s(2), s(3))
          [] i % 4 = 1 -> Xor4(s(0), gmul(s(1), 2), gmul(s(2), 3), s(3))
          [] i % 4 = 2 -> Xor4(s(0), s(1), gmul(s(2), 2), gmul(s(3), 3))
          [] OTHER     -> Xor4(gmul(s(0), 3), s(1), s(2), gmul(s(3), 2))]

\* One round of encryptBlock.
EncryptRound(state, keys, r) ==
    LET shifted == ShiftRows(SubBytes(state)) IN
    AddRoundKey(IF r < 14 THEN MixColumns(shifted) ELSE shifted, keys[r])

\* The first round with its stages, whose loops are written out once more.
runRound1(plaintext, key) ==
    LET keys == expandKey(key)
        input == AddRoundKey(plaintext, keys[0])
        sub == SubBytes(input)
        shifted == ShiftRows(sub)
        mixed == MixColumns(shifted)
    IN [inputState |-> input, subBytesState |-> sub, shiftRowsState |-> shifted,
        mixColumnsState |-> mixed, addRoundKeyState |-> AddRoundKey(mixed, keys[1]),
        roundKey |-> keys[1]]

-----------------------------------------------------------------------------
(* The operations of the scene. *)

\* The byte of row r and column c goes to column (c - r + 4) % 4 of its row.
animateShiftRows(state) ==
    [i \in Index |-> state[4 * (i \div 4) + (((i % 4) + (i \div 4)) % 4)]]

animateMixColumns(state) ==
    [i \in Index |->
        LET s(k) == state[4 * k + (i % 4)]
            factor == << <<2, 3, 1, 1>>, <<1, 2, 3, 1>>, <<1, 1, 2, 3>>, <<3, 1, 1, 2>> >>
            term(k) == gmul(s(k), factor[(i \div 4) + 1][k + 1])
        IN Xor4(term(0), term(1), term(2), term(3))]

\* Each byte with the byte of the same index, of whatever it is handed.
animateAddRoundKey(state, roundKey) == [i \in Index |-> XorBytes(state[i], roundKey[i])]

\* What runAESAnimation leads the scene to: the text as it is, without a first
\* round key, and the key itself where a round key is due.  (The page's sBox is
\* the engine's.)
animatedRound(plain, key) ==
    animateAddRoundKey(animateMixColumns(animateShiftRows(SubBytes(plain))), key)

-----------------------------------------------------------------------------
(* A block on its way through the cipher, beside the standard's. *)

CONSTANTS Inputs   \* pairs of a key and a block to try

ASSUME AESAssumption == Inputs \subseteq Keys \X Blocks

VARIABLES round,     \* -1 before there is an input
          block,     \* state of encryptBlock
          roundKeys,
          firstRound, \* what runRound1 returns for the same input
          picture,   \* what the scene shows for the same input before the avalanche
          standard   \* observer: the input, and the state by the standard's definitions

aesVars == <<round, block, roundKeys, firstRound, picture, standard>>

NoBlock == <<>>

InitAES ==
    round = -1 /\ block = NoBlock /\ roundKeys = NoBlock /\ firstRound = NoBlock
               /\ picture = NoBlock /\ standard = NoBlock

(* FIPS 197, with polynomials over the field of two elements. *)

\* The byte of eight coefficients.
Value(c) == c[0] + 2 * c[1] + 4 * c[2] + 8 * c[3] + 16 * c[4] + 32 * c[5] + 64 * c[6] + 128 * c[7]

\* The coefficients of a product, and what is left of those up to k after
\* division by x^8+x^4+x^3+x+1.
Product(a, b) ==
    [k \in 0 .. 14 |->
        Cardinality({i \in 0 .. 7 : k - i \in 0 .. 7 /\ Bit(a, i) = 1 /\ Bit(b, k - i) = 1}) % 2]
Reduced(c, k) ==
    [i \in 0 .. k - 1 |-> IF k - i \in {4, 5, 7, 8} THEN (c[i] + c[k]) % 2 ELSE c[i]]
Remainder(c) ==
    Reduced(Reduced(Reduced(Reduced(Reduced(Reduced(Reduced(c, 14), 13), 12), 11), 10), 9), 8)
Times(a, b) == Value(Remainder(Product(a, b)))

\* The inverse of b, which is b ^ 254, or 0 for 0: b times b ^ 2 is b ^ 3, and so on.
Inverted(b) ==
    LET square(a) == Times(a, a)
        next(a) == Times(square(a), b)
    IN square(next(next(next(next(next(next(b)))))))

\* Its affine image.
StandardSub ==
    [b \in 0 .. 255 |->
        LET inverse == Inverted(b)
            bit(i) == (Bit(inverse, i) + Bit(inverse, (i + 4) % 8) + Bit(inverse, (i + 5) % 8)
                       + Bit(inverse, (i + 6) % 8) + Bit(inverse, (i + 7) % 8) + Bit(99, i)) % 2
        IN Value([i \in 0 .. 7 |-> bit(i)])]

\* The table is this image, entry by entry.
ASSUME SBOXAssumption ==
    \A b \in Byte : SubByte(b) \in Byte /\ SubByte(b) = StandardSub[b]

\* x^(n-1), which needs no reduction for n up to 7.
StandardRcon(n) == Place[n]

\* The byte in row r and column c of the state.
At(state, r, c) == state[r + 4 * c]

\* The words of round keys, and what each must be.
WordOf(keys, i) == [k \in 0 .. 3 |-> keys[i \div 4][4 * (i % 4) + k]]
StandardWord(keys, i) ==
    LET last == WordOf(keys, i - 1)
        mixed(k) ==
            IF i % 8 = 0 THEN XorBytes(StandardSub[last[(k + 1) % 4]],
                                       IF k = 0 THEN StandardRcon(i \div 8) ELSE 0)
            ELSE IF i % 8 = 4 THEN StandardSub[last[k]] ELSE last[k]
    IN [k \in 0 .. 3 |-> XorBytes(WordOf(keys, i - 8)[k], mixed(k))]

IsSchedule(keys, key) ==
    /\ \A i \in 0 .. 7 : WordOf(keys, i) = [k \in 0 .. 3 |-> key[4 * i + k]]
    /\ \A i \in 8 .. 59 : WordOf(keys, i) = StandardWord(keys, i)

StandardRound(state, keys, r) ==
    LET sub == [i \in Index |-> StandardSub[state[i]]]
        shifted == [i \in Index |-> At(sub, i % 4, ((i \div 4) + (i % 4)) % 4)]
        circulant(i, k) == <<2, 3, 1, 1>>[((k - i + 4) % 4) + 1]
        term(c, i, k) == Times(circulant(i, k), At(shifted, k, c))
        column(c, i) == Xor4(term(c, i, 0), term(c, i, 1), term(c, i, 2), term(c, i, 3))
    IN [i \in Index |-> XorBytes(IF r < 14 THEN column(i \div 4, i % 4) ELSE shifted[i], keys[r][i])]

(* The steps. *)

\* encryptBlock expands the key and adds the first round key.
Begin ==
    /\ round = -1
    /\ \E input \in Inputs :
         LET key == input[1]
             plain == input[2]
         IN /\ roundKeys' = expandKey(key)
            /\ block' = AddRoundKey(plain, roundKeys'[0])
            /\ firstRound' = runRound1(plain, key)
            /\ picture' = animatedRound(plain, key)
            /\ standard' = [key |-> key, plain |-> plain,
                            state |-> [i \in Index |-> XorBytes(plain[i], key[i])]]
    /\ round' = 0

\* A pass of its loop, or the last round after it.
NextRound ==
    /\ round \in 0 .. 13
    /\ round' = round + 1
    /\ block' = EncryptRound(block, roundKeys, round')
    /\ standard' = [standard EXCEPT !.state = StandardRound(@, roundKeys, round')]
    /\ UNCHANGED <<roundKeys, firstRound, picture>>

AESStep == Begin \/ NextRound

-----------------------------------------------------------------------------

\* Rows for columns; of a key, its first 16 bytes.
Transposed(state) == [i \in Index |-> state[4 * (i % 4) + (i \div 4)]]

\* One round of the standard, with the same round key wherever one is due.
PlainRound(state, key) == StandardRound(state, [r \in 0 .. 14 |-> key], 1)

\* Round keys and states are those of the standard, round by round: the table
\* is the affine image of the inverse, gmul multiplies in the field, and the
\* indices of the 16 assignments are right; what runRound1 returns in stages is
\* the first of them.  The scene does not show that round, but one of its own: a
\* round of the standard, without a round key before it, of the text and the
\* first half of the key, both read by rows where the cipher reads by columns.
IsStandard ==
    round >= 0 =>
        /\ IsSchedule(roundKeys, standard.key)
        /\ block = standard.state
        /\ round = 0 => firstRound.inputState = standard.state
        /\ round = 1 => firstRound.addRoundKeyState = standard.state
        /\ firstRound.roundKey = roundKeys[1]
        /\ picture = Transposed(PlainRound(Transposed(standard.plain), Transposed(standard.key)))

=============================================================================
