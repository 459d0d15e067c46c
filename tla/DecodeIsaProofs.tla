--------------------------- MODULE DecodeIsaProofs ---------------------------
(***************************************************************************)
(* The decoder against the ISA, for every word: the invariants of Decode   *)
(* as theorems of its specification. DecodeProofs has the immediates.      *)
(***************************************************************************)
EXTENDS DecodeProofs, Induction

\* The terms of the number Num(w, p, n), bit by bit.
Terms(w, p, n) == [k \in 1 .. n |-> 2 ^ (k - 1) * w[p + k - 1]]

\* Num is the sum of its terms.
LEMMA NumIsSum ==
  ASSUME NEW w, NEW p \in Nat, NEW n \in Nat
  PROVE  \E v : IsSum(v, Terms(w, p, n), n) /\ Num(w, p, n) = v[n]
<1> DEFINE Body(v) ==
             [k \in 0 .. n |->
                IF k = 0 THEN 0
                ELSE v[k - 1] + 2 ^ (k - 1) * w[p + k - 1]]
           c == CHOOSE v : v = Body(v)
<1>1. ASSUME NEW v PROVE IsSum(v, Terms(w, p, n), n) <=> v = Body(v)
  <2>1. \A k \in 0 .. n : k = 0 \/ k \in 1 .. n
    OBVIOUS
  <2>2. \A k \in 1 .. n : Terms(w, p, n)[k] = 2 ^ (k - 1) * w[p + k - 1]
    BY DEF Terms
  <2>3. Body(v) = [k \in 0 .. n |-> IF k = 0 THEN 0
                                     ELSE v[k - 1] + Terms(w, p, n)[k]]
    BY <2>1, <2>2
  <2> QED BY <2>3 DEF IsSum
<1>2. \E v : v = Body(v)
  BY <1>1, SumExists
<1>3. c = Body(c)
  <2> HIDE DEF Body
  <2> QED BY <1>2
<1>4. Num(w, p, n) = c[n]
  BY DEF Num
<1> QED BY <1>1, <1>3, <1>4

\* Num grows by the next bit.
LEMMA NumStep ==
  ASSUME NEW w, NEW p \in Nat, NEW n \in Nat
  PROVE  Num(w, p, n + 1) = Num(w, p, n) + 2 ^ n * w[p + n]
<1>1. PICK v : IsSum(v, Terms(w, p, n), n) /\ Num(w, p, n) = v[n]
  BY NumIsSum
<1>2. PICK u : /\ IsSum(u, Terms(w, p, n + 1), n + 1)
               /\ Num(w, p, n + 1) = u[n + 1]
  BY NumIsSum
<1>3. n + 1 \in Nat /\ n <= n + 1 /\ n \in 0 .. n /\ n \in 0 .. (n + 1) - 1
  OBVIOUS
<1>4. \A k \in 1 .. n : Terms(w, p, n)[k] = Terms(w, p, n + 1)[k]
  BY DEF Terms
<1>5. v[n] = u[n]
  <2> DEFINE m == n + 1
  <2>1. m \in Nat /\ n <= m /\ IsSum(u, Terms(w, p, m), m)
    BY <1>2, <1>3
  <2>2. \A k \in 1 .. n : Terms(w, p, n)[k] = Terms(w, p, m)[k]
    BY <1>4
  <2> HIDE DEF m
  <2>3. \A k \in 0 .. n : v[k] = u[k]
    BY <1>1, <2>1, <2>2, SumUnique
  <2> QED BY <1>3, <2>3
<1>6. u[n + 1] = u[n] + Terms(w, p, n + 1)[n + 1]
  BY <1>2, <1>3, SumEquations
<1>7. Terms(w, p, n + 1)[n + 1] = 2 ^ n * w[p + n]
  <2>1. /\ n + 1 \in 1 .. n + 1 /\ (n + 1) - 1 = n
        /\ p + (n + 1) - 1 = p + n
    OBVIOUS
  <2> QED BY <2>1 DEF Terms
<1> QED BY <1>1, <1>2, <1>5, <1>6, <1>7

\* The number in no bits.
LEMMA NumZero ==
  ASSUME NEW w, NEW p \in Nat
  PROVE  Num(w, p, 0) = 0
<1>1. PICK v : IsSum(v, Terms(w, p, 0), 0) /\ Num(w, p, 0) = v[0]
  BY NumIsSum
<1> QED BY <1>1, SumEquations

\* Two words with the same bits have the same number.
LEMMA NumSame ==
  ASSUME NEW w, NEW x, NEW p \in Nat, NEW n \in Nat,
         \A b \in p .. p + n - 1 : w[b] = x[b]
  PROVE  Num(w, p, n) = Num(x, p, n)
<1>1. PICK v : IsSum(v, Terms(w, p, n), n) /\ Num(w, p, n) = v[n]
  BY NumIsSum
<1>2. PICK u : IsSum(u, Terms(x, p, n), n) /\ Num(x, p, n) = u[n]
  BY NumIsSum
<1>3. \A k \in 1 .. n : Terms(w, p, n)[k] = Terms(x, p, n)[k]
  <2> TAKE k \in 1 .. n
  <2>1. p + k - 1 \in p .. p + n - 1
    OBVIOUS
  <2>2. w[p + k - 1] = x[p + k - 1]
    BY <2>1
  <2> QED BY <2>2 DEF Terms
<1>4. n <= n /\ n \in 0 .. n
  OBVIOUS
<1>5. \A k \in 0 .. n : v[k] = u[k]
  BY <1>1, <1>2, <1>3, <1>4, SumUnique
<1> QED BY <1>1, <1>2, <1>4, <1>5

\* The number in bits of a word is an integer.
LEMMA NumInt ==
  ASSUME NEW w, NEW p \in Nat, NEW n \in Nat,
         \A k \in 0 .. n - 1 : w[p + k] \in Int
  PROVE  Num(w, p, n) \in Int
<1>1. PICK v : IsSum(v, Terms(w, p, n), n) /\ Num(w, p, n) = v[n]
  BY NumIsSum
<1>2. ASSUME NEW k \in 1 .. n PROVE Terms(w, p, n)[k] \in Int
  <2>1. k - 1 \in 0 .. n - 1 /\ k - 1 \in Nat /\ p + (k - 1) = p + k - 1
    OBVIOUS
  <2>2. w[p + k - 1] \in Int
    BY <2>1
  <2>3. 2 ^ (k - 1) \in Int
    BY <2>1
  <2> QED BY <2>2, <2>3 DEF Terms
<1>3. n \in 0 .. n
  OBVIOUS
<1> QED BY <1>1, <1>2, <1>3, SumInt

-----------------------------------------------------------------------------
\* The numbers in a few bits, as sums.
LEMMA NumSmall ==
  ASSUME NEW w \in Word, NEW p \in 0 .. 29
  PROVE  /\ Num(w, p, 1) = w[p]
         /\ Num(w, p, 2) = w[p] + 2 * w[p + 1]
         /\ Num(w, p, 3) = w[p] + 2 * w[p + 1] + 4 * w[p + 2]
<1> USE DEF Word, Bit
<1>1. w[p] \in Int /\ w[p + 1] \in Int /\ w[p + 2] \in Int
  OBVIOUS
<1>2. Num(w, p, 1) = w[p]
  <2>1. Num(w, p, 0 + 1) = Num(w, p, 0) + 2 ^ 0 * w[p + 0]
    BY ONLY NumStep, p \in Nat, 0 \in Nat, Zenon
  <2> QED BY <1>1, <2>1, NumZero
<1>3. Num(w, p, 2) = w[p] + 2 * w[p + 1]
  <2>1. Num(w, p, 1 + 1) = Num(w, p, 1) + 2 ^ 1 * w[p + 1]
    BY ONLY NumStep, p \in Nat, 1 \in Nat, Zenon
  <2> QED BY <1>1, <1>2, <2>1
<1>4. Num(w, p, 3) = w[p] + 2 * w[p + 1] + 4 * w[p + 2]
  <2>1. Num(w, p, 2 + 1) = Num(w, p, 2) + 2 ^ 2 * w[p + 2]
    BY ONLY NumStep, p \in Nat, 2 \in Nat, Zenon
  <2> QED BY <1>1, <1>3, <2>1
<1> QED BY <1>2, <1>3, <1>4

\* Five bits: a register or a funct5.
LEMMA NumFive ==
  ASSUME NEW w \in Word, NEW p \in 0 .. 27
  PROVE  Num(w, p, 5) = w[p] + 2 * w[p + 1] + 4 * w[p + 2] + 8 * w[p + 3]
                        + 16 * w[p + 4]
<1>1. /\ w[p] \in Int /\ w[p + 1] \in Int /\ w[p + 2] \in Int
      /\ w[p + 3] \in Int /\ w[p + 4] \in Int
  BY DEF Word, Bit
<1>2. Num(w, p, 3) = w[p] + 2 * w[p + 1] + 4 * w[p + 2]
  BY NumSmall
<1>3. Num(w, p, 3 + 1) = Num(w, p, 3) + 2 ^ 3 * w[p + 3]
  BY ONLY NumStep, p \in Nat, 3 \in Nat, Zenon
<1>4. Num(w, p, 4 + 1) = Num(w, p, 4) + 2 ^ 4 * w[p + 4]
  BY ONLY NumStep, p \in Nat, 4 \in Nat, Zenon
<1> QED BY <1>1, <1>2, <1>3, <1>4

\* Five bits make a number below 32.
LEMMA FiveBits ==
  ASSUME NEW a \in Bit, NEW b \in Bit, NEW c \in Bit, NEW d \in Bit,
         NEW e \in Bit
  PROVE  a + 2 * b + 4 * c + 8 * d + 16 * e \in 0 .. 31
  BY DEF Bit

\* The ranges of the fields.
LEMMA NumRange ==
  ASSUME NEW w \in Word
  PROVE  /\ \A p \in 0 .. 29 : Num(w, p, 2) \in 0 .. 3 /\ Num(w, p, 3) \in 0 .. 7
         /\ \A p \in 0 .. 27 : Num(w, p, 5) \in 0 .. 31
<1>1. ASSUME NEW p \in 0 .. 29
      PROVE  Num(w, p, 2) \in 0 .. 3 /\ Num(w, p, 3) \in 0 .. 7
  <2>1. w[p] \in Bit /\ w[p + 1] \in Bit /\ w[p + 2] \in Bit
    BY DEF Word
  <2> QED BY <2>1, NumSmall DEF Bit
<1>2. ASSUME NEW p \in 0 .. 27 PROVE Num(w, p, 5) \in 0 .. 31
  <2>1. /\ w[p] \in Bit /\ w[p + 1] \in Bit /\ w[p + 2] \in Bit
        /\ w[p + 3] \in Bit /\ w[p + 4] \in Bit
    BY DEF Word
  <2>2. w[p] + 2 * w[p + 1] + 4 * w[p + 2] + 8 * w[p + 3] + 16 * w[p + 4]
          \in 0 .. 31
    BY <2>1, FiveBits
  <2> QED BY <2>2, NumFive
<1> QED BY <1>1, <1>2

\* The seven bits of a funct7 begin with the six and the five that the
\* switches of decode_insn32 look at.
LEMMA NumSeven ==
  ASSUME NEW w \in Word, NEW p \in 0 .. 25
  PROVE  /\ Num(w, p, 7) = w[p] + 2 * Num(w, p + 1, 6)
         /\ Num(w, p, 7) = w[p] + 2 * w[p + 1] + 4 * Num(w, p + 2, 5)
         /\ Num(w, p, 7) \in 0 .. 127
         /\ Num(w, p + 1, 6) \in 0 .. 63
<1>1. \A k \in 0 .. 6 : w[p + k] \in Bit
  BY DEF Word
<1>2. /\ w[p] \in Bit /\ w[p + 1] \in Bit /\ w[p + 2] \in Bit
      /\ w[p + 3] \in Bit /\ w[p + 4] \in Bit /\ w[p + 5] \in Bit
      /\ w[p + 6] \in Bit
  BY <1>1
<1>3. Num(w, p, 7) = w[p] + 2 * w[p + 1] + 4 * w[p + 2] + 8 * w[p + 3]
                     + 16 * w[p + 4] + 32 * w[p + 5] + 64 * w[p + 6]
  <2>1. Num(w, p, 5 + 1) = Num(w, p, 5) + 2 ^ 5 * w[p + 5]
    BY ONLY NumStep, p \in Nat, 5 \in Nat, Zenon
  <2>2. Num(w, p, 6 + 1) = Num(w, p, 6) + 2 ^ 6 * w[p + 6]
    BY ONLY NumStep, p \in Nat, 6 \in Nat, Zenon
  <2>3. Num(w, p, 5) = w[p] + 2 * w[p + 1] + 4 * w[p + 2] + 8 * w[p + 3]
                       + 16 * w[p + 4]
    BY NumFive
  <2> QED BY <1>2, <2>1, <2>2, <2>3 DEF Bit
<1>4. Num(w, p + 1, 6) = w[p + 1] + 2 * w[p + 2] + 4 * w[p + 3]
                         + 8 * w[p + 4] + 16 * w[p + 5] + 32 * w[p + 6]
  <2>1. Num(w, p + 1, 5 + 1) = Num(w, p + 1, 5) + 2 ^ 5 * w[(p + 1) + 5]
    BY NumStep, p + 1 \in Nat
  <2>2. Num(w, p + 1, 5) = w[p + 1] + 2 * w[(p + 1) + 1] + 4 * w[(p + 1) + 2]
                           + 8 * w[(p + 1) + 3] + 16 * w[(p + 1) + 4]
    BY NumFive, p + 1 \in 0 .. 27
  <2> QED BY <1>2, <2>1, <2>2 DEF Bit
<1>5. Num(w, p + 2, 5) = w[p + 2] + 2 * w[p + 3] + 4 * w[p + 4]
                         + 8 * w[p + 5] + 16 * w[p + 6]
  <2>1. Num(w, p + 2, 5) = w[p + 2] + 2 * w[(p + 2) + 1] + 4 * w[(p + 2) + 2]
                           + 8 * w[(p + 2) + 3] + 16 * w[(p + 2) + 4]
    BY NumFive, p + 2 \in 0 .. 27
  <2> QED BY <1>2, <2>1
<1> QED BY <1>2, <1>3, <1>4, <1>5 DEF Bit
-----------------------------------------------------------------------------
\* r is one of the rows of a list of eight names.
IsRow(names, f, o, s, r) ==
  \/ names[1] # "" /\ r = <<names[1], f, o, {0}, s>>
  \/ names[2] # "" /\ r = <<names[2], f, o, {1}, s>>
  \/ names[3] # "" /\ r = <<names[3], f, o, {2}, s>>
  \/ names[4] # "" /\ r = <<names[4], f, o, {3}, s>>
  \/ names[5] # "" /\ r = <<names[5], f, o, {4}, s>>
  \/ names[6] # "" /\ r = <<names[6], f, o, {5}, s>>
  \/ names[7] # "" /\ r = <<names[7], f, o, {6}, s>>
  \/ names[8] # "" /\ r = <<names[8], f, o, {7}, s>>

\* Numbered is those rows.
LEMMA NumberedRows ==
  ASSUME NEW names, DOMAIN names = 1 .. 8, NEW f, NEW o, NEW s, NEW r
  PROVE  r \in Numbered(names, f, o, s) <=> IsRow(names, f, o, s, r)
<1> DEFINE Row(n) == names[n] # "" /\ r = <<names[n], f, o, {n - 1}, s>>
<1>1. r \in Numbered(names, f, o, s) <=> \E n \in 1 .. 8 : Row(n)
  BY DEF Numbered
<1>2. (\E n \in 1 .. 8 : Row(n)) <=>
        Row(1) \/ Row(2) \/ Row(3) \/ Row(4) \/ Row(5) \/ Row(6) \/ Row(7)
        \/ Row(8)
  <2> HIDE DEF Row
  <2>1. \A n \in 1 .. 8 : n = 1 \/ n = 2 \/ n = 3 \/ n = 4 \/ n = 5 \/ n = 6
                          \/ n = 7 \/ n = 8
    OBVIOUS
  <2>2. /\ 1 \in 1 .. 8 /\ 2 \in 1 .. 8 /\ 3 \in 1 .. 8 /\ 4 \in 1 .. 8
        /\ 5 \in 1 .. 8 /\ 6 \in 1 .. 8 /\ 7 \in 1 .. 8 /\ 8 \in 1 .. 8
    OBVIOUS
  <2> QED BY <2>1, <2>2, Zenon
<1>3. /\ 1 - 1 = 0 /\ 2 - 1 = 1 /\ 3 - 1 = 2 /\ 4 - 1 = 3
      /\ 5 - 1 = 4 /\ 6 - 1 = 5 /\ 7 - 1 = 6 /\ 8 - 1 = 7
  OBVIOUS
<1> QED BY <1>1, <1>2, <1>3 DEF IsRow



\* LoadRows, row by row.
LEMMA LoadRowsList ==
  ASSUME NEW r
  PROVE  r \in LoadRows <=>
           r \in {<<"lb", "I", 3, {0}, Any7>>, <<"lh", "I", 3, {1}, Any7>>,
                  <<"lw", "I", 3, {2}, Any7>>, <<"ld", "I", 3, {3}, Any7>>,
                  <<"lbu", "I", 3, {4}, Any7>>, <<"lhu", "I", 3, {5}, Any7>>,
                  <<"lwu", "I", 3, {6}, Any7>>}
<1> DEFINE a == <<"lb", "lh", "lw", "ld", "lbu", "lhu", "lwu", "">>
<1>a1. DOMAIN a = 1 .. 8
  OBVIOUS
<1>a2. /\ a[1] = "lb" /\ a[2] = "lh" /\ a[3] = "lw" /\ a[4] = "ld" /\
         a[5] = "lbu" /\ a[6] = "lhu" /\ a[7] = "lwu" /\ a[8] = ""
  OBVIOUS
<1>0. r \in LoadRows <=>
        \/ r \in Numbered(a, "I", 3, Any7)
  BY DEF LoadRows
<1> HIDE DEF a
<1>a3. r \in Numbered(a, "I", 3, Any7) <=> IsRow(a, "I", 3, Any7, r)
  BY ONLY <1>a1, NumberedRows, Zenon
<1>a4. IsRow(a, "I", 3, Any7, r) <=>
        r \in {<<"lb", "I", 3, {0}, Any7>>, <<"lh", "I", 3, {1}, Any7>>,
               <<"lw", "I", 3, {2}, Any7>>, <<"ld", "I", 3, {3}, Any7>>,
               <<"lbu", "I", 3, {4}, Any7>>, <<"lhu", "I", 3, {5}, Any7>>,
               <<"lwu", "I", 3, {6}, Any7>>}
  BY <1>a2 DEF IsRow
<1> QED BY ONLY <1>0, <1>a3, <1>a4, Zenon

\* ImmRows, row by row.
LEMMA ImmRowsList ==
  ASSUME NEW r
  PROVE  r \in ImmRows <=>
           \/ r \in {<<"addi", "I", 19, {0}, Any7>>,
                     <<"slti", "I", 19, {2}, Any7>>,
                     <<"sltiu", "I", 19, {3}, Any7>>,
                     <<"xori", "I", 19, {4}, Any7>>,
                     <<"ori", "I", 19, {6}, Any7>>,
                     <<"andi", "I", 19, {7}, Any7>>}
           \/ r \in {<<"slli", "H6", 19, {1}, {0, 1}>>,
                     <<"srli", "H6", 19, {5}, {0, 1}>>,
                     <<"srai", "H6", 19, {5}, {32, 33}>>}
<1> DEFINE a == <<"addi", "", "slti", "sltiu", "xori", "", "ori", "andi">>
<1>a1. DOMAIN a = 1 .. 8
  OBVIOUS
<1>a2. /\ a[1] = "addi" /\ a[2] = "" /\ a[3] = "slti" /\ a[4] = "sltiu" /\
         a[5] = "xori" /\ a[6] = "" /\ a[7] = "ori" /\ a[8] = "andi"
  OBVIOUS
<1>0. r \in ImmRows <=>
        \/ r \in Numbered(a, "I", 19, Any7)
        \/ r \in {<<"slli", "H6", 19, {1}, {0, 1}>>,
                  <<"srli", "H6", 19, {5}, {0, 1}>>,
                  <<"srai", "H6", 19, {5}, {32, 33}>>}
  BY DEF ImmRows
<1> HIDE DEF a
<1>a3. r \in Numbered(a, "I", 19, Any7) <=> IsRow(a, "I", 19, Any7, r)
  BY ONLY <1>a1, NumberedRows, Zenon
<1>a4. IsRow(a, "I", 19, Any7, r) <=>
        r \in {<<"addi", "I", 19, {0}, Any7>>,
               <<"slti", "I", 19, {2}, Any7>>,
               <<"sltiu", "I", 19, {3}, Any7>>,
               <<"xori", "I", 19, {4}, Any7>>, <<"ori", "I", 19, {6}, Any7>>,
               <<"andi", "I", 19, {7}, Any7>>}
  BY <1>a2 DEF IsRow
<1> QED BY ONLY <1>0, <1>a3, <1>a4, Zenon

\* Imm32Rows, row by row.
LEMMA Imm32RowsList ==
  ASSUME NEW r
  PROVE  r \in Imm32Rows <=>
           r \in {<<"addiw", "I", 27, {0}, Any7>>,
                  <<"slliw", "H5", 27, {1}, {0}>>,
                  <<"srliw", "H5", 27, {5}, {0}>>,
                  <<"sraiw", "H5", 27, {5}, {32}>>}
  BY DEF Imm32Rows

\* StoreRows, row by row.
LEMMA StoreRowsList ==
  ASSUME NEW r
  PROVE  r \in StoreRows <=>
           r \in {<<"sb", "S", 35, {0}, Any7>>, <<"sh", "S", 35, {1}, Any7>>,
                  <<"sw", "S", 35, {2}, Any7>>, <<"sd", "S", 35, {3}, Any7>>}
<1> DEFINE a == <<"sb", "sh", "sw", "sd", "", "", "", "">>
<1>a1. DOMAIN a = 1 .. 8
  OBVIOUS
<1>a2. /\ a[1] = "sb" /\ a[2] = "sh" /\ a[3] = "sw" /\ a[4] = "sd" /\
         a[5] = "" /\ a[6] = "" /\ a[7] = "" /\ a[8] = ""
  OBVIOUS
<1>0. r \in StoreRows <=>
        \/ r \in Numbered(a, "S", 35, Any7)
  BY DEF StoreRows
<1> HIDE DEF a
<1>a3. r \in Numbered(a, "S", 35, Any7) <=> IsRow(a, "S", 35, Any7, r)
  BY ONLY <1>a1, NumberedRows, Zenon
<1>a4. IsRow(a, "S", 35, Any7, r) <=>
        r \in {<<"sb", "S", 35, {0}, Any7>>, <<"sh", "S", 35, {1}, Any7>>,
               <<"sw", "S", 35, {2}, Any7>>, <<"sd", "S", 35, {3}, Any7>>}
  BY <1>a2 DEF IsRow
<1> QED BY ONLY <1>0, <1>a3, <1>a4, Zenon

\* RegRows, row by row.
LEMMA RegRowsList ==
  ASSUME NEW r
  PROVE  r \in RegRows <=>
           \/ r \in {<<"add", "R", 51, {0}, {0}>>,
                     <<"sll", "R", 51, {1}, {0}>>,
                     <<"slt", "R", 51, {2}, {0}>>,
                     <<"sltu", "R", 51, {3}, {0}>>,
                     <<"xor", "R", 51, {4}, {0}>>,
                     <<"srl", "R", 51, {5}, {0}>>,
                     <<"or", "R", 51, {6}, {0}>>,
                     <<"and", "R", 51, {7}, {0}>>}
           \/ r \in {<<"sub", "R", 51, {0}, {32}>>,
                     <<"sra", "R", 51, {5}, {32}>>}
           \/ r \in {<<"mul", "R", 51, {0}, {1}>>,
                     <<"mulh", "R", 51, {1}, {1}>>,
                     <<"mulhsu", "R", 51, {2}, {1}>>,
                     <<"mulhu", "R", 51, {3}, {1}>>,
                     <<"div", "R", 51, {4}, {1}>>,
                     <<"divu", "R", 51, {5}, {1}>>,
                     <<"rem", "R", 51, {6}, {1}>>,
                     <<"remu", "R", 51, {7}, {1}>>}
<1> DEFINE a == <<"add", "sll", "slt", "sltu", "xor", "srl", "or", "and">>
           b == <<"sub", "", "", "", "", "sra", "", "">>
           c == <<"mul", "mulh", "mulhsu", "mulhu", "div", "divu", "rem", "remu">>
<1>a1. DOMAIN a = 1 .. 8
  OBVIOUS
<1>a2. /\ a[1] = "add" /\ a[2] = "sll" /\ a[3] = "slt" /\ a[4] = "sltu" /\
         a[5] = "xor" /\ a[6] = "srl" /\ a[7] = "or" /\ a[8] = "and"
  OBVIOUS
<1>b1. DOMAIN b = 1 .. 8
  OBVIOUS
<1>b2. /\ b[1] = "sub" /\ b[2] = "" /\ b[3] = "" /\ b[4] = "" /\
         b[5] = "" /\ b[6] = "sra" /\ b[7] = "" /\ b[8] = ""
  OBVIOUS
<1>c1. DOMAIN c = 1 .. 8
  OBVIOUS
<1>c2. /\ c[1] = "mul" /\ c[2] = "mulh" /\ c[3] = "mulhsu" /\
         c[4] = "mulhu" /\ c[5] = "div" /\ c[6] = "divu" /\
         c[7] = "rem" /\ c[8] = "remu"
  OBVIOUS
<1>0. r \in RegRows <=>
        \/ r \in Numbered(a, "R", 51, {0})
        \/ r \in Numbered(b, "R", 51, {32})
        \/ r \in Numbered(c, "R", 51, {1})
  BY DEF RegRows
<1> HIDE DEF a, b, c
<1>a3. r \in Numbered(a, "R", 51, {0}) <=> IsRow(a, "R", 51, {0}, r)
  BY ONLY <1>a1, NumberedRows, Zenon
<1>a4. IsRow(a, "R", 51, {0}, r) <=>
        r \in {<<"add", "R", 51, {0}, {0}>>, <<"sll", "R", 51, {1}, {0}>>,
               <<"slt", "R", 51, {2}, {0}>>, <<"sltu", "R", 51, {3}, {0}>>,
               <<"xor", "R", 51, {4}, {0}>>, <<"srl", "R", 51, {5}, {0}>>,
               <<"or", "R", 51, {6}, {0}>>, <<"and", "R", 51, {7}, {0}>>}
  BY <1>a2 DEF IsRow
<1>b3. r \in Numbered(b, "R", 51, {32}) <=> IsRow(b, "R", 51, {32}, r)
  BY ONLY <1>b1, NumberedRows, Zenon
<1>b4. IsRow(b, "R", 51, {32}, r) <=>
        r \in {<<"sub", "R", 51, {0}, {32}>>, <<"sra", "R", 51, {5}, {32}>>}
  BY <1>b2 DEF IsRow
<1>c3. r \in Numbered(c, "R", 51, {1}) <=> IsRow(c, "R", 51, {1}, r)
  BY ONLY <1>c1, NumberedRows, Zenon
<1>c4. IsRow(c, "R", 51, {1}, r) <=>
        r \in {<<"mul", "R", 51, {0}, {1}>>, <<"mulh", "R", 51, {1}, {1}>>,
               <<"mulhsu", "R", 51, {2}, {1}>>,
               <<"mulhu", "R", 51, {3}, {1}>>, <<"div", "R", 51, {4}, {1}>>,
               <<"divu", "R", 51, {5}, {1}>>, <<"rem", "R", 51, {6}, {1}>>,
               <<"remu", "R", 51, {7}, {1}>>}
  BY <1>c2 DEF IsRow
<1> QED BY ONLY <1>0, <1>a3, <1>a4, <1>b3, <1>b4, <1>c3, <1>c4, Zenon

\* Reg32Rows, row by row.
LEMMA Reg32RowsList ==
  ASSUME NEW r
  PROVE  r \in Reg32Rows <=>
           \/ r \in {<<"addw", "R", 59, {0}, {0}>>,
                     <<"sllw", "R", 59, {1}, {0}>>,
                     <<"srlw", "R", 59, {5}, {0}>>}
           \/ r \in {<<"subw", "R", 59, {0}, {32}>>,
                     <<"sraw", "R", 59, {5}, {32}>>}
           \/ r \in {<<"mulw", "R", 59, {0}, {1}>>,
                     <<"divw", "R", 59, {4}, {1}>>,
                     <<"divuw", "R", 59, {5}, {1}>>,
                     <<"remw", "R", 59, {6}, {1}>>,
                     <<"remuw", "R", 59, {7}, {1}>>}
<1> DEFINE a == <<"addw", "sllw", "", "", "", "srlw", "", "">>
           b == <<"subw", "", "", "", "", "sraw", "", "">>
           c == <<"mulw", "", "", "", "divw", "divuw", "remw", "remuw">>
<1>a1. DOMAIN a = 1 .. 8
  OBVIOUS
<1>a2. /\ a[1] = "addw" /\ a[2] = "sllw" /\ a[3] = "" /\ a[4] = "" /\
         a[5] = "" /\ a[6] = "srlw" /\ a[7] = "" /\ a[8] = ""
  OBVIOUS
<1>b1. DOMAIN b = 1 .. 8
  OBVIOUS
<1>b2. /\ b[1] = "subw" /\ b[2] = "" /\ b[3] = "" /\ b[4] = "" /\
         b[5] = "" /\ b[6] = "sraw" /\ b[7] = "" /\ b[8] = ""
  OBVIOUS
<1>c1. DOMAIN c = 1 .. 8
  OBVIOUS
<1>c2. /\ c[1] = "mulw" /\ c[2] = "" /\ c[3] = "" /\ c[4] = "" /\
         c[5] = "divw" /\ c[6] = "divuw" /\ c[7] = "remw" /\
         c[8] = "remuw"
  OBVIOUS
<1>0. r \in Reg32Rows <=>
        \/ r \in Numbered(a, "R", 59, {0})
        \/ r \in Numbered(b, "R", 59, {32})
        \/ r \in Numbered(c, "R", 59, {1})
  BY DEF Reg32Rows
<1> HIDE DEF a, b, c
<1>a3. r \in Numbered(a, "R", 59, {0}) <=> IsRow(a, "R", 59, {0}, r)
  BY ONLY <1>a1, NumberedRows, Zenon
<1>a4. IsRow(a, "R", 59, {0}, r) <=>
        r \in {<<"addw", "R", 59, {0}, {0}>>, <<"sllw", "R", 59, {1}, {0}>>,
               <<"srlw", "R", 59, {5}, {0}>>}
  BY <1>a2 DEF IsRow
<1>b3. r \in Numbered(b, "R", 59, {32}) <=> IsRow(b, "R", 59, {32}, r)
  BY ONLY <1>b1, NumberedRows, Zenon
<1>b4. IsRow(b, "R", 59, {32}, r) <=>
        r \in {<<"subw", "R", 59, {0}, {32}>>, <<"sraw", "R", 59, {5}, {32}>>}
  BY <1>b2 DEF IsRow
<1>c3. r \in Numbered(c, "R", 59, {1}) <=> IsRow(c, "R", 59, {1}, r)
  BY ONLY <1>c1, NumberedRows, Zenon
<1>c4. IsRow(c, "R", 59, {1}, r) <=>
        r \in {<<"mulw", "R", 59, {0}, {1}>>, <<"divw", "R", 59, {4}, {1}>>,
               <<"divuw", "R", 59, {5}, {1}>>, <<"remw", "R", 59, {6}, {1}>>,
               <<"remuw", "R", 59, {7}, {1}>>}
  BY <1>c2 DEF IsRow
<1> QED BY ONLY <1>0, <1>a3, <1>a4, <1>b3, <1>b4, <1>c3, <1>c4, Zenon

\* BranchRows, row by row.
LEMMA BranchRowsList ==
  ASSUME NEW r
  PROVE  r \in BranchRows <=>
           r \in {<<"beq", "B", 99, {0}, Any7>>,
                  <<"bne", "B", 99, {1}, Any7>>,
                  <<"blt", "B", 99, {4}, Any7>>,
                  <<"bge", "B", 99, {5}, Any7>>,
                  <<"bltu", "B", 99, {6}, Any7>>,
                  <<"bgeu", "B", 99, {7}, Any7>>}
<1> DEFINE a == <<"beq", "bne", "", "", "blt", "bge", "bltu", "bgeu">>
<1>a1. DOMAIN a = 1 .. 8
  OBVIOUS
<1>a2. /\ a[1] = "beq" /\ a[2] = "bne" /\ a[3] = "" /\ a[4] = "" /\
         a[5] = "blt" /\ a[6] = "bge" /\ a[7] = "bltu" /\ a[8] = "bgeu"
  OBVIOUS
<1>0. r \in BranchRows <=>
        \/ r \in Numbered(a, "B", 99, Any7)
  BY DEF BranchRows
<1> HIDE DEF a
<1>a3. r \in Numbered(a, "B", 99, Any7) <=> IsRow(a, "B", 99, Any7, r)
  BY ONLY <1>a1, NumberedRows, Zenon
<1>a4. IsRow(a, "B", 99, Any7, r) <=>
        r \in {<<"beq", "B", 99, {0}, Any7>>, <<"bne", "B", 99, {1}, Any7>>,
               <<"blt", "B", 99, {4}, Any7>>, <<"bge", "B", 99, {5}, Any7>>,
               <<"bltu", "B", 99, {6}, Any7>>, <<"bgeu", "B", 99, {7}, Any7>>}
  BY <1>a2 DEF IsRow
<1> QED BY ONLY <1>0, <1>a3, <1>a4, Zenon

\* SystemRows, row by row.
LEMMA SystemRowsList ==
  ASSUME NEW r
  PROVE  r \in SystemRows <=>
           \/ r \in {<<"ecall", "E", 115, {0}, {0}>>}
           \/ r \in {<<"csrrw", "C", 115, {1}, Any7>>,
                     <<"csrrs", "C", 115, {2}, Any7>>,
                     <<"csrrc", "C", 115, {3}, Any7>>,
                     <<"csrrwi", "C", 115, {5}, Any7>>,
                     <<"csrrsi", "C", 115, {6}, Any7>>,
                     <<"csrrci", "C", 115, {7}, Any7>>}
<1> DEFINE b == <<"", "csrrw", "csrrs", "csrrc", "", "csrrwi", "csrrsi", "csrrci">>
<1>b1. DOMAIN b = 1 .. 8
  OBVIOUS
<1>b2. /\ b[1] = "" /\ b[2] = "csrrw" /\ b[3] = "csrrs" /\
         b[4] = "csrrc" /\ b[5] = "" /\ b[6] = "csrrwi" /\
         b[7] = "csrrsi" /\ b[8] = "csrrci"
  OBVIOUS
<1>0. r \in SystemRows <=>
        \/ r \in {<<"ecall", "E", 115, {0}, {0}>>}
        \/ r \in Numbered(b, "C", 115, Any7)
  BY DEF SystemRows
<1> HIDE DEF b
<1>b3. r \in Numbered(b, "C", 115, Any7) <=> IsRow(b, "C", 115, Any7, r)
  BY ONLY <1>b1, NumberedRows, Zenon
<1>b4. IsRow(b, "C", 115, Any7, r) <=>
        r \in {<<"csrrw", "C", 115, {1}, Any7>>,
               <<"csrrs", "C", 115, {2}, Any7>>,
               <<"csrrc", "C", 115, {3}, Any7>>,
               <<"csrrwi", "C", 115, {5}, Any7>>,
               <<"csrrsi", "C", 115, {6}, Any7>>,
               <<"csrrci", "C", 115, {7}, Any7>>}
  BY <1>b2 DEF IsRow
<1> QED BY ONLY <1>0, <1>b3, <1>b4, Zenon

\* Every row has the opcode of its group.
LEMMA RowsByOpcode ==
  ASSUME NEW r
  PROVE  /\ (r \in Rows /\ r[3] = 3) <=> r \in LoadRows
         /\ (r \in Rows /\ r[3] = 19) <=> r \in ImmRows
         /\ (r \in Rows /\ r[3] = 27) <=> r \in Imm32Rows
         /\ (r \in Rows /\ r[3] = 35) <=> r \in StoreRows
         /\ (r \in Rows /\ r[3] = 47) <=> r \in AmoRows
         /\ (r \in Rows /\ r[3] = 51) <=> r \in RegRows
         /\ (r \in Rows /\ r[3] = 59) <=> r \in Reg32Rows
         /\ (r \in Rows /\ r[3] = 99) <=> r \in BranchRows
         /\ (r \in Rows /\ r[3] = 115) <=> r \in SystemRows
         /\ r[3] \in {15, 23, 55, 103, 111} => (r \in Rows <=> r \in JumpRows)
         /\ r \in Rows => r[3] \in {3, 15, 19, 23, 27, 35, 47, 51, 55, 59, 99, 103, 111, 115}
<1>1. /\ \A q \in LoadRows : q[3] = 3
      /\ \A q \in ImmRows : q[3] = 19
      /\ \A q \in Imm32Rows : q[3] = 27
      /\ \A q \in StoreRows : q[3] = 35
  BY LoadRowsList, ImmRowsList, Imm32RowsList, StoreRowsList
<1>2. /\ \A q \in RegRows : q[3] = 51
      /\ \A q \in Reg32Rows : q[3] = 59
  BY RegRowsList, Reg32RowsList
<1>3. /\ \A q \in BranchRows : q[3] = 99
      /\ \A q \in SystemRows : q[3] = 115
  BY BranchRowsList, SystemRowsList
<1>4. \A q \in JumpRows : q[3] \in {15, 23, 55, 103, 111}
  BY DEF JumpRows
<1>5. \A q \in AmoRows : q[3] = 47
  BY DEF AmoRows, Amo
<1> QED BY <1>1, <1>2, <1>3, <1>4, <1>5 DEF Rows

-----------------------------------------------------------------------------
(***************************************************************************)
(* The switches of decode_insn32 against the rows: the name each selects   *)
(* is that of a matching row of the expected format, or nothing matches.   *)
(***************************************************************************)
\* What Matching asks of a row, once the opcode is known.
LEMMA MatchingRows ==
  ASSUME NEW w, NEW S, \A r : (r \in Rows /\ r[3] = Num(w, 0, 7)) <=> r \in S
  PROVE  \A r : r \in Matching(w) <=>
           /\ r \in S
           /\ funct3(w) \in r[4]
           /\ funct7(w) \in r[5]
           /\ RestFits(r[1], w)
  BY DEF Matching, funct3, funct7

\* Opcode 3: the handler of a load is the name of a matching row, or there is
\* none.
LEMMA LoadMatch ==
  ASSUME NEW w \in Word, Num(w, 0, 7) = 3
  PROVE  IF LoadOp(w) = "illegal" THEN Matching(w) = {}
         ELSE \E r \in Matching(w) : r[1] = LoadOp(w) /\ r[2] = "I"
<1>1. \A r : r \in Matching(w) <=>
           /\ r \in LoadRows
           /\ funct3(w) \in r[4]
           /\ funct7(w) \in r[5]
           /\ RestFits(r[1], w)
  BY MatchingRows, RowsByOpcode
<1>2. funct3(w) \in 0 .. 7 /\ funct7(w) \in Any7
  BY NumRange, NumSeven DEF funct3, funct7, Any7
<1>3. /\ funct3(w) = 0 => LoadOp(w) = "lb"
      /\ funct3(w) = 1 => LoadOp(w) = "lh"
      /\ funct3(w) = 2 => LoadOp(w) = "lw"
      /\ funct3(w) = 3 => LoadOp(w) = "ld"
      /\ funct3(w) = 4 => LoadOp(w) = "lbu"
      /\ funct3(w) = 5 => LoadOp(w) = "lhu"
      /\ funct3(w) = 6 => LoadOp(w) = "lwu"
      /\ funct3(w) = 7 => LoadOp(w) = "illegal"
  BY DEF LoadOp
<1>4. CASE funct3(w) = 7
  BY <1>1, <1>3, <1>4, LoadRowsList
<1>5. CASE funct3(w) # 7
  <2> PICK r : r = <<LoadOp(w), "I", 3, {funct3(w)}, Any7>>
    OBVIOUS
  <2>1. r \in LoadRows /\ LoadOp(w) \notin {"illegal", "lr_w", "lr_d", "ecall"}
    BY <1>2, <1>3, <1>5, LoadRowsList
  <2> QED BY <2>1, <1>1, <1>2 DEF RestFits
<1> QED BY <1>4, <1>5

\* Opcode 35: the stores.
LEMMA StoreMatch ==
  ASSUME NEW w \in Word, Num(w, 0, 7) = 35
  PROVE  IF StoreOp(w) = "illegal" THEN Matching(w) = {}
         ELSE \E r \in Matching(w) : r[1] = StoreOp(w) /\ r[2] = "S"
<1>1. \A r : r \in Matching(w) <=>
           /\ r \in StoreRows
           /\ funct3(w) \in r[4]
           /\ funct7(w) \in r[5]
           /\ RestFits(r[1], w)
  BY MatchingRows, RowsByOpcode
<1>2. funct3(w) \in 0 .. 7 /\ funct7(w) \in Any7
  BY NumRange, NumSeven DEF funct3, funct7, Any7
<1>3. /\ funct3(w) = 0 => StoreOp(w) = "sb"
      /\ funct3(w) = 1 => StoreOp(w) = "sh"
      /\ funct3(w) = 2 => StoreOp(w) = "sw"
      /\ funct3(w) = 3 => StoreOp(w) = "sd"
      /\ funct3(w) \in 4 .. 7 => StoreOp(w) = "illegal"
  BY DEF StoreOp
<1>4. CASE funct3(w) \in 4 .. 7
  BY <1>1, <1>3, <1>4, StoreRowsList
<1>5. CASE funct3(w) \in 0 .. 3
  <2> PICK r : r = <<StoreOp(w), "S", 35, {funct3(w)}, Any7>>
    OBVIOUS
  <2>1. r \in StoreRows /\ StoreOp(w) \notin {"illegal", "lr_w", "lr_d", "ecall"}
    BY <1>2, <1>3, <1>5, StoreRowsList
  <2> QED BY <2>1, <1>1, <1>2 DEF RestFits
<1> QED BY <1>2, <1>4, <1>5

\* Opcode 99: the branches.
LEMMA BranchMatch ==
  ASSUME NEW w \in Word, Num(w, 0, 7) = 99
  PROVE  IF BranchOp(w) = "illegal" THEN Matching(w) = {}
         ELSE \E r \in Matching(w) : r[1] = BranchOp(w) /\ r[2] = "B"
<1>1. \A r : r \in Matching(w) <=>
           /\ r \in BranchRows
           /\ funct3(w) \in r[4]
           /\ funct7(w) \in r[5]
           /\ RestFits(r[1], w)
  BY MatchingRows, RowsByOpcode
<1>2. funct3(w) \in 0 .. 7 /\ funct7(w) \in Any7
  BY NumRange, NumSeven DEF funct3, funct7, Any7
<1>3. /\ funct3(w) = 0 => BranchOp(w) = "beq"
      /\ funct3(w) = 1 => BranchOp(w) = "bne"
      /\ funct3(w) = 2 => BranchOp(w) = "illegal"
      /\ funct3(w) = 3 => BranchOp(w) = "illegal"
      /\ funct3(w) = 4 => BranchOp(w) = "blt"
      /\ funct3(w) = 5 => BranchOp(w) = "bge"
      /\ funct3(w) = 6 => BranchOp(w) = "bltu"
      /\ funct3(w) = 7 => BranchOp(w) = "bgeu"
  BY DEF BranchOp
<1>4. CASE funct3(w) \in {2, 3}
  BY <1>1, <1>3, <1>4, BranchRowsList
<1>5. CASE funct3(w) \notin {2, 3}
  <2> PICK r : r = <<BranchOp(w), "B", 99, {funct3(w)}, Any7>>
    OBVIOUS
  <2>1. r \in BranchRows /\ BranchOp(w) \notin {"illegal", "lr_w", "lr_d", "ecall"}
    BY <1>2, <1>3, <1>5, BranchRowsList
  <2> QED BY <2>1, <1>1, <1>2 DEF RestFits
<1> QED BY <1>4, <1>5

\* Opcode 115 with another funct3 than that of ecall.
LEMMA SystemMatch ==
  ASSUME NEW w \in Word, Num(w, 0, 7) = 115, funct3(w) # 0
  PROVE  IF SystemOp(w) = "illegal" THEN Matching(w) = {}
         ELSE \E r \in Matching(w) : r[1] = SystemOp(w) /\ r[2] = "C"
<1>1. \A r : r \in Matching(w) <=>
           /\ r \in SystemRows
           /\ funct3(w) \in r[4]
           /\ funct7(w) \in r[5]
           /\ RestFits(r[1], w)
  BY MatchingRows, RowsByOpcode
<1>2. funct3(w) \in 0 .. 7 /\ funct7(w) \in Any7
  BY NumRange, NumSeven DEF funct3, funct7, Any7
<1>3. /\ funct3(w) = 1 => SystemOp(w) = "csrrw"
      /\ funct3(w) = 2 => SystemOp(w) = "csrrs"
      /\ funct3(w) = 3 => SystemOp(w) = "csrrc"
      /\ funct3(w) = 4 => SystemOp(w) = "illegal"
      /\ funct3(w) = 5 => SystemOp(w) = "csrrwi"
      /\ funct3(w) = 6 => SystemOp(w) = "csrrsi"
      /\ funct3(w) = 7 => SystemOp(w) = "csrrci"
  BY DEF SystemOp
<1>4. CASE funct3(w) = 4
  BY <1>1, <1>3, <1>4, SystemRowsList
<1>5. CASE funct3(w) # 4
  <2> PICK r : r = <<SystemOp(w), "C", 115, {funct3(w)}, Any7>>
    OBVIOUS
  <2>1. r \in SystemRows /\ SystemOp(w) \notin {"illegal", "lr_w", "lr_d", "ecall"}
    BY <1>2, <1>3, <1>5, SystemRowsList
  <2> QED BY <2>1, <1>1, <1>2 DEF RestFits
<1> QED BY <1>4, <1>5

\* Opcode 19: the shifts look at bits 26 to 31, the rows at bits 25 to 31.
LEMMA ImmMatch ==
  ASSUME NEW w \in Word, Num(w, 0, 7) = 19
  PROVE  IF OpImm(w) = "illegal" THEN Matching(w) = {}
         ELSE \E r \in Matching(w) :
                /\ r[1] = OpImm(w)
                /\ r[2] = IF OpImm(w) \in {"slli", "srli", "srai"} THEN "H6"
                          ELSE "I"
<1> DEFINE high == Num(w, 26, 6)
<1>1. \A r : r \in Matching(w) <=>
           /\ r \in ImmRows
           /\ funct3(w) \in r[4]
           /\ funct7(w) \in r[5]
           /\ RestFits(r[1], w)
  BY MatchingRows, RowsByOpcode
<1>2. funct3(w) \in 0 .. 7 /\ funct7(w) \in Any7
  BY NumRange, NumSeven DEF funct3, funct7, Any7
<1>3. high \in 0 .. 63 /\ funct7(w) \in {2 * high, 2 * high + 1}
  <2>1. w[25] \in Bit
    BY DEF Word
  <2>2. 25 \in 0 .. 25 /\ 25 + 1 = 26
    OBVIOUS
  <2>3. high \in 0 .. 63 /\ Num(w, 25, 7) = w[25] + 2 * high
    BY <2>2, NumSeven
  <2> QED BY <2>1, <2>3 DEF funct7, Bit
<1>4. /\ funct3(w) = 0 => OpImm(w) = "addi"
      /\ funct3(w) = 2 => OpImm(w) = "slti"
      /\ funct3(w) = 3 => OpImm(w) = "sltiu"
      /\ funct3(w) = 4 => OpImm(w) = "xori"
      /\ funct3(w) = 6 => OpImm(w) = "ori"
      /\ funct3(w) = 7 => OpImm(w) = "andi"
      /\ funct3(w) = 1 => OpImm(w) = IF high = 0 THEN "slli" ELSE "illegal"
      /\ funct3(w) = 5 => OpImm(w) = IF high = 0 THEN "srli"
                                     ELSE IF high = 16 THEN "srai"
                                     ELSE "illegal"
  <2> DEFINE names == <<"addi", "", "slti", "sltiu", "xori", "", "ori", "andi">>
  <2>1. /\ names[0 + 1] = "addi" /\ names[2 + 1] = "slti"
        /\ names[3 + 1] = "sltiu" /\ names[4 + 1] = "xori"
        /\ names[6 + 1] = "ori" /\ names[7 + 1] = "andi"
    OBVIOUS
  <2>2. OpImm(w) =
          CASE funct3(w) = 1 -> IF high = 0 THEN "slli" ELSE "illegal"
            [] funct3(w) = 5 -> IF high = 0 THEN "srli"
                                ELSE IF high = 16 THEN "srai" ELSE "illegal"
            [] OTHER -> names[funct3(w) + 1]
    BY DEF OpImm
  <2> HIDE DEF high, names
  <2> QED BY <2>1, <2>2
<1> HIDE DEF high
<1>5. CASE funct3(w) \in {1, 5} /\ OpImm(w) = "illegal"
  BY <1>1, <1>3, <1>4, <1>5, ImmRowsList
<1>6. CASE funct3(w) \in {1, 5} /\ OpImm(w) # "illegal"
  <2> PICK r : r = <<OpImm(w), "H6", 19, {funct3(w)},
                     IF OpImm(w) = "srai" THEN {32, 33} ELSE {0, 1}>>
    OBVIOUS
  <2>1. r \in ImmRows /\ OpImm(w) \in {"slli", "srli", "srai"}
    BY <1>4, <1>6, ImmRowsList
  <2>2. funct7(w) \in r[5] /\ funct3(w) \in r[4]
    BY <1>3, <1>4, <1>6
  <2> QED BY <2>1, <2>2, <1>1 DEF RestFits
<1>7. CASE funct3(w) \notin {1, 5}
  <2> PICK r : r = <<OpImm(w), "I", 19, {funct3(w)}, Any7>>
    OBVIOUS
  <2>1. r \in ImmRows /\ OpImm(w) \notin {"illegal", "lr_w", "lr_d", "ecall",
                                          "slli", "srli", "srai"}
    BY <1>2, <1>4, <1>7, ImmRowsList
  <2> QED BY <2>1, <1>1, <1>2 DEF RestFits
<1> QED BY <1>5, <1>6, <1>7

\* Opcode 27.
LEMMA Imm32Match ==
  ASSUME NEW w \in Word, Num(w, 0, 7) = 27
  PROVE  IF OpImm32(w) = "illegal" THEN Matching(w) = {}
         ELSE \E r \in Matching(w) :
                /\ r[1] = OpImm32(w)
                /\ r[2] = IF OpImm32(w) = "addiw" THEN "I" ELSE "H5"
<1>1. \A r : r \in Matching(w) <=>
           /\ r \in Imm32Rows
           /\ funct3(w) \in r[4]
           /\ funct7(w) \in r[5]
           /\ RestFits(r[1], w)
  BY MatchingRows, RowsByOpcode
<1>2. funct3(w) \in 0 .. 7 /\ funct7(w) \in Any7
  BY NumRange, NumSeven DEF funct3, funct7, Any7
<1>3. CASE OpImm32(w) = "illegal"
  <2> SUFFICES ASSUME NEW r \in Matching(w) PROVE FALSE
    BY <1>3
  <2> QED BY <1>1, <1>3, Imm32RowsList DEF OpImm32
<1>4. CASE OpImm32(w) # "illegal"
  <2>1. CASE funct3(w) = 0
    <3> PICK r : r = <<"addiw", "I", 27, {0}, Any7>>
      OBVIOUS
    <3> QED BY <2>1, <1>1, <1>2, Imm32RowsList DEF RestFits, OpImm32
  <2>2. CASE funct3(w) # 0
    <3> PICK r : r = <<OpImm32(w), "H5", 27, {funct3(w)}, {funct7(w)}>>
      OBVIOUS
    <3>1. r \in Imm32Rows /\ OpImm32(w) \in {"slliw", "srliw", "sraiw"}
      BY <1>4, <2>2, Imm32RowsList DEF OpImm32
    <3> QED BY <3>1, <1>1, <1>4 DEF RestFits
  <2> QED BY <2>1, <2>2
<1> QED BY <1>3, <1>4

\* Opcode 51.
LEMMA RegMatch ==
  ASSUME NEW w \in Word, Num(w, 0, 7) = 51
  PROVE  IF Op(w) = "illegal" THEN Matching(w) = {}
         ELSE \E r \in Matching(w) : r[1] = Op(w) /\ r[2] = "R"
<1>1. \A r : r \in Matching(w) <=>
           /\ r \in RegRows
           /\ funct3(w) \in r[4]
           /\ funct7(w) \in r[5]
           /\ RestFits(r[1], w)
  BY MatchingRows, RowsByOpcode
<1>2. funct3(w) \in 0 .. 7 /\ funct7(w) \in 0 .. 127
  BY NumRange, NumSeven DEF funct3, funct7
<1> DEFINE a == <<"add", "sll", "slt", "sltu", "xor", "srl", "or", "and">>
           m == <<"mul", "mulh", "mulhsu", "mulhu", "div", "divu", "rem",
                  "remu">>
<1>3. Op(w) = CASE funct7(w) = 0 -> a[funct3(w) + 1]
                [] funct7(w) = 1 -> m[funct3(w) + 1]
                [] funct7(w) = 32 /\ funct3(w) = 0 -> "sub"
                [] funct7(w) = 32 /\ funct3(w) = 5 -> "sra"
                [] OTHER -> "illegal"
  BY DEF Op
<1>4. /\ a[0 + 1] = "add" /\ a[1 + 1] = "sll" /\ a[2 + 1] = "slt"
      /\ a[3 + 1] = "sltu" /\ a[4 + 1] = "xor" /\ a[5 + 1] = "srl"
      /\ a[6 + 1] = "or" /\ a[7 + 1] = "and"
  OBVIOUS
<1>5. /\ m[0 + 1] = "mul" /\ m[1 + 1] = "mulh" /\ m[2 + 1] = "mulhsu"
      /\ m[3 + 1] = "mulhu" /\ m[4 + 1] = "div" /\ m[5 + 1] = "divu"
      /\ m[6 + 1] = "rem" /\ m[7 + 1] = "remu"
  OBVIOUS
<1> HIDE DEF a, m
<1>6. ASSUME <<Op(w), "R", 51, {funct3(w)}, {funct7(w)}>> \in RegRows,
             Op(w) \notin {"illegal", "lr_w", "lr_d", "ecall"}
      PROVE  IF Op(w) = "illegal" THEN Matching(w) = {}
             ELSE \E r \in Matching(w) : r[1] = Op(w) /\ r[2] = "R"
  <2> PICK r : r = <<Op(w), "R", 51, {funct3(w)}, {funct7(w)}>>
    OBVIOUS
  <2> QED BY <1>1, <1>6 DEF RestFits
<1>7. CASE funct7(w) = 0
  <2>1. <<Op(w), "R", 51, {funct3(w)}, {0}>> \in RegRows
    BY <1>2, <1>3, <1>4, <1>7, RegRowsList
  <2>2. Op(w) \notin {"illegal", "lr_w", "lr_d", "ecall"}
    BY <1>2, <1>3, <1>4, <1>7
  <2> QED BY <1>6, <1>7, <2>1, <2>2
<1>8. CASE funct7(w) = 1
  <2>1. <<Op(w), "R", 51, {funct3(w)}, {1}>> \in RegRows
    BY <1>2, <1>3, <1>5, <1>8, RegRowsList
  <2>2. Op(w) \notin {"illegal", "lr_w", "lr_d", "ecall"}
    BY <1>2, <1>3, <1>5, <1>8
  <2> QED BY <1>6, <1>8, <2>1, <2>2
<1>9. CASE funct7(w) = 32 /\ funct3(w) \in {0, 5}
  <2>1. <<Op(w), "R", 51, {funct3(w)}, {32}>> \in RegRows
    BY <1>2, <1>3, <1>9, RegRowsList
  <2>2. Op(w) \notin {"illegal", "lr_w", "lr_d", "ecall"}
    BY <1>2, <1>3, <1>9
  <2> QED BY <1>6, <1>9, <2>1, <2>2
<1>10. CASE funct7(w) \notin {0, 1} /\ ~ (funct7(w) = 32 /\ funct3(w) \in {0, 5})
  <2>1. Op(w) = "illegal"
    BY <1>2, <1>3, <1>10
  <2> SUFFICES ASSUME NEW r \in Matching(w) PROVE FALSE
    BY <2>1
  <2> QED BY <1>1, <1>10, RegRowsList
<1> QED BY <1>7, <1>8, <1>9, <1>10

\* Opcode 59.
LEMMA Reg32Match ==
  ASSUME NEW w \in Word, Num(w, 0, 7) = 59
  PROVE  IF Op32(w) = "illegal" THEN Matching(w) = {}
         ELSE \E r \in Matching(w) : r[1] = Op32(w) /\ r[2] = "R"
<1>1. \A r : r \in Matching(w) <=>
           /\ r \in Reg32Rows
           /\ funct3(w) \in r[4]
           /\ funct7(w) \in r[5]
           /\ RestFits(r[1], w)
  BY MatchingRows, RowsByOpcode
<1>2. funct3(w) \in 0 .. 7 /\ funct7(w) \in 0 .. 127
  BY NumRange, NumSeven DEF funct3, funct7
<1> DEFINE a == <<"addw", "sllw", "", "", "", "srlw">>
           m == <<"mulw", "", "", "", "divw", "divuw", "remw", "remuw">>
<1>3. Op32(w) =
        CASE funct7(w) = 0 /\ funct3(w) \in {0, 1, 5} -> a[funct3(w) + 1]
          [] funct7(w) = 1 /\ funct3(w) \notin {1, 2, 3} -> m[funct3(w) + 1]
          [] funct7(w) = 32 /\ funct3(w) = 0 -> "subw"
          [] funct7(w) = 32 /\ funct3(w) = 5 -> "sraw"
          [] OTHER -> "illegal"
  BY DEF Op32
<1>4. a[0 + 1] = "addw" /\ a[1 + 1] = "sllw" /\ a[5 + 1] = "srlw"
  OBVIOUS
<1>5. /\ m[0 + 1] = "mulw" /\ m[4 + 1] = "divw" /\ m[5 + 1] = "divuw"
      /\ m[6 + 1] = "remw" /\ m[7 + 1] = "remuw"
  OBVIOUS
<1> HIDE DEF a, m
<1>6. ASSUME <<Op32(w), "R", 59, {funct3(w)}, {funct7(w)}>> \in Reg32Rows,
             Op32(w) \notin {"illegal", "lr_w", "lr_d", "ecall"}
      PROVE  IF Op32(w) = "illegal" THEN Matching(w) = {}
             ELSE \E r \in Matching(w) : r[1] = Op32(w) /\ r[2] = "R"
  <2> PICK r : r = <<Op32(w), "R", 59, {funct3(w)}, {funct7(w)}>>
    OBVIOUS
  <2> QED BY <1>1, <1>6 DEF RestFits
<1>7. CASE funct7(w) = 0 /\ funct3(w) \in {0, 1, 5}
  <2>1. <<Op32(w), "R", 59, {funct3(w)}, {0}>> \in Reg32Rows
    BY <1>2, <1>3, <1>4, <1>7, Reg32RowsList
  <2>2. Op32(w) \notin {"illegal", "lr_w", "lr_d", "ecall"}
    BY <1>2, <1>3, <1>4, <1>7
  <2> QED BY <1>6, <1>7, <2>1, <2>2
<1>8. CASE funct7(w) = 1 /\ funct3(w) \notin {1, 2, 3}
  <2>1. <<Op32(w), "R", 59, {funct3(w)}, {1}>> \in Reg32Rows
    BY <1>2, <1>3, <1>5, <1>8, Reg32RowsList
  <2>2. Op32(w) \notin {"illegal", "lr_w", "lr_d", "ecall"}
    BY <1>2, <1>3, <1>5, <1>8
  <2> QED BY <1>6, <1>8, <2>1, <2>2
<1>9. CASE funct7(w) = 32 /\ funct3(w) \in {0, 5}
  <2>1. <<Op32(w), "R", 59, {funct3(w)}, {32}>> \in Reg32Rows
    BY <1>2, <1>3, <1>9, Reg32RowsList
  <2>2. Op32(w) \notin {"illegal", "lr_w", "lr_d", "ecall"}
    BY <1>2, <1>3, <1>9
  <2> QED BY <1>6, <1>9, <2>1, <2>2
<1>10. CASE /\ ~ (funct7(w) = 0 /\ funct3(w) \in {0, 1, 5})
            /\ ~ (funct7(w) = 1 /\ funct3(w) \notin {1, 2, 3})
            /\ ~ (funct7(w) = 32 /\ funct3(w) \in {0, 5})
  <2>1. Op32(w) = "illegal"
    BY <1>2, <1>3, <1>10
  <2> SUFFICES ASSUME NEW r \in Matching(w) PROVE FALSE
    BY <2>1
  <2> QED BY <1>1, <1>10, Reg32RowsList
<1> QED BY <1>7, <1>8, <1>9, <1>10

\* The opcodes of JumpRows: jumps, lui, auipc and the fences.
LEMMA JumpMatch ==
  ASSUME NEW w \in Word
  PROVE  /\ Num(w, 0, 7) = 55 => <<"lui", "U", 55, Any3, Any7>> \in Matching(w)
         /\ Num(w, 0, 7) = 23 =>
              <<"auipc", "U", 23, Any3, Any7>> \in Matching(w)
         /\ Num(w, 0, 7) = 111 =>
              <<"jal", "J", 111, Any3, Any7>> \in Matching(w)
         /\ Num(w, 0, 7) = 103 =>
              IF JalrOp(w) = "illegal" THEN Matching(w) = {}
              ELSE <<"jalr", "I", 103, {0}, Any7>> \in Matching(w)
         /\ Num(w, 0, 7) = 15 =>
              IF FenceOp(w) = "illegal" THEN Matching(w) = {}
              ELSE \E r \in Matching(w) : r[2] = "F"
<1>1. ASSUME Num(w, 0, 7) \in {15, 23, 55, 103, 111}, NEW r
      PROVE  r \in Matching(w) <=>
               /\ r \in JumpRows
               /\ r[3] = Num(w, 0, 7)
               /\ funct3(w) \in r[4]
               /\ funct7(w) \in r[5]
               /\ RestFits(r[1], w)
  <2>1. r[3] = Num(w, 0, 7) => (r \in Rows <=> r \in JumpRows)
    BY <1>1, RowsByOpcode
  <2>2. r \in Matching(w) <=>
               /\ r \in Rows
               /\ r[3] = Num(w, 0, 7)
               /\ funct3(w) \in r[4]
               /\ funct7(w) \in r[5]
               /\ RestFits(r[1], w)
    BY DEF Matching, funct3, funct7
  <2> QED BY <2>1, <2>2
<1>2. funct3(w) \in Any3 /\ funct7(w) \in Any7
  BY NumRange, NumSeven DEF funct3, funct7, Any3, Any7
<1>3. CASE Num(w, 0, 7) = 55
  BY <1>1, <1>2, <1>3 DEF JumpRows, RestFits
<1>4. CASE Num(w, 0, 7) = 23
  BY <1>1, <1>2, <1>4 DEF JumpRows, RestFits
<1>5. CASE Num(w, 0, 7) = 111
  BY <1>1, <1>2, <1>5 DEF JumpRows, RestFits
<1>6. CASE Num(w, 0, 7) = 103
  BY <1>1, <1>2, <1>6 DEF JumpRows, RestFits, JalrOp
<1>7. CASE Num(w, 0, 7) = 15
  <2>1. CASE funct3(w) = 0
    <3>1. <<"fence", "F", 15, {0}, Any7>> \in Matching(w)
      BY <1>1, <1>2, <1>7, <2>1 DEF JumpRows, RestFits
    <3> QED BY <3>1, <1>7, <2>1 DEF FenceOp
  <2>2. CASE funct3(w) = 1
    <3>1. <<"fence.i", "F", 15, {1}, Any7>> \in Matching(w)
      BY <1>1, <1>2, <1>7, <2>2 DEF JumpRows, RestFits
    <3> QED BY <3>1, <1>7, <2>2 DEF FenceOp
  <2>3. CASE funct3(w) \notin {0, 1}
    <3> SUFFICES ASSUME NEW r \in Matching(w) PROVE FALSE
      BY <1>7, <2>3 DEF FenceOp
    <3> QED BY <1>1, <1>7, <2>3 DEF JumpRows
  <2> QED BY <2>1, <2>2, <2>3
<1> QED BY <1>3, <1>4, <1>5, <1>6, <1>7

\* The other opcodes have no rows.
LEMMA NoMatch ==
  ASSUME NEW w,
         Num(w, 0, 7) \notin {3, 15, 19, 23, 27, 35, 47, 51, 55, 59, 99, 103,
                              111, 115}
  PROVE  Matching(w) = {}
  BY RowsByOpcode DEF Matching

\* The rows of opcode 47, by bits 27 to 31 and funct3.
LEMMA AmoRowsList ==
  ASSUME NEW r
  PROVE  r \in AmoRows <=>
           \E k \in {0, 1, 2, 3, 4, 8, 12, 16, 20, 24, 28}, d \in {2, 3} :
             r = <<AmoName(k)[d - 1], "A", 47, {d}, 4 * k .. 4 * k + 3>>
<1>1. ASSUME NEW names, NEW k
      PROVE  r \in Amo(names, k) <=>
               \E d \in {2, 3} :
                 r = <<names[d - 1], "A", 47, {d}, 4 * k .. 4 * k + 3>>
  BY DEF Amo
<1>2. r \in AmoRows <=>
        \E k \in {0, 1, 2, 3, 4, 8, 12, 16, 20, 24, 28} :
          r \in Amo(AmoName(k), k)
  BY DEF AmoRows, AmoName
<1>3. ASSUME NEW k
      PROVE  r \in Amo(AmoName(k), k) <=>
               \E d \in {2, 3} :
                 r = <<AmoName(k)[d - 1], "A", 47, {d}, 4 * k .. 4 * k + 3>>
  BY DEF Amo
<1> QED BY <1>2, <1>3

\* Opcode 47: lr has no rs2, and only words and doublewords are known.
LEMMA AmoMatch ==
  ASSUME NEW w \in Word, Num(w, 0, 7) = 47
  PROVE  IF AmoOp(w) = "illegal" THEN Matching(w) = {}
         ELSE \E r \in Matching(w) : r[1] = AmoOp(w) /\ r[2] = "A"
<1> DEFINE f5 == Num(w, 27, 5)
           Known == {0, 1, 2, 3, 4, 8, 12, 16, 20, 24, 28}
<1>1. \A r : r \in Matching(w) <=>
           /\ r \in AmoRows
           /\ funct3(w) \in r[4]
           /\ funct7(w) \in r[5]
           /\ RestFits(r[1], w)
  BY MatchingRows, RowsByOpcode
<1>2. f5 \in 0 .. 31 /\ funct7(w) \in 4 * f5 .. 4 * f5 + 3
  <2>1. w[25] \in Bit /\ w[25 + 1] \in Bit
    BY DEF Word
  <2>2. 25 \in 0 .. 25 /\ 25 + 2 = 27 /\ 27 \in 0 .. 27
    OBVIOUS
  <2>3. f5 \in 0 .. 31 /\ Num(w, 25, 7) = w[25] + 2 * w[25 + 1] + 4 * f5
    BY <2>2, NumRange, NumSeven
  <2> HIDE DEF f5
  <2> QED BY <2>1, <2>3 DEF funct7, Bit
<1>3. AmoOp(w) = IF funct3(w) \in {2, 3} /\ (f5 = 2 => Num(w, 20, 5) = 0)
                 THEN AmoName(f5)[funct3(w) - 1] ELSE "illegal"
  BY DEF AmoOp, AmoFits
<1> HIDE DEF f5
<1>4. ASSUME NEW k \in 0 .. 31, NEW d \in {2, 3}
      PROVE  /\ AmoName(k)[d - 1] = "illegal" <=> k \notin Known
             /\ AmoName(k)[d - 1] \in {"lr_w", "lr_d"} <=> k = 2
             /\ AmoName(k)[d - 1] # "ecall"
  BY DEF AmoName
<1>5. CASE AmoOp(w) = "illegal"
  <2> SUFFICES ASSUME NEW r \in Matching(w) PROVE FALSE
    BY <1>5
  <2>1. PICK k \in Known, d \in {2, 3} :
          r = <<AmoName(k)[d - 1], "A", 47, {d}, 4 * k .. 4 * k + 3>>
    BY <1>1, AmoRowsList
  <2>2. funct3(w) = d /\ k = f5
    BY <1>1, <1>2, <2>1
  <2>3. f5 = 2 => Num(w, 20, 5) = 0
    BY <1>1, <1>2, <1>4, <2>1, <2>2 DEF RestFits
  <2> QED BY <1>2, <1>3, <1>4, <1>5, <2>2, <2>3
<1>6. CASE AmoOp(w) # "illegal"
  <2> PICK r : r = <<AmoOp(w), "A", 47, {funct3(w)}, 4 * f5 .. 4 * f5 + 3>>
    OBVIOUS
  <2>1. /\ funct3(w) \in {2, 3} /\ (f5 = 2 => Num(w, 20, 5) = 0)
        /\ AmoOp(w) = AmoName(f5)[funct3(w) - 1]
    BY <1>3, <1>6
  <2>2. f5 \in Known
    BY <1>2, <1>4, <1>6, <2>1
  <2>3. r \in AmoRows
    <3>1. r = <<AmoName(f5)[funct3(w) - 1], "A", 47, {funct3(w)},
                4 * f5 .. 4 * f5 + 3>>
      BY <2>1
    <3> QED BY ONLY <2>1, <2>2, <3>1, AmoRowsList, Zenon
  <2>4. /\ AmoOp(w) \in {"lr_w", "lr_d"} <=> f5 = 2
        /\ AmoOp(w) # "ecall"
    <3> DEFINE name == AmoName(f5)[funct3(w) - 1]
    <3>1. (name \in {"lr_w", "lr_d"} <=> f5 = 2) /\ name # "ecall"
      BY <1>2, <1>4, <2>1
    <3> HIDE DEF name
    <3>2. AmoOp(w) = name
      BY <2>1 DEF name
    <3> QED BY <3>1, <3>2
  <2> QED BY <1>1, <1>2, <1>6, <2>1, <2>3, <2>4 DEF RestFits
<1> QED BY <1>5, <1>6


(***************************************************************************)
(* The slot a translator leaves: which fields it has, and what the context *)
(* holds.                                                                  *)
(***************************************************************************)
\* Runs keeps the fields and adds the handler.
LEMMA RunsSlot ==
  ASSUME NEW fields, "handler" \notin DOMAIN fields, NEW h
  PROVE  /\ Runs(fields, h).insn.handler = h
         /\ DOMAIN Runs(fields, h).insn = DOMAIN fields \cup {"handler"}
         /\ \A f \in DOMAIN fields : Runs(fields, h).insn[f] = fields[f]
         /\ Runs(fields, h).exit = FALSE
         /\ Runs(fields, h).next = <<>>
  BY DEF Runs, With

Registers == {"rd", "rs1", "rs2"}

\* Fields a translator may set before the handler and the pc.
Fields(fields) ==
  /\ DOMAIN fields \subseteq Registers \cup {"imm"}
  /\ \A f \in DOMAIN fields \cap Registers : fields[f] \in 0 .. 31
  /\ "imm" \in DOMAIN fields => fields.imm \in Word

Traps == {"illegal", "ecall"}
Jumps == {"jal", "c_jal", "jalr", "c_jalr"}

\* What the context holds fits the handler, in an instruction of len bytes.
Fits(res, q, len) ==
  LET h == res.insn.handler
      imm == Int32(res.insn.imm)
  IN
  /\ "pc" \in DOMAIN res.insn => res.insn.pc = q
  /\ h \in Branches \cup Jumps \cup Traps =>
       res.exit = TRUE /\ "pc" \in DOMAIN res.insn /\ res.insn.pc = q
  /\ h \notin Branches \cup Jumps \cup Traps => res.exit = FALSE
  /\ h \in Branches \cup Jumps => Behind(h) = len
  /\ h \in Branches => res.next = <<q + imm, q + len>>
  /\ h \in {"jal", "c_jal"} => res.next = <<q + imm>>
  /\ h \notin Branches \cup {"jal", "c_jal"} => res.next = <<>>

\* The registers are five bits wide, the immediate is a word.
Typed(slot) ==
  /\ \A f \in DOMAIN slot \cap Registers : slot[f] \in 0 .. 31
  /\ "imm" \in DOMAIN slot => slot.imm \in Word

\* All that the properties below need to know of a result.
Sound(res, q, len) ==
  /\ Typed(res.insn)
  /\ Reads(res.insn) \subseteq DOMAIN res.insn
  /\ Fits(res, q, len)

\* The names whose handlers read no more than rd, rs1 and imm, or rd, rs1, rs2.
ImmNames == {"lb", "lh", "lw", "ld", "lbu", "lhu", "lwu", "addi", "slti",
             "sltiu", "xori", "ori", "andi", "slli", "srli", "srai",
             "addiw", "slliw", "srliw", "sraiw"} \cup Csrs

\* The fields the handler h reads, but for the pc.
Needs(h) ==
  CASE h \in Traps \cup {"empty"} -> {}
    [] h \in {"lui", "auipc", "jal", "c_jal"} -> {"rd", "imm"}
    [] h \in {"jalr", "c_jalr"} -> {"rd", "rs1", "imm"}
    [] h \in Branches \cup {"sb", "sh", "sw", "sd"} -> {"rs1", "rs2", "imm"}
    [] h \in {"lr_w", "lr_d"} -> {"rd", "rs1"}
    [] h \in ImmNames -> {"rd", "rs1", "imm"}
    [] OTHER -> {"rd", "rs1", "rs2"}

\* Only these handlers use the pc of the slot.
LEMMA ReadsNeeds ==
  ASSUME NEW slot
  PROVE  /\ Reads(slot) \subseteq Needs(slot.handler) \cup {"pc"}
         /\ slot.handler \notin Branches \cup Jumps \cup Traps \cup {"auipc"} =>
              Reads(slot) \subseteq Needs(slot.handler)
<1> DEFINE h == slot.handler
<1> HIDE DEF h
<1>1. Reads(slot) =
        CASE h = "empty" -> {}
          [] h \in {"illegal", "ecall"} -> {"pc"}
          [] h = "lui" -> {"rd", "imm"}
          [] h \in {"auipc", "jal", "c_jal"} -> {"rd", "imm", "pc"}
          [] h \in {"jalr", "c_jalr"} -> {"rd", "rs1", "imm", "pc"}
          [] h \in Branches -> {"rs1", "rs2", "imm", "pc"}
          [] h \in {"sb", "sh", "sw", "sd"} -> {"rs1", "rs2", "imm"}
          [] h \in {"lr_w", "lr_d"} -> {"rd", "rs1"}
          [] h \in ImmNames -> {"rd", "rs1", "imm"}
          [] OTHER -> {"rd", "rs1", "rs2"}
  BY DEF Reads, ImmNames, h
<1>2. /\ Reads(slot) \subseteq Needs(h) \cup {"pc"}
      /\ h \notin Branches \cup Jumps \cup Traps \cup {"auipc"} =>
              Reads(slot) \subseteq Needs(h)
  <2>1. CASE h = "empty"
    BY <1>1, <2>1 DEF Needs
  <2>2. CASE h \in Traps
    BY <1>1, <2>2 DEF Needs, Traps
  <2>3. CASE h \in {"lui", "auipc", "jal", "c_jal", "jalr", "c_jalr"}
    BY <1>1, <2>3 DEF Needs, Traps, Jumps
  <2>4. CASE h \in Branches
    BY <1>1, <2>4 DEF Needs, Traps, Branches
  <2>5. CASE h \in {"sb", "sh", "sw", "sd", "lr_w", "lr_d"}
    BY <1>1, <2>5 DEF Needs, Traps, Branches
  <2>6. CASE h \in ImmNames
    <3>1. h \notin Traps \cup {"empty", "lui", "auipc", "jal", "c_jal", "jalr",
                     "c_jalr", "sb", "sh", "sw", "sd", "lr_w", "lr_d"}
                   \cup Branches
      BY <2>6 DEF ImmNames, Csrs, Traps, Branches
    <3> QED BY <1>1, <2>6, <3>1 DEF Needs, Traps
  <2>7. CASE h \notin Traps \cup {"empty", "lui", "auipc", "jal", "c_jal",
                     "jalr", "c_jalr", "sb", "sh", "sw", "sd", "lr_w", "lr_d"}
                   \cup Branches \cup ImmNames
    BY <1>1, <2>7 DEF Needs, Traps
  <2> QED BY <2>1, <2>2, <2>3, <2>4, <2>5, <2>6, <2>7
<1> QED BY <1>2 DEF h

\* A translator that lets the block go on.
LEMMA RunsSound ==
  ASSUME NEW fields, Fields(fields), NEW q, NEW len,
         NEW h, h \notin Branches \cup Jumps \cup Traps \cup {"auipc"},
         Needs(h) \subseteq DOMAIN fields
  PROVE  Sound(Runs(fields, h), q, len)
<1> DEFINE res == Runs(fields, h)
<1>1. /\ res.insn.handler = h
      /\ DOMAIN res.insn = DOMAIN fields \cup {"handler"}
      /\ \A f \in DOMAIN fields : res.insn[f] = fields[f]
      /\ res.exit = FALSE
      /\ res.next = <<>>
  BY RunsSlot DEF Fields, Registers
<1> HIDE DEF res
<1>2. Typed(res.insn)
  BY <1>1 DEF Typed, Fields, Registers
<1>3. Reads(res.insn) \subseteq DOMAIN res.insn
  BY <1>1, ReadsNeeds
<1>4. Fits(res, q, len)
  <2>1. "pc" \notin DOMAIN res.insn
    BY <1>1 DEF Fields, Registers
  <2> QED BY <1>1, <2>1 DEF Fits, Jumps
<1> QED BY <1>2, <1>3, <1>4 DEF Sound, res

\* A translator that ends the block.
LEMMA EndsSound ==
  ASSUME NEW fields, Fields(fields), NEW q, NEW len, NEW next,
         NEW h \in Branches \cup Jumps \cup Traps,
         Needs(h) \subseteq DOMAIN fields,
         h \in Branches \cup Jumps => Behind(h) = len,
         h \in Branches => next = <<q + Int32(fields.imm), q + len>>,
         h \in {"jal", "c_jal"} => next = <<q + Int32(fields.imm)>>,
         h \notin Branches \cup {"jal", "c_jal"} => next = <<>>
  PROVE  Sound(Ends(fields, h, q, next), q, len)
<1> DEFINE res == Ends(fields, h, q, next)
<1>1. /\ res.insn.handler = h
      /\ res.insn.pc = q
      /\ DOMAIN res.insn = DOMAIN fields \cup {"handler", "pc"}
      /\ \A f \in DOMAIN fields : res.insn[f] = fields[f]
      /\ res.exit = TRUE
      /\ res.next = next
  <2>1. DOMAIN fields \cap {"handler", "pc"} = {}
    BY DEF Fields, Registers
  <2> QED BY <2>1 DEF Ends, With
<1> HIDE DEF res
<1>2. Typed(res.insn)
  BY <1>1 DEF Typed, Fields, Registers
<1>3. Reads(res.insn) \subseteq DOMAIN res.insn
  BY <1>1, ReadsNeeds
<1>4. h \in Branches \cup {"jal", "c_jal"} => "imm" \in DOMAIN fields
  BY DEF Needs, Branches, Traps
<1>5. h \in Branches \cup {"jal", "c_jal"} => res.insn.imm = fields.imm
  BY <1>1, <1>4
<1>6. Fits(res, q, len)
  BY <1>1, <1>5 DEF Fits
<1> QED BY <1>2, <1>3, <1>6 DEF Sound, res

\* An illegal instruction, with whatever fields were extracted before.
LEMMA IllegalSound ==
  ASSUME NEW fields, Fields(fields), NEW q, NEW len
  PROVE  Sound(trans_illegal(fields, q), q, len)
<1>1. /\ "illegal" \in Traps
      /\ "illegal" \notin Branches \cup Jumps
      /\ "illegal" \notin {"jal", "c_jal"}
  BY DEF Traps, Branches, Jumps
<1>2. \A h \in Traps : Needs(h) = {}
  BY DEF Needs, Traps, Branches, ImmNames, Csrs
<1> QED BY <1>1, <1>2, EndsSound DEF trans_illegal

\* The bit operations make words of words.
LEMMA ExtractWord ==
  ASSUME NEW w \in Word, NEW p \in 0 .. 31, NEW n \in 0 .. 32, p + n <= 32
  PROVE  extract32(w, p, n) \in Word
  BY DEF extract32, Word, Bit

\* A signed field is a word.
LEMMA SextractWord ==
  ASSUME NEW w \in Word, NEW p \in 0 .. 31, NEW n \in 1 .. 32, p + n <= 32
  PROVE  sextract32(w, p, n) \in Word
  BY DEF sextract32, Word, Bit

\* A word with a field replaced is a word.
LEMMA DepositWord ==
  ASSUME NEW w \in Word, NEW p \in 0 .. 31, NEW n \in Nat,
         NEW x \in Word
  PROVE  deposit32(w, p, n, x) \in Word
  BY DEF deposit32, Word, Bit

\* A shifted word is a word.
LEMMA ShiftWord ==
  ASSUME NEW w \in Word, NEW n \in 0 .. 31
  PROVE  ex_shift(w, n) \in Word
  BY DEF ex_shift, Word, Bit

\* Every immediate is a word.
LEMMA ImmWord ==
  ASSUME NEW w \in Word
  PROVE  /\ ImmI(w) \in Word /\ ImmS(w) \in Word
         /\ ImmB(w) \in Word /\ ImmU(w) \in Word
         /\ ImmJ(w) \in Word /\ ImmCsr(w) \in Word
<1>1. ImmI(w) \in Word
  BY ExtractWord, SextractWord, ShiftWord DEF ImmI
<1>2. ImmS(w) \in Word
  <2>1. /\ extract32(w, 7, 5) \in Word
        /\ sextract32(w, 25, 7) \in Word
    BY ExtractWord, SextractWord
  <2> QED BY <2>1, DepositWord DEF ImmS
<1>3. ImmB(w) \in Word
  <2>1. /\ extract32(w, 8, 4) \in Word
        /\ extract32(w, 25, 6) \in Word
        /\ extract32(w, 7, 1) \in Word
        /\ sextract32(w, 31, 1) \in Word
    BY ExtractWord, SextractWord
  <2> QED BY <2>1, DepositWord, ShiftWord DEF ImmB
<1>4. ImmU(w) \in Word
  BY ExtractWord, SextractWord, ShiftWord DEF ImmU
<1>5. ImmJ(w) \in Word
  <2>1. /\ extract32(w, 21, 10) \in Word
        /\ extract32(w, 20, 1) \in Word
        /\ extract32(w, 12, 8) \in Word
        /\ sextract32(w, 31, 1) \in Word
    BY ExtractWord, SextractWord
  <2> QED BY <2>1, DepositWord, ShiftWord DEF ImmJ
<1>6. ImmCsr(w) \in Word
  BY ExtractWord, SextractWord, ShiftWord DEF ImmCsr
<1> QED
  BY <1>1, <1>2, <1>3, <1>4, <1>5, <1>6

\* The immediates of the compressed instructions are words.
LEMMA ImmCWord ==
  ASSUME NEW w \in Word
  PROVE  /\ ImmC_addi4spn(w) \in Word /\ ImmC_w(w) \in Word
         /\ ImmC_d(w) \in Word /\ ImmC_6(w) \in Word
         /\ ImmC_lui(w) \in Word /\ ImmC_shamt(w) \in Word
         /\ ImmC_addi16sp(w) \in Word /\ ImmC_j(w) \in Word
         /\ ImmC_b(w) \in Word /\ ImmC_lwsp(w) \in Word
         /\ ImmC_ldsp(w) \in Word /\ ImmC_swsp(w) \in Word
         /\ ImmC_sdsp(w) \in Word
         /\ ImmZero \in Word
<1>1. ImmC_addi4spn(w) \in Word
  <2>1. /\ extract32(w, 6, 1) \in Word
        /\ extract32(w, 5, 1) \in Word
        /\ extract32(w, 11, 2) \in Word
        /\ extract32(w, 7, 4) \in Word
    BY ExtractWord, SextractWord
  <2> QED BY <2>1, DepositWord, ShiftWord DEF ImmC_addi4spn
<1>2. ImmC_w(w) \in Word
  <2>1. /\ extract32(w, 6, 1) \in Word
        /\ extract32(w, 10, 3) \in Word
        /\ extract32(w, 5, 1) \in Word
    BY ExtractWord, SextractWord
  <2> QED BY <2>1, DepositWord, ShiftWord DEF ImmC_w
<1>3. ImmC_d(w) \in Word
  <2>1. /\ extract32(w, 10, 3) \in Word
        /\ extract32(w, 5, 2) \in Word
    BY ExtractWord, SextractWord
  <2> QED BY <2>1, DepositWord, ShiftWord DEF ImmC_d
<1>4. ImmC_6(w) \in Word
  <2>1. /\ extract32(w, 2, 5) \in Word
        /\ sextract32(w, 12, 1) \in Word
    BY ExtractWord, SextractWord
  <2> QED BY <2>1, DepositWord DEF ImmC_6
<1>5. ImmC_lui(w) \in Word
  BY <1>4, ShiftWord DEF ImmC_lui
<1>6. ImmC_shamt(w) \in Word
  <2>1. /\ extract32(w, 2, 5) \in Word
        /\ extract32(w, 12, 1) \in Word
    BY ExtractWord, SextractWord
  <2> QED BY <2>1, DepositWord DEF ImmC_shamt
<1>7. ImmC_addi16sp(w) \in Word
  <2>1. /\ extract32(w, 6, 1) \in Word
        /\ extract32(w, 2, 1) \in Word
        /\ extract32(w, 5, 1) \in Word
        /\ extract32(w, 3, 2) \in Word
        /\ sextract32(w, 12, 1) \in Word
    BY ExtractWord, SextractWord
  <2> QED BY <2>1, DepositWord, ShiftWord DEF ImmC_addi16sp
<1>8. ImmC_j(w) \in Word
  <2>1. /\ extract32(w, 3, 3) \in Word
        /\ extract32(w, 11, 1) \in Word
        /\ extract32(w, 2, 1) \in Word
        /\ extract32(w, 7, 1) \in Word
        /\ extract32(w, 6, 1) \in Word
        /\ extract32(w, 9, 2) \in Word
        /\ extract32(w, 8, 1) \in Word
        /\ sextract32(w, 12, 1) \in Word
    BY ExtractWord, SextractWord
  <2> QED BY <2>1, DepositWord, ShiftWord DEF ImmC_j
<1>9. ImmC_b(w) \in Word
  <2>1. /\ extract32(w, 3, 2) \in Word
        /\ extract32(w, 10, 2) \in Word
        /\ extract32(w, 2, 1) \in Word
        /\ extract32(w, 5, 2) \in Word
        /\ sextract32(w, 12, 1) \in Word
    BY ExtractWord, SextractWord
  <2> QED BY <2>1, DepositWord, ShiftWord DEF ImmC_b
<1>10. ImmC_lwsp(w) \in Word
  <2>1. /\ extract32(w, 4, 3) \in Word
        /\ extract32(w, 12, 1) \in Word
        /\ extract32(w, 2, 2) \in Word
    BY ExtractWord, SextractWord
  <2> QED BY <2>1, DepositWord, ShiftWord DEF ImmC_lwsp
<1>11. ImmC_ldsp(w) \in Word
  <2>1. /\ extract32(w, 5, 2) \in Word
        /\ extract32(w, 12, 1) \in Word
        /\ extract32(w, 2, 3) \in Word
    BY ExtractWord, SextractWord
  <2> QED BY <2>1, DepositWord, ShiftWord DEF ImmC_ldsp
<1>12. ImmC_swsp(w) \in Word
  <2>1. /\ extract32(w, 9, 4) \in Word
        /\ extract32(w, 7, 2) \in Word
    BY ExtractWord, SextractWord
  <2> QED BY <2>1, DepositWord, ShiftWord DEF ImmC_swsp
<1>13. ImmC_sdsp(w) \in Word
  <2>1. /\ extract32(w, 10, 3) \in Word
        /\ extract32(w, 7, 3) \in Word
    BY ExtractWord, SextractWord
  <2> QED BY <2>1, DepositWord, ShiftWord DEF ImmC_sdsp
<1>14. ImmZero \in Word
  BY DEF ImmZero, Word, Bit
<1> QED
  BY <1>1, <1>2, <1>3, <1>4, <1>5, <1>6, <1>7, <1>8, <1>9, <1>10, <1>11, <1>12, <1>13, <1>14

\* The formats of the 32-bit instructions.
LEMMA FormatFields ==
  ASSUME NEW w \in Word
  PROVE  /\ Fields(NoFields) /\ DOMAIN NoFields = {}
         /\ Fields(FieldsR(w)) /\ DOMAIN FieldsR(w) = {"rd", "rs1", "rs2"}
         /\ Fields(FieldsI(w)) /\ DOMAIN FieldsI(w) = {"rd", "rs1", "imm"}
         /\ Fields(FieldsS(w)) /\ DOMAIN FieldsS(w) = {"rs1", "rs2", "imm"}
         /\ Fields(FieldsB(w)) /\ DOMAIN FieldsB(w) = {"rs1", "rs2", "imm"}
         /\ Fields(FieldsU(w)) /\ DOMAIN FieldsU(w) = {"rd", "imm"}
         /\ Fields(FieldsJ(w)) /\ DOMAIN FieldsJ(w) = {"rd", "imm"}
         /\ Fields(FieldsCsr(w)) /\ DOMAIN FieldsCsr(w) = {"rd", "rs1", "imm"}
         /\ Fields(FieldsAtomLd(w)) /\ DOMAIN FieldsAtomLd(w) = {"rd", "rs1"}
         /\ Fields(FieldsAtomSt(w))
         /\ DOMAIN FieldsAtomSt(w) = {"rd", "rs1", "rs2"}
<1>1. /\ Reg(w, 7) \in 0 .. 31 /\ Reg(w, 15) \in 0 .. 31
      /\ Reg(w, 20) \in 0 .. 31
  BY NumRange DEF Reg
<1> USE <1>1, ImmWord DEF Fields, Registers
<1>2. Fields(NoFields) /\ DOMAIN NoFields = {}
  BY DEF NoFields
<1>3. Fields(FieldsR(w)) /\ DOMAIN FieldsR(w) = {"rd", "rs1", "rs2"}
  BY DEF FieldsR
<1>4. Fields(FieldsI(w)) /\ DOMAIN FieldsI(w) = {"rd", "rs1", "imm"}
  BY DEF FieldsI
<1>5. Fields(FieldsS(w)) /\ DOMAIN FieldsS(w) = {"rs1", "rs2", "imm"}
  BY DEF FieldsS
<1>6. Fields(FieldsB(w)) /\ DOMAIN FieldsB(w) = {"rs1", "rs2", "imm"}
  BY DEF FieldsB
<1>7. Fields(FieldsU(w)) /\ DOMAIN FieldsU(w) = {"rd", "imm"}
  BY DEF FieldsU
<1>8. Fields(FieldsJ(w)) /\ DOMAIN FieldsJ(w) = {"rd", "imm"}
  BY DEF FieldsJ
<1>9. Fields(FieldsCsr(w)) /\ DOMAIN FieldsCsr(w) = {"rd", "rs1", "imm"}
  BY DEF FieldsCsr
<1>10. Fields(FieldsAtomLd(w)) /\ DOMAIN FieldsAtomLd(w) = {"rd", "rs1"}
  BY DEF FieldsAtomLd
<1>11. /\ Fields(FieldsAtomSt(w))
       /\ DOMAIN FieldsAtomSt(w) = {"rd", "rs1", "rs2"}
  BY DEF FieldsAtomSt
<1> QED BY <1>2, <1>3, <1>4, <1>5, <1>6, <1>7, <1>8, <1>9, <1>10, <1>11

\* decode_insn32, opcode by opcode.
LEMMA Insn32 ==
  ASSUME NEW w, NEW q
  PROVE
    LET o == Num(w, 0, 7)
        res == decode_insn32(w, q)
        Or(h, other) ==
          res = IF h = "illegal" THEN trans_illegal(NoFields, q) ELSE other
    IN
    /\ o = 3 => Or(LoadOp(w), UnlessRd0(FieldsI(w), LoadOp(w)))
    /\ o = 15 => Or(FenceOp(w), Runs(NoFields, FenceOp(w)))
    /\ o = 19 => Or(OpImm(w), UnlessRd0(FieldsI(w), OpImm(w)))
    /\ o = 23 => res = TransUpper(w, "auipc", q)
    /\ o = 27 => Or(OpImm32(w), UnlessRd0(FieldsI(w), OpImm32(w)))
    /\ o = 35 => Or(StoreOp(w), Runs(FieldsS(w), StoreOp(w)))
    /\ o = 47 => Or(AmoOp(w), TransAtom(w, AmoOp(w)))
    /\ o = 51 => Or(Op(w), UnlessRd0(FieldsR(w), Op(w)))
    /\ o = 55 => res = TransUpper(w, "lui", q)
    /\ o = 59 => Or(Op32(w), UnlessRd0(FieldsR(w), Op32(w)))
    /\ o = 99 => Or(BranchOp(w), BranchTo(FieldsB(w), BranchOp(w), q, 4))
    /\ o = 103 => Or(JalrOp(w), Ends(FieldsI(w), "jalr", q, <<>>))
    /\ o = 111 => res = JumpTo(FieldsJ(w), "jal", q)
    /\ o = 115 => Or(SystemOp(w), TransSystem(w, SystemOp(w), q))
    /\ o \notin {3, 15, 19, 23, 27, 35, 47, 51, 55, 59, 99, 103, 111, 115} =>
         res = trans_illegal(NoFields, q)
  BY DEF decode_insn32

RegNames ==
  {"add", "sll", "slt", "sltu", "xor", "srl", "or", "and", "sub", "sra",
   "mul", "mulh", "mulhsu", "mulhu", "div", "divu", "rem", "remu",
   "addw", "sllw", "srlw", "subw", "sraw", "mulw", "divw", "divuw", "remw",
   "remuw",
   "sc_w", "sc_d", "amoadd_w", "amoadd_d", "amoswap_w", "amoswap_d",
   "amoxor_w", "amoxor_d", "amoor_w", "amoor_d", "amoand_w", "amoand_d",
   "amomin_w", "amomin_d", "amomax_w", "amomax_d", "amominu_w", "amominu_d",
   "amomaxu_w", "amomaxu_d"}

StoreNames == {"sb", "sh", "sw", "sd"}

\* Neither the end of a block nor a user of the slot's pc.
GoesOn(h) == h \notin Branches \cup Jumps \cup Traps \cup {"auipc"}

\* What the handlers need, by kind.
LEMMA NeedsOf ==
  /\ \A h \in ImmNames : GoesOn(h) /\ Needs(h) = {"rd", "rs1", "imm"}
  /\ \A h \in RegNames : GoesOn(h) /\ Needs(h) = {"rd", "rs1", "rs2"}
  /\ \A h \in StoreNames : GoesOn(h) /\ Needs(h) = {"rs1", "rs2", "imm"}
  /\ \A h \in {"lr_w", "lr_d"} : GoesOn(h) /\ Needs(h) = {"rd", "rs1"}
  /\ GoesOn("lui") /\ Needs("lui") = {"rd", "imm"}
  /\ GoesOn("empty") /\ Needs("empty") = {}
<1> USE DEF Branches, Jumps, Traps, GoesOn, Needs
<1>1. \A h \in ImmNames : GoesOn(h) /\ Needs(h) = {"rd", "rs1", "imm"}
  BY DEF ImmNames, Csrs
<1>2. \A h \in RegNames : GoesOn(h) /\ Needs(h) = {"rd", "rs1", "rs2"}
  BY DEF RegNames, ImmNames, Csrs
<1>3. \A h \in StoreNames : GoesOn(h) /\ Needs(h) = {"rs1", "rs2", "imm"}
  BY DEF StoreNames, ImmNames, Csrs
<1>4. \A h \in {"lr_w", "lr_d"} : GoesOn(h) /\ Needs(h) = {"rd", "rs1"}
  BY DEF ImmNames, Csrs
<1>5. GoesOn("lui") /\ Needs("lui") = {"rd", "imm"}
  BY DEF ImmNames, Csrs
<1>6. GoesOn("empty") /\ Needs("empty") = {}
  BY DEF ImmNames, Csrs
<1> QED BY <1>1, <1>2, <1>3, <1>4, <1>5, <1>6

\* The names the switches of decode_insn32 select.
LEMMA OpNames ==
  ASSUME NEW w \in Word
  PROVE  /\ LoadOp(w) \in ImmNames \cup {"illegal"}
         /\ OpImm(w) \in ImmNames \cup {"illegal"}
         /\ OpImm32(w) \in ImmNames \cup {"illegal"}
         /\ StoreOp(w) \in StoreNames \cup {"illegal"}
         /\ Op(w) \in RegNames \cup {"illegal"}
         /\ Op32(w) \in RegNames \cup {"illegal"}
         /\ AmoOp(w) \in RegNames \cup {"illegal", "lr_w", "lr_d"}
         /\ SystemOp(w) \in Csrs \cup {"illegal", "ecall"}
         /\ BranchOp(w) \in {"beq", "bne", "blt", "bge", "bltu", "bgeu",
                             "illegal"}
<1>1. funct3(w) \in 0 .. 7
  BY NumRange DEF funct3
<1>2. LoadOp(w) \in ImmNames \cup {"illegal"}
  BY <1>1 DEF LoadOp, ImmNames
<1>3. OpImm(w) \in ImmNames \cup {"illegal"}
  <2> DEFINE names == <<"addi", "", "slti", "sltiu", "xori", "", "ori", "andi">>
             high == Num(w, 26, 6)
  <2>1. /\ names[0 + 1] = "addi" /\ names[2 + 1] = "slti"
        /\ names[3 + 1] = "sltiu" /\ names[4 + 1] = "xori"
        /\ names[6 + 1] = "ori" /\ names[7 + 1] = "andi"
    OBVIOUS
  <2>2. OpImm(w) =
          CASE funct3(w) = 1 -> IF high = 0 THEN "slli" ELSE "illegal"
            [] funct3(w) = 5 -> IF high = 0 THEN "srli"
                                ELSE IF high = 16 THEN "srai" ELSE "illegal"
            [] OTHER -> names[funct3(w) + 1]
    BY DEF OpImm
  <2> HIDE DEF high, names
  <2> QED BY <1>1, <2>1, <2>2 DEF ImmNames
<1>4. OpImm32(w) \in ImmNames \cup {"illegal"}
  BY DEF OpImm32, ImmNames
<1>5. StoreOp(w) \in StoreNames \cup {"illegal"}
  BY <1>1 DEF StoreOp, StoreNames
<1>6. Op(w) \in RegNames \cup {"illegal"}
  BY <1>1 DEF Op, RegNames
<1>7. Op32(w) \in RegNames \cup {"illegal"}
  <2> DEFINE a == <<"addw", "sllw", "", "", "", "srlw">>
             m == <<"mulw", "", "", "", "divw", "divuw", "remw", "remuw">>
  <2>1. Op32(w) =
          CASE funct7(w) = 0 /\ funct3(w) \in {0, 1, 5} -> a[funct3(w) + 1]
            [] funct7(w) = 1 /\ funct3(w) \notin {1, 2, 3} -> m[funct3(w) + 1]
            [] funct7(w) = 32 /\ funct3(w) = 0 -> "subw"
            [] funct7(w) = 32 /\ funct3(w) = 5 -> "sraw"
            [] OTHER -> "illegal"
    BY DEF Op32
  <2>2. a[0 + 1] = "addw" /\ a[1 + 1] = "sllw" /\ a[5 + 1] = "srlw"
    OBVIOUS
  <2>3. /\ m[0 + 1] = "mulw" /\ m[4 + 1] = "divw" /\ m[5 + 1] = "divuw"
        /\ m[6 + 1] = "remw" /\ m[7 + 1] = "remuw"
    OBVIOUS
  <2> HIDE DEF a, m
  <2> QED BY <1>1, <2>1, <2>2, <2>3 DEF RegNames
<1>8. AmoOp(w) \in RegNames \cup {"illegal", "lr_w", "lr_d"}
  BY DEF AmoOp, AmoFits, AmoName, RegNames
<1>9. SystemOp(w) \in Csrs \cup {"illegal", "ecall"}
  BY <1>1 DEF SystemOp, Csrs
<1>10. BranchOp(w) \in {"beq", "bne", "blt", "bge", "bltu", "bgeu", "illegal"}
  BY <1>1 DEF BranchOp
<1> QED BY <1>2, <1>3, <1>4, <1>5, <1>6, <1>7, <1>8, <1>9, <1>10

\* decode_insn32 leaves a sound slot for every word.
LEMMA Sound32 ==
  ASSUME NEW w \in Word, NEW q
  PROVE  Sound(decode_insn32(w, q), q, 4)
<1> DEFINE res == decode_insn32(w, q)
           o == Num(w, 0, 7)
<1>1. Sound(trans_illegal(NoFields, q), q, 4)
  BY IllegalSound, FormatFields
<1>2. ASSUME NEW fields, Fields(fields), NEW h, GoesOn(h),
             Needs(h) \subseteq DOMAIN fields
      PROVE  Sound(Runs(fields, h), q, 4)
  BY <1>2, RunsSound DEF GoesOn
<1>3. ASSUME NEW fields, Fields(fields), NEW h, GoesOn(h),
             Needs(h) \subseteq DOMAIN fields
      PROVE  Sound(UnlessRd0(fields, h), q, 4)
  BY <1>2, <1>3, NeedsOf DEF UnlessRd0
<1>4. CASE o = 3
  <2>1. res = IF LoadOp(w) = "illegal" THEN trans_illegal(NoFields, q)
              ELSE UnlessRd0(FieldsI(w), LoadOp(w))
    BY <1>4, Insn32
  <2> HIDE DEF res
  <2> QED BY <1>1, <1>3, <2>1, OpNames, NeedsOf, FormatFields DEF res
<1>5. CASE o = 19
  <2>1. res = IF OpImm(w) = "illegal" THEN trans_illegal(NoFields, q)
              ELSE UnlessRd0(FieldsI(w), OpImm(w))
    BY <1>5, Insn32
  <2> HIDE DEF res
  <2> QED BY <1>1, <1>3, <2>1, OpNames, NeedsOf, FormatFields DEF res
<1>6. CASE o = 27
  <2>1. res = IF OpImm32(w) = "illegal" THEN trans_illegal(NoFields, q)
              ELSE UnlessRd0(FieldsI(w), OpImm32(w))
    BY <1>6, Insn32
  <2> HIDE DEF res
  <2> QED BY <1>1, <1>3, <2>1, OpNames, NeedsOf, FormatFields DEF res
<1>7. CASE o = 51
  <2>1. res = IF Op(w) = "illegal" THEN trans_illegal(NoFields, q)
              ELSE UnlessRd0(FieldsR(w), Op(w))
    BY <1>7, Insn32
  <2> HIDE DEF res
  <2> QED BY <1>1, <1>3, <2>1, OpNames, NeedsOf, FormatFields DEF res
<1>8. CASE o = 59
  <2>1. res = IF Op32(w) = "illegal" THEN trans_illegal(NoFields, q)
              ELSE UnlessRd0(FieldsR(w), Op32(w))
    BY <1>8, Insn32
  <2> HIDE DEF res
  <2> QED BY <1>1, <1>3, <2>1, OpNames, NeedsOf, FormatFields DEF res
<1>9. CASE o = 35
  <2>1. res = IF StoreOp(w) = "illegal" THEN trans_illegal(NoFields, q)
              ELSE Runs(FieldsS(w), StoreOp(w))
    BY <1>9, Insn32
  <2> HIDE DEF res
  <2> QED BY <1>1, <1>2, <2>1, OpNames, NeedsOf, FormatFields DEF res
<1>10. CASE o = 15
  <2>1. res = IF FenceOp(w) = "illegal" THEN trans_illegal(NoFields, q)
              ELSE Runs(NoFields, FenceOp(w))
    BY <1>10, Insn32
  <2>2. FenceOp(w) \in {"empty", "illegal"}
    BY DEF FenceOp
  <2> HIDE DEF res
  <2> QED BY <1>1, <1>2, <2>1, <2>2, NeedsOf, FormatFields DEF res
<1>11. CASE o = 47
  <2>1. res = IF AmoOp(w) = "illegal" THEN trans_illegal(NoFields, q)
              ELSE TransAtom(w, AmoOp(w))
    BY <1>11, Insn32
  <2>2. AmoOp(w) \in RegNames => AmoOp(w) \notin {"lr_w", "lr_d"}
    BY DEF RegNames
  <2> HIDE DEF res
  <2>3. CASE AmoOp(w) \in {"lr_w", "lr_d"}
    BY <1>2, <2>1, <2>3, NeedsOf, FormatFields DEF TransAtom, res
  <2>4. CASE AmoOp(w) \in RegNames \cup {"illegal"}
    BY <1>1, <1>2, <2>1, <2>2, <2>4, NeedsOf, FormatFields DEF TransAtom, res
  <2> QED BY <2>3, <2>4, OpNames
<1>12. CASE o = 55
  <2>1. res = Runs(FieldsU(w), "lui")
    BY <1>12, Insn32 DEF TransUpper
  <2> HIDE DEF res
  <2> QED BY <1>2, <2>1, NeedsOf, FormatFields DEF res
<1>13. CASE o = 23
  <2>1. res = Runs(With(FieldsU(w), [pc |-> q]), "auipc")
    BY <1>13, Insn32 DEF TransUpper
  <2>2. /\ res.insn.handler = "auipc"
        /\ DOMAIN res.insn = {"rd", "imm", "handler", "pc"}
        /\ res.insn.rd = FieldsU(w).rd
        /\ res.insn.imm = FieldsU(w).imm
        /\ res.insn.pc = q
        /\ res.exit = FALSE
        /\ res.next = <<>>
    BY <2>1 DEF Runs, With, FieldsU
  <2> HIDE DEF res
  <2>3. Typed(res.insn)
    BY <2>2, FormatFields DEF Typed, Fields, Registers
  <2>4. Reads(res.insn) \subseteq DOMAIN res.insn
    BY <2>2 DEF Reads, Branches, Csrs
  <2>5. Fits(res, q, 4)
    BY <2>2 DEF Fits, Branches, Jumps, Traps
  <2> QED BY <2>3, <2>4, <2>5 DEF Sound, res
<1>14. CASE o = 99
  <2>1. res = IF BranchOp(w) = "illegal" THEN trans_illegal(NoFields, q)
              ELSE Ends(FieldsB(w), BranchOp(w), q,
                        <<q + Int32(FieldsB(w).imm), q + 4>>)
    BY <1>14, Insn32 DEF BranchTo
  <2> DEFINE h == BranchOp(w)
  <2>2. h \in {"beq", "bne", "blt", "bge", "bltu", "bgeu", "illegal"}
    BY OpNames
  <2> HIDE DEF res, h
  <2>3. CASE h # "illegal"
    <3>1. /\ h \in Branches /\ Behind(h) = 4 /\ h \notin {"jal", "c_jal"}
          /\ Needs(h) = {"rs1", "rs2", "imm"}
      BY <2>2, <2>3 DEF Branches, Behind, Needs, Traps, ImmNames, Csrs
    <3> QED BY <2>1, <2>3, <3>1, EndsSound, FormatFields DEF res, h
  <2> QED BY <1>1, <2>1, <2>3 DEF res, h
<1>15. CASE o = 103
  <2>1. res = IF JalrOp(w) = "illegal" THEN trans_illegal(NoFields, q)
              ELSE Ends(FieldsI(w), "jalr", q, <<>>)
    BY <1>15, Insn32
  <2>2. /\ "jalr" \in Jumps /\ Behind("jalr") = 4 /\ "jalr" \notin Branches
        /\ "jalr" \notin {"jal", "c_jal"}
        /\ Needs("jalr") = {"rd", "rs1", "imm"}
    BY DEF Jumps, Branches, Behind, Needs, Traps, ImmNames, Csrs
  <2>3. Sound(Ends(FieldsI(w), "jalr", q, <<>>), q, 4)
    BY <2>2, EndsSound, FormatFields
  <2> HIDE DEF res
  <2> QED BY <1>1, <2>1, <2>3 DEF res
<1>16. CASE o = 111
  <2>1. res = Ends(FieldsJ(w), "jal", q, <<q + Int32(FieldsJ(w).imm)>>)
    BY <1>16, Insn32 DEF JumpTo
  <2>2. /\ "jal" \in Jumps /\ Behind("jal") = 4 /\ "jal" \notin Branches
        /\ Needs("jal") = {"rd", "imm"}
    BY DEF Jumps, Branches, Behind, Needs, Traps, ImmNames, Csrs
  <2> HIDE DEF res
  <2> QED BY <2>1, <2>2, EndsSound, FormatFields DEF res
<1>17. CASE o = 115
  <2>1. res = IF SystemOp(w) = "illegal" THEN trans_illegal(NoFields, q)
              ELSE IF SystemOp(w) = "ecall" THEN Ends(NoFields, "ecall", q, <<>>)
              ELSE Runs(FieldsCsr(w), SystemOp(w))
    BY <1>17, Insn32 DEF TransSystem
  <2>2. Sound(Ends(NoFields, "ecall", q, <<>>), q, 4)
    <3>1. /\ "ecall" \in Traps /\ "ecall" \notin Branches \cup Jumps
          /\ "ecall" \notin {"jal", "c_jal"}
          /\ Needs("ecall") = {}
      BY DEF Traps, Jumps, Branches, Needs, ImmNames, Csrs
    <3> QED BY <3>1, EndsSound, FormatFields
  <2>3. Csrs \subseteq ImmNames
    BY DEF ImmNames
  <2> HIDE DEF res
  <2> QED BY <1>1, <1>2, <2>1, <2>2, <2>3, OpNames, NeedsOf, FormatFields DEF res
<1>18. CASE o \notin {3, 15, 19, 23, 27, 35, 47, 51, 55, 59, 99, 103, 111, 115}
  <2>1. res = trans_illegal(NoFields, q)
    BY <1>18, Insn32
  <2> QED BY <1>1, <2>1
<1> QED
  BY <1>4, <1>5, <1>6, <1>7, <1>8, <1>9, <1>10, <1>11, <1>12, <1>13, <1>14,
     <1>15, <1>16, <1>17, <1>18

(***************************************************************************)
(* A matching row of the right name and format is agreed with.             *)
(***************************************************************************)
\* Loads and immediate operations, dropped when rd is x0.
LEMMA AgreesImm ==
  ASSUME op \in Word, NEW h, result = UnlessRd0(FieldsI(op), h),
         NEW r, r[1] = h, r[2] \in {"I", "H5", "H6"}, h # "jalr"
  PROVE  AgreesWithRow(r)
<1> DEFINE f == r[2]
<1>1. /\ insn.handler = IF Reg(op, 7) = 0 THEN "empty" ELSE h
      /\ insn.rd = Reg(op, 7)
      /\ insn.rs1 = Reg(op, 15)
      /\ insn.imm = ImmI(op)
  BY DEF insn, UnlessRd0, Runs, With, FieldsI
<1>2. ImmAgrees(insn.imm, f)
  <2>1. CASE f = "I"
    <3>1. Carries(ImmI(op), op, LayI, 11)
      BY Carries_I
    <3> QED BY <1>1, <2>1, <3>1 DEF ImmAgrees, FormatLay, FormatSign
  <2>2. CASE f \in {"H5", "H6"}
    <3>1. \A k \in 0 .. 5 : ImmI(op)[k] = op[20 + k]
      BY DEF ImmI, sextract32
    <3> QED BY <1>1, <2>2, <3>1 DEF ImmAgrees
  <2> QED BY <2>1, <2>2
<1>3. OnlyWritesRd(r)
  BY DEF OnlyWritesRd
<1> QED BY <1>1, <1>2, <1>3 DEF AgreesWithRow

\* Register operations, dropped when rd is x0.
LEMMA AgreesReg ==
  ASSUME op \in Word, NEW h, result = UnlessRd0(FieldsR(op), h),
         NEW r, r[1] = h, r[2] = "R"
  PROVE  AgreesWithRow(r)
<1>1. /\ insn.handler = IF Reg(op, 7) = 0 THEN "empty" ELSE h
      /\ insn.rd = Reg(op, 7)
      /\ insn.rs1 = Reg(op, 15)
      /\ insn.rs2 = Reg(op, 20)
  BY DEF insn, UnlessRd0, Runs, With, FieldsR
<1>2. OnlyWritesRd(r)
  BY DEF OnlyWritesRd
<1> QED BY <1>1, <1>2 DEF AgreesWithRow

\* Atomics.
LEMMA AgreesAmo ==
  ASSUME op \in Word, NEW h, result = TransAtom(op, h),
         NEW r, r[1] = h, r[2] = "A"
  PROVE  AgreesWithRow(r)
<1>1. /\ insn.handler = h
      /\ insn.rd = Reg(op, 7)
      /\ insn.rs1 = Reg(op, 15)
      /\ h \notin {"lr_w", "lr_d"} => insn.rs2 = Reg(op, 20)
  <2>1. CASE h \in {"lr_w", "lr_d"}
    BY <2>1 DEF insn, TransAtom, Runs, With, FieldsAtomLd
  <2>2. CASE h \notin {"lr_w", "lr_d"}
    BY <2>2 DEF insn, TransAtom, Runs, With, FieldsAtomSt
  <2> QED BY <2>1, <2>2
<1>2. ~ OnlyWritesRd(r)
  BY DEF OnlyWritesRd
<1> QED BY <1>1, <1>2 DEF AgreesWithRow

\* Stores.
LEMMA AgreesStore ==
  ASSUME op \in Word, NEW h, result = Runs(FieldsS(op), h),
         NEW r, r[1] = h, r[2] = "S"
  PROVE  AgreesWithRow(r)
<1>1. /\ insn.handler = h
      /\ insn.rs1 = Reg(op, 15)
      /\ insn.rs2 = Reg(op, 20)
      /\ insn.imm = ImmS(op)
  BY DEF insn, Runs, With, FieldsS
<1>2. ImmAgrees(insn.imm, "S")
  <2>1. Carries(ImmS(op), op, LayS, 11)
    BY Carries_S
  <2> QED BY <1>1, <2>1 DEF ImmAgrees, FormatLay, FormatSign
<1>3. ~ OnlyWritesRd(r)
  BY DEF OnlyWritesRd
<1> QED BY <1>1, <1>2, <1>3 DEF AgreesWithRow

\* Branches.
LEMMA AgreesBranch ==
  ASSUME op \in Word, NEW h, result = BranchTo(FieldsB(op), h, pc, 4),
         NEW r, r[1] = h, r[2] = "B"
  PROVE  AgreesWithRow(r)
<1>1. /\ insn.handler = h
      /\ insn.rs1 = Reg(op, 15)
      /\ insn.rs2 = Reg(op, 20)
      /\ insn.imm = ImmB(op)
  BY DEF insn, BranchTo, Ends, With, FieldsB
<1>2. ImmAgrees(insn.imm, "B")
  <2>1. Carries(ImmB(op), op, LayB, 12)
    BY Carries_B
  <2> QED BY <1>1, <2>1 DEF ImmAgrees, FormatLay, FormatSign
<1>3. ~ OnlyWritesRd(r)
  BY DEF OnlyWritesRd
<1> QED BY <1>1, <1>2, <1>3 DEF AgreesWithRow

\* The CSR instructions.
LEMMA AgreesCsr ==
  ASSUME op \in Word, NEW h, result = Runs(FieldsCsr(op), h),
         NEW r, r[1] = h, r[2] = "C"
  PROVE  AgreesWithRow(r)
<1>1. /\ insn.handler = h
      /\ insn.rd = Reg(op, 7)
      /\ insn.rs1 = Reg(op, 15)
      /\ insn.imm = ImmCsr(op)
  BY DEF insn, Runs, With, FieldsCsr
<1>2. ImmAgrees(insn.imm, "C")
  <2>1. Carries(ImmCsr(op), op, LayI, Unsigned)
    BY Carries_Csr
  <2> QED BY <1>1, <2>1 DEF ImmAgrees
<1>3. ~ OnlyWritesRd(r)
  BY DEF OnlyWritesRd
<1> QED BY <1>1, <1>2, <1>3 DEF AgreesWithRow

\* lui and auipc.
LEMMA AgreesUpper ==
  ASSUME op \in Word, NEW h, result = TransUpper(op, h, pc),
         NEW r, r[1] = h, r[2] = "U"
  PROVE  AgreesWithRow(r)
<1>1. /\ insn.handler = h
      /\ insn.rd = Reg(op, 7)
      /\ insn.imm = ImmU(op)
  <2>1. CASE h = "auipc"
    BY <2>1 DEF insn, TransUpper, Runs, With, FieldsU
  <2>2. CASE h # "auipc"
    BY <2>2 DEF insn, TransUpper, Runs, With, FieldsU
  <2> QED BY <2>1, <2>2
<1>2. ImmAgrees(insn.imm, "U")
  <2>1. Carries(ImmU(op), op, LayU, 31)
    BY Carries_U
  <2> QED BY <1>1, <2>1 DEF ImmAgrees, FormatLay, FormatSign
<1>3. ~ OnlyWritesRd(r)
  BY DEF OnlyWritesRd
<1> QED BY <1>1, <1>2, <1>3 DEF AgreesWithRow

\* jal
LEMMA AgreesJal ==
  ASSUME op \in Word, result = JumpTo(FieldsJ(op), "jal", pc),
         NEW r, r[1] = "jal", r[2] = "J"
  PROVE  AgreesWithRow(r)
<1>1. /\ insn.handler = "jal"
      /\ insn.rd = Reg(op, 7)
      /\ insn.imm = ImmJ(op)
  BY DEF insn, JumpTo, Ends, With, FieldsJ
<1>2. ImmAgrees(insn.imm, "J")
  <2>1. Carries(ImmJ(op), op, LayJ, 20)
    BY Carries_J
  <2> QED BY <1>1, <2>1 DEF ImmAgrees, FormatLay, FormatSign
<1>3. ~ OnlyWritesRd(r)
  BY DEF OnlyWritesRd
<1> QED BY <1>1, <1>2, <1>3 DEF AgreesWithRow

\* jalr
LEMMA AgreesJalr ==
  ASSUME op \in Word, result = Ends(FieldsI(op), "jalr", pc, <<>>),
         NEW r, r[1] = "jalr", r[2] = "I"
  PROVE  AgreesWithRow(r)
<1>1. /\ insn.handler = "jalr"
      /\ insn.rd = Reg(op, 7)
      /\ insn.rs1 = Reg(op, 15)
      /\ insn.imm = ImmI(op)
  BY DEF insn, Ends, With, FieldsI
<1>2. ImmAgrees(insn.imm, "I")
  <2>1. Carries(ImmI(op), op, LayI, 11)
    BY Carries_I
  <2> QED BY <1>1, <2>1 DEF ImmAgrees, FormatLay, FormatSign
<1>3. ~ OnlyWritesRd(r)
  BY DEF OnlyWritesRd
<1> QED BY <1>1, <1>2, <1>3 DEF AgreesWithRow

\* The three outcomes DecodesLikeTheIsa allows.
Agreed ==
  \/ \E r \in Matching(op) : AgreesWithRow(r)
  \/ Matching(op) = {} /\ insn.handler = "illegal"
  \/ TakenForEcall

(***************************************************************************)
(* decode_insn32 agrees with the ISA on every word.                        *)
(***************************************************************************)
LEMMA Agreed32 ==
  ASSUME op \in Word, result = decode_insn32(op, pc)
  PROVE  Agreed
<1> DEFINE o == Num(op, 0, 7)
<1>1. ASSUME result = trans_illegal(NoFields, pc), Matching(op) = {}
      PROVE  Agreed
  <2>1. insn.handler = "illegal"
    BY <1>1 DEF insn, trans_illegal, Ends, With, NoFields
  <2> QED BY <1>1, <2>1 DEF Agreed
<1>4. CASE o = 3
  <2>1. result = IF LoadOp(op) = "illegal" THEN trans_illegal(NoFields, pc)
                 ELSE UnlessRd0(FieldsI(op), LoadOp(op))
    BY <1>4, Insn32
  <2>2. LoadOp(op) # "jalr"
    BY OpNames DEF ImmNames, Csrs
  <2> QED BY <1>1, <1>4, <2>1, <2>2, LoadMatch, AgreesImm DEF Agreed
<1>5. CASE o = 19
  <2>1. result = IF OpImm(op) = "illegal" THEN trans_illegal(NoFields, pc)
                 ELSE UnlessRd0(FieldsI(op), OpImm(op))
    BY <1>5, Insn32
  <2>2. OpImm(op) # "jalr"
    BY OpNames DEF ImmNames, Csrs
  <2> QED BY <1>1, <1>5, <2>1, <2>2, ImmMatch, AgreesImm DEF Agreed
<1>6. CASE o = 27
  <2>1. result = IF OpImm32(op) = "illegal" THEN trans_illegal(NoFields, pc)
                 ELSE UnlessRd0(FieldsI(op), OpImm32(op))
    BY <1>6, Insn32
  <2>2. OpImm32(op) # "jalr"
    BY OpNames DEF ImmNames, Csrs
  <2> QED BY <1>1, <1>6, <2>1, <2>2, Imm32Match, AgreesImm DEF Agreed
<1>7. CASE o = 51
  <2>1. result = IF Op(op) = "illegal" THEN trans_illegal(NoFields, pc)
                 ELSE UnlessRd0(FieldsR(op), Op(op))
    BY <1>7, Insn32
  <2> QED BY <1>1, <1>7, <2>1, RegMatch, AgreesReg DEF Agreed
<1>8. CASE o = 59
  <2>1. result = IF Op32(op) = "illegal" THEN trans_illegal(NoFields, pc)
                 ELSE UnlessRd0(FieldsR(op), Op32(op))
    BY <1>8, Insn32
  <2> QED BY <1>1, <1>8, <2>1, Reg32Match, AgreesReg DEF Agreed
<1>9. CASE o = 35
  <2>1. result = IF StoreOp(op) = "illegal" THEN trans_illegal(NoFields, pc)
                 ELSE Runs(FieldsS(op), StoreOp(op))
    BY <1>9, Insn32
  <2> QED BY <1>1, <1>9, <2>1, StoreMatch, AgreesStore DEF Agreed
<1>10. CASE o = 15
  <2>1. result = IF FenceOp(op) = "illegal" THEN trans_illegal(NoFields, pc)
                 ELSE Runs(NoFields, FenceOp(op))
    BY <1>10, Insn32
  <2>2. CASE FenceOp(op) = "illegal"
    BY <1>1, <1>10, <2>1, <2>2, JumpMatch
  <2>3. CASE FenceOp(op) # "illegal"
    <3>1. PICK r \in Matching(op) : r[2] = "F"
      BY <1>10, <2>3, JumpMatch
    <3>2. insn.handler = "empty"
      BY <2>1, <2>3 DEF FenceOp, insn, Runs, With, NoFields
    <3> QED BY <3>1, <3>2 DEF Agreed, AgreesWithRow
  <2> QED BY <2>2, <2>3
<1>11. CASE o = 47
  <2>1. result = IF AmoOp(op) = "illegal" THEN trans_illegal(NoFields, pc)
                 ELSE TransAtom(op, AmoOp(op))
    BY <1>11, Insn32
  <2> QED BY <1>1, <1>11, <2>1, AmoMatch, AgreesAmo DEF Agreed
<1>12. CASE o = 55
  <2>1. result = TransUpper(op, "lui", pc)
    BY <1>12, Insn32
  <2> PICK r : r = <<"lui", "U", 55, Any3, Any7>>
    OBVIOUS
  <2>2. r \in Matching(op) /\ r[1] = "lui" /\ r[2] = "U"
    BY <1>12, JumpMatch
  <2> QED BY <2>1, <2>2, AgreesUpper DEF Agreed
<1>13. CASE o = 23
  <2>1. result = TransUpper(op, "auipc", pc)
    BY <1>13, Insn32
  <2> PICK r : r = <<"auipc", "U", 23, Any3, Any7>>
    OBVIOUS
  <2>2. r \in Matching(op) /\ r[1] = "auipc" /\ r[2] = "U"
    BY <1>13, JumpMatch
  <2> QED BY <2>1, <2>2, AgreesUpper DEF Agreed
<1>14. CASE o = 99
  <2>1. result = IF BranchOp(op) = "illegal" THEN trans_illegal(NoFields, pc)
                 ELSE BranchTo(FieldsB(op), BranchOp(op), pc, 4)
    BY <1>14, Insn32
  <2> QED BY <1>1, <1>14, <2>1, BranchMatch, AgreesBranch DEF Agreed
<1>15. CASE o = 103
  <2>1. result = IF JalrOp(op) = "illegal" THEN trans_illegal(NoFields, pc)
                 ELSE Ends(FieldsI(op), "jalr", pc, <<>>)
    BY <1>15, Insn32
  <2>2. CASE JalrOp(op) = "illegal"
    BY <1>1, <1>15, <2>1, <2>2, JumpMatch
  <2>3. CASE JalrOp(op) # "illegal"
    <3> PICK r : r = <<"jalr", "I", 103, {0}, Any7>>
      OBVIOUS
    <3>1. r \in Matching(op) /\ r[1] = "jalr" /\ r[2] = "I"
      BY <1>15, <2>3, JumpMatch
    <3> QED BY <2>1, <2>3, <3>1, AgreesJalr DEF Agreed
  <2> QED BY <2>2, <2>3
<1>16. CASE o = 111
  <2>1. result = JumpTo(FieldsJ(op), "jal", pc)
    BY <1>16, Insn32
  <2> PICK r : r = <<"jal", "J", 111, Any3, Any7>>
    OBVIOUS
  <2>2. r \in Matching(op) /\ r[1] = "jal" /\ r[2] = "J"
    BY <1>16, JumpMatch
  <2> QED BY <2>1, <2>2, AgreesJal DEF Agreed
<1>17. CASE o = 115
  <2>1. result = IF SystemOp(op) = "illegal" THEN trans_illegal(NoFields, pc)
                 ELSE TransSystem(op, SystemOp(op), pc)
    BY <1>17, Insn32
  <2>2. CASE funct3(op) = 0
    <3>1. SystemOp(op) = "ecall"
      BY <2>2 DEF SystemOp
    <3>2. insn.handler = "ecall"
      BY <2>1, <3>1 DEF insn, TransSystem, Ends, With, NoFields
    <3> QED BY <1>17, <2>2, <3>2 DEF Agreed, TakenForEcall
  <2>3. CASE funct3(op) # 0
    <3>1. SystemOp(op) # "ecall"
      BY <2>3, NumRange DEF SystemOp, funct3
    <3> QED BY <1>1, <1>17, <2>1, <2>3, <3>1, SystemMatch, AgreesCsr
            DEF Agreed, TransSystem
  <2> QED BY <2>2, <2>3
<1>18. CASE o \notin {3, 15, 19, 23, 27, 35, 47, 51, 55, 59, 99, 103, 111, 115}
  <2>1. result = trans_illegal(NoFields, pc)
    BY <1>18, Insn32
  <2> QED BY <1>1, <1>18, <2>1, NoMatch
<1> QED
  BY <1>4, <1>5, <1>6, <1>7, <1>8, <1>9, <1>10, <1>11, <1>12, <1>13, <1>14,
     <1>15, <1>16, <1>17, <1>18

(***************************************************************************)
(* decode_insn16 works on the lower half of the word.                      *)
(***************************************************************************)
\* The fields that are compared with zero, against the smaller ones.
LEMMA NumLong ==
  ASSUME NEW w \in Word
  PROVE  /\ Num(w, 2, 10) = Num(w, 2, 5) + 32 * Num(w, 7, 5)
         /\ Num(w, 2, 11) = 0 => Num(w, 5, 8) = 0
<1>1. /\ w[2] \in 0 .. 1 /\ w[3] \in 0 .. 1 /\ w[4] \in 0 .. 1
      /\ w[5] \in 0 .. 1 /\ w[6] \in 0 .. 1 /\ w[7] \in 0 .. 1
      /\ w[8] \in 0 .. 1 /\ w[9] \in 0 .. 1 /\ w[10] \in 0 .. 1
      /\ w[11] \in 0 .. 1 /\ w[12] \in 0 .. 1
  BY DEF Word, Bit
<1>2. /\ Num(w, 2, 5) = w[2] + 2 * w[3] + 4 * w[4] + 8 * w[5] + 16 * w[6]
      /\ Num(w, 5, 5) = w[5] + 2 * w[6] + 4 * w[7] + 8 * w[8] + 16 * w[9]
      /\ Num(w, 7, 5) = w[7] + 2 * w[8] + 4 * w[9] + 8 * w[10] + 16 * w[11]
  <2>1. \A p \in 0 .. 27 :
          Num(w, p, 5) = w[p] + 2 * w[p + 1] + 4 * w[p + 2] + 8 * w[p + 3]
                         + 16 * w[p + 4]
    BY NumFive
  <2> QED BY <2>1
<1>a5. Num(w, 2, 6) = Num(w, 2, 5) + 32 * w[7]
  <2>1. Num(w, 2, 5 + 1) = Num(w, 2, 5) + 2 ^ 5 * w[2 + 5]
    BY ONLY NumStep, 2 \in Nat, 5 \in Nat, Zenon
  <2> QED BY <2>1
<1>a6. Num(w, 2, 7) = Num(w, 2, 6) + 64 * w[8]
  <2>1. Num(w, 2, 6 + 1) = Num(w, 2, 6) + 2 ^ 6 * w[2 + 6]
    BY ONLY NumStep, 2 \in Nat, 6 \in Nat, Zenon
  <2> QED BY <2>1
<1>a7. Num(w, 2, 8) = Num(w, 2, 7) + 128 * w[9]
  <2>1. Num(w, 2, 7 + 1) = Num(w, 2, 7) + 2 ^ 7 * w[2 + 7]
    BY ONLY NumStep, 2 \in Nat, 7 \in Nat, Zenon
  <2> QED BY <2>1
<1>a8. Num(w, 2, 9) = Num(w, 2, 8) + 256 * w[10]
  <2>1. Num(w, 2, 8 + 1) = Num(w, 2, 8) + 2 ^ 8 * w[2 + 8]
    BY ONLY NumStep, 2 \in Nat, 8 \in Nat, Zenon
  <2> QED BY <2>1
<1>a9. Num(w, 2, 10) = Num(w, 2, 9) + 512 * w[11]
  <2>1. Num(w, 2, 9 + 1) = Num(w, 2, 9) + 2 ^ 9 * w[2 + 9]
    BY ONLY NumStep, 2 \in Nat, 9 \in Nat, Zenon
  <2> QED BY <2>1
<1>a10. Num(w, 2, 11) = Num(w, 2, 10) + 1024 * w[12]
  <2>1. Num(w, 2, 10 + 1) = Num(w, 2, 10) + 2 ^ 10 * w[2 + 10]
    BY ONLY NumStep, 2 \in Nat, 10 \in Nat, Zenon
  <2> QED BY <2>1
<1>b5. Num(w, 5, 6) = Num(w, 5, 5) + 32 * w[10]
  <2>1. Num(w, 5, 5 + 1) = Num(w, 5, 5) + 2 ^ 5 * w[5 + 5]
    BY ONLY NumStep, 5 \in Nat, 5 \in Nat, Zenon
  <2> QED BY <2>1
<1>b6. Num(w, 5, 7) = Num(w, 5, 6) + 64 * w[11]
  <2>1. Num(w, 5, 6 + 1) = Num(w, 5, 6) + 2 ^ 6 * w[5 + 6]
    BY ONLY NumStep, 5 \in Nat, 6 \in Nat, Zenon
  <2> QED BY <2>1
<1>b7. Num(w, 5, 8) = Num(w, 5, 7) + 128 * w[12]
  <2>1. Num(w, 5, 7 + 1) = Num(w, 5, 7) + 2 ^ 7 * w[5 + 7]
    BY ONLY NumStep, 5 \in Nat, 7 \in Nat, Zenon
  <2> QED BY <2>1
<1>r. Num(w, 2, 5) \in 0 .. 31 /\ Num(w, 7, 5) \in 0 .. 31
  BY NumRange
<1>3. Num(w, 2, 10) = Num(w, 2, 5) + 32 * Num(w, 7, 5)
  <2>1. Num(w, 2, 7) = Num(w, 2, 5) + 32 * w[7] + 64 * w[8]
    BY <1>1, <1>r, <1>a5, <1>a6
  <2>2. Num(w, 2, 9) = Num(w, 2, 5) + 32 * w[7] + 64 * w[8] + 128 * w[9]
                       + 256 * w[10]
    BY <1>1, <1>r, <1>a7, <1>a8, <2>1
  <2>3. Num(w, 2, 10) = Num(w, 2, 5) + 32 * w[7] + 64 * w[8] + 128 * w[9]
                        + 256 * w[10] + 512 * w[11]
    BY <1>1, <1>r, <1>a9, <2>2
  <2> QED BY <1>1, <1>2, <1>r, <2>3
<1>4. Num(w, 2, 11) = Num(w, 2, 5) + 32 * Num(w, 7, 5) + 1024 * w[12]
  BY <1>1, <1>r, <1>3, <1>a10
<1>5. Num(w, 5, 8) = w[5] + 2 * w[6] + 4 * w[7] + 8 * w[8] + 16 * w[9]
                     + 32 * w[10] + 64 * w[11] + 128 * w[12]
  BY <1>1, <1>2, <1>b5, <1>b6, <1>b7
<1>6. ASSUME Num(w, 2, 11) = 0 PROVE Num(w, 5, 8) = 0
  <2>1. /\ w[5] = 0 /\ w[6] = 0 /\ w[7] = 0 /\ w[8] = 0 /\ w[9] = 0
        /\ w[10] = 0 /\ w[11] = 0 /\ w[12] = 0
    <3>2. Num(w, 2, 5) = 0 /\ Num(w, 7, 5) = 0 /\ w[12] = 0
      BY <1>1, <1>r, <1>4, <1>6
    <3>3. w[5] = 0 /\ w[6] = 0
      BY <1>1, <1>2, <3>2
    <3>4. w[7] = 0 /\ w[8] = 0 /\ w[9] = 0 /\ w[10] = 0 /\ w[11] = 0
      BY <1>1, <1>2, <3>2
    <3> QED BY <3>2, <3>3, <3>4
  <2> QED BY <1>5, <2>1
<1> QED BY <1>3, <1>6

\* The lower half: its fields and the expansion of the word.
LEMMA LowerHalf ==
  ASSUME NEW x \in Word
  PROVE  LET w == extract32(x, 0, 16) IN
         /\ w \in Word
         /\ \A b \in 0 .. 15 : w[b] = x[b]
         /\ Expansion(w) = Expansion(x)
<1> DEFINE w == extract32(x, 0, 16)
<1>1. w \in Word
  BY ExtractWord
<1>2. \A b \in 0 .. 15 : w[b] = x[b]
  BY DEF extract32
<1> HIDE DEF w
<1>3. /\ Num(w, 0, 2) = Num(x, 0, 2) /\ Num(w, 13, 3) = Num(x, 13, 3)
      /\ Num(w, 7, 5) = Num(x, 7, 5) /\ Num(w, 2, 5) = Num(x, 2, 5)
      /\ Num(w, 7, 3) = Num(x, 7, 3) /\ Num(w, 2, 3) = Num(x, 2, 3)
      /\ Num(w, 2, 11) = Num(x, 2, 11) /\ Num(w, 5, 8) = Num(x, 5, 8)
      /\ Num(w, 10, 2) = Num(x, 10, 2) /\ Num(w, 5, 2) = Num(x, 5, 2)
  <2>1. ASSUME NEW p \in Nat, NEW n \in Nat, p + n <= 16
        PROVE  Num(w, p, n) = Num(x, p, n)
    <3>1. \A b \in p .. p + n - 1 : w[b] = x[b]
      BY <1>2, <2>1
    <3> QED BY <3>1, NumSame
  <2> QED BY <2>1
<1>4. w[12] = x[12]
  BY <1>2
<1>5. Expansion(w) = Expansion(x)
  <2>1. Quadrant0(w) = Quadrant0(x)
    BY <1>3 DEF Quadrant0, C_r3, C_s3
  <2>2. Quadrant1(w) = Quadrant1(x)
    <3>1. AluExpansion(w) = AluExpansion(x)
      BY <1>3, <1>4 DEF AluExpansion, C_r3, C_s3
    <3> QED BY <1>3, <1>4, <3>1 DEF Quadrant1, C_r, C_s, C_r3
  <2>3. Quadrant2(w) = Quadrant2(x)
    <3>1. JumpExpansion(w) = JumpExpansion(x)
      BY <1>3, <1>4 DEF JumpExpansion, C_r, C_s
    <3> QED BY <1>3, <3>1 DEF Quadrant2, C_r, C_s
  <2> QED BY <1>3, <2>1, <2>2, <2>3 DEF Expansion
<1> QED BY <1>1, <1>2, <1>5 DEF w

(***************************************************************************)
(* The manual's table of the compressed instructions, and decode_insn16,   *)
(* row by row: b is the funct3.                                           *)
(***************************************************************************)
LEMMA ExpansionQ0 ==
  ASSUME NEW w, Num(w, 0, 2) = 0
  PROVE  LET b == Num(w, 13, 3)
             e == Expansion(w)
         IN
         /\ b = 0 => e = IF Num(w, 2, 11) = 0 THEN Absent
                         ELSE IF Num(w, 5, 8) = 0 THEN Reserved
                         ELSE Pair("addi", C_s3(w), 2, NoReg, LayC_addi4spn, 32)
         /\ b = 2 => e = Pair("lw", C_s3(w), C_r3(w), NoReg, LayC_w, 32)
         /\ b = 3 => e = Pair("ld", C_s3(w), C_r3(w), NoReg, LayC_d, 32)
         /\ b = 6 => e = Pair("sw", NoReg, C_r3(w), C_s3(w), LayC_w, 32)
         /\ b = 7 => e = Pair("sd", NoReg, C_r3(w), C_s3(w), LayC_d, 32)
         /\ b \in {1, 4, 5} => e = Absent
  BY DEF Expansion, Quadrant0

\* Quadrant 1 of the table.
LEMMA ExpansionQ1 ==
  ASSUME NEW w, Num(w, 0, 2) = 1
  PROVE  LET b == Num(w, 13, 3)
             e == Expansion(w)
             r == C_r(w)
         IN
         /\ b = 0 => e = IF r = 0 THEN Hint
                         ELSE Pair("addi", r, r, NoReg, LayC_6, 5)
         /\ b = 1 => e = IF r = 0 THEN Reserved
                         ELSE Pair("addiw", r, r, NoReg, LayC_6, 5)
         /\ b = 2 => e = IF r = 0 THEN Hint
                         ELSE Pair("addi", r, 0, NoReg, LayC_6, 5)
         /\ b = 3 => e = IF C_s(w) + 32 * w[12] = 0 THEN Reserved
                         ELSE IF r = 2
                         THEN Pair("addi", 2, 2, NoReg, LayC_addi16sp, 9)
                         ELSE IF r = 0 THEN Hint
                         ELSE Pair("lui", r, NoReg, NoReg, LayC_lui, 17)
         /\ b = 5 => e = Pair("jal", 0, NoReg, NoReg, LayC_j, 11)
         /\ b = 6 => e = Pair("beq", NoReg, C_r3(w), 0, LayC_b, 8)
         /\ b = 7 => e = Pair("bne", NoReg, C_r3(w), 0, LayC_b, 8)
  BY DEF Expansion, Quadrant1

\* The register operations of quadrant 1.
LEMMA ExpansionAlu ==
  ASSUME NEW w \in Word, Num(w, 0, 2) = 1, Num(w, 13, 3) = 4
  PROVE  LET e == Expansion(w)
             sub == Num(w, 10, 2)
             alu == AluNames[Num(w, 5, 2) + 4 * w[12] + 1]
             r3 == C_r3(w)
         IN
         /\ sub = 0 => e = Pair("srli", r3, r3, NoReg, LayC_6, 32)
         /\ sub = 1 => e = Pair("srai", r3, r3, NoReg, LayC_6, 32)
         /\ sub = 2 => e = Pair("andi", r3, r3, NoReg, LayC_6, 5)
         /\ sub \notin {0, 1, 2} =>
              e = IF alu = "" THEN Reserved
                  ELSE Pair(alu, r3, r3, C_s3(w), {}, 32)
<1>1. Expansion(w) = AluExpansion(w)
  BY DEF Expansion, Quadrant1
<1> DEFINE sub == Num(w, 10, 2)
           alu == AluNames[Num(w, 5, 2) + 4 * w[12] + 1]
           r3 == C_r3(w)
<1>2. AluExpansion(w) =
        CASE sub = 0 -> Pair("srli", r3, r3, NoReg, LayC_6, 32)
          [] sub = 1 -> Pair("srai", r3, r3, NoReg, LayC_6, 32)
          [] sub = 2 -> Pair("andi", r3, r3, NoReg, LayC_6, 5)
          [] OTHER -> IF alu = "" THEN Reserved
                      ELSE Pair(alu, r3, r3, C_s3(w), {}, 32)
  BY DEF AluExpansion
<1>r. sub \in 0 .. 3
  BY NumRange
<1> HIDE DEF sub, alu, r3
<1>3. /\ sub = 0 => Expansion(w) = Pair("srli", r3, r3, NoReg, LayC_6, 32)
      /\ sub = 1 => Expansion(w) = Pair("srai", r3, r3, NoReg, LayC_6, 32)
      /\ sub = 2 => Expansion(w) = Pair("andi", r3, r3, NoReg, LayC_6, 5)
  <2>1. CASE sub = 0
    BY <1>1, <1>2, <2>1
  <2>2. CASE sub = 1
    BY <1>1, <1>2, <2>2
  <2>3. CASE sub = 2
    BY <1>1, <1>2, <2>3
  <2> QED BY <1>r, <2>1, <2>2, <2>3
<1>4. sub \notin {0, 1, 2} =>
        Expansion(w) = IF alu = "" THEN Reserved
                       ELSE Pair(alu, r3, r3, C_s3(w), {}, 32)
  BY <1>1, <1>2, <1>r
<1> QED BY <1>3, <1>4 DEF sub, alu, r3

\* Quadrant 2 of the table.
LEMMA ExpansionQ2 ==
  ASSUME NEW w, Num(w, 0, 2) = 2
  PROVE  LET b == Num(w, 13, 3)
             e == Expansion(w)
             r == C_r(w)
             s == C_s(w)
         IN
         /\ b = 0 => e = IF r = 0 THEN Hint
                         ELSE Pair("slli", r, r, NoReg, LayC_6, 32)
         /\ b = 2 => e = IF r = 0 THEN Reserved
                         ELSE Pair("lw", r, 2, NoReg, LayC_lwsp, 32)
         /\ b = 3 => e = IF r = 0 THEN Reserved
                         ELSE Pair("ld", r, 2, NoReg, LayC_ldsp, 32)
         /\ b = 6 => e = Pair("sw", NoReg, 2, s, LayC_swsp, 32)
         /\ b = 7 => e = Pair("sd", NoReg, 2, s, LayC_sdsp, 32)
         /\ b \in {1, 5} => e = Absent
  BY DEF Expansion, Quadrant2

\* The jumps, moves and additions of quadrant 2.
LEMMA ExpansionJr ==
  ASSUME NEW w, Num(w, 0, 2) = 2, Num(w, 13, 3) = 4
  PROVE  LET e == Expansion(w)
             r == C_r(w)
             s == C_s(w)
         IN
         /\ s = 0 /\ r = 0 => e = IF w[12] = 0 THEN Reserved
                                  ELSE [Hint EXCEPT !.name = "ebreak"]
         /\ s = 0 /\ r # 0 => e = Pair("jalr", w[12], r, NoReg, {}, 32)
         /\ s # 0 /\ r = 0 => e = Hint
         /\ s # 0 /\ r # 0 =>
              e = IF w[12] = 0 THEN Pair("addi", r, s, NoReg, {}, 32)
                  ELSE Pair("add", r, r, s, {}, 32)
  BY DEF Expansion, Quadrant2, JumpExpansion

\* decode_insn16, quadrant by quadrant.
LEMMA Insn16 ==
  ASSUME NEW w, NEW q
  PROVE  /\ Num(w, 0, 2) = 0 => decode_insn16(w, q) = TransC0(w, q)
         /\ Num(w, 0, 2) = 1 => decode_insn16(w, q) = TransC1(w, q)
         /\ Num(w, 0, 2) = 2 => decode_insn16(w, q) = TransC2(w, q)
  BY DEF decode_insn16

\* What CompressedExpands asks of a slot, for any word whose lower half is x;
\* the layouts take bits of that half only.
AgreesWith(slot, x, e) ==
  /\ UncompressedName(slot.handler) = e.name
  /\ e.rd  # NoReg => slot.rd = e.rd
  /\ e.rs1 # NoReg => slot.rs1 = e.rs1
  /\ e.rs2 # NoReg => slot.rs2 = e.rs2
  /\ "imm" \in DOMAIN slot => Carries(slot.imm, x, e.lay, e.sign)
  /\ \A d \in e.lay : d[1] \in 0 .. 15

Expanded(slot, x) ==
  LET e == Expansion(x) IN
  CASE e.name = "reserved" -> TRUE
    [] e.name = "illegal"  -> slot.handler = "illegal"
    [] e.name = "hint"     -> slot.handler \in {"empty", "illegal"}
    [] e.name = "ebreak"   -> slot.handler = "empty"
    [] OTHER               -> AgreesWith(slot, x, e)

Good(res, w, q) == Sound(res, q, 2) /\ Expanded(res.insn, w)

\* Refused, and nothing else is asked for.
LEMMA GoodIllegal ==
  ASSUME NEW fields, Fields(fields), NEW w, NEW q,
         Expansion(w) \in {Hint, Reserved, Absent}
  PROVE  Good(trans_illegal(fields, q), w, q)
<1> DEFINE res == trans_illegal(fields, q)
<1>1. Sound(res, q, 2)
  BY IllegalSound
<1>2. res.insn.handler = "illegal"
  BY DEF trans_illegal, Ends, With, Fields, Registers
<1> HIDE DEF res
<1>3. Expansion(w).name \in {"hint", "reserved", "illegal"}
  BY DEF Hint, Reserved, Absent, Pair
<1>4. Expanded(res.insn, w)
  <2> DEFINE e == Expansion(w)
  <2> HIDE DEF e
  <2>1. e.name \in {"hint", "reserved", "illegal"}
    BY <1>3 DEF e
  <2> QED BY <1>2, <2>1 DEF Expanded, e
<1> QED BY <1>1, <1>4 DEF Good, res

\* The layouts of the lower half.
LEMMA LayLow ==
  ASSUME NEW lay \in {{}, LayC_addi4spn, LayC_w, LayC_d, LayC_6, LayC_lui,
                      LayC_addi16sp, LayC_j, LayC_b, LayC_lwsp, LayC_ldsp,
                      LayC_swsp, LayC_sdsp}
  PROVE  \A d \in lay : d[1] \in 0 .. 15
  BY LayC_addi4spnList, LayC_wList, LayC_dList, LayC_6List, LayC_luiList,
     LayC_addi16spList, LayC_jList, LayC_bList, LayC_lwspList, LayC_ldspList,
     LayC_swspList, LayC_sdspList

\* The fields are those of the expansion.
FieldsAgree(fields, w, name, rd, rs1, rs2, lay, sign) ==
  /\ name \notin {"reserved", "illegal", "hint", "ebreak"}
  /\ rd  # NoReg => "rd" \in DOMAIN fields /\ fields.rd = rd
  /\ rs1 # NoReg => "rs1" \in DOMAIN fields /\ fields.rs1 = rs1
  /\ rs2 # NoReg => "rs2" \in DOMAIN fields /\ fields.rs2 = rs2
  /\ "imm" \in DOMAIN fields => Carries(fields.imm, w, lay, sign)
  /\ \A d \in lay : d[1] \in 0 .. 15

\* A slot with the fields of the expansion is what CompressedExpands asks for.
LEMMA FieldsExpand ==
  ASSUME NEW fields, Fields(fields), NEW w, NEW name, NEW rd, NEW rs1,
         NEW rs2, NEW lay, NEW sign,
         Expansion(w) = Pair(name, rd, rs1, rs2, lay, sign),
         FieldsAgree(fields, w, name, rd, rs1, rs2, lay, sign),
         NEW slot, UncompressedName(slot.handler) = name,
         DOMAIN fields \subseteq DOMAIN slot,
         DOMAIN slot \subseteq DOMAIN fields \cup {"handler", "pc"},
         \A f \in DOMAIN fields : slot[f] = fields[f]
  PROVE  Expanded(slot, w)
<1> DEFINE e == Expansion(w)
<1>1. /\ e.name = name /\ e.rd = rd /\ e.rs1 = rs1 /\ e.rs2 = rs2
      /\ e.lay = lay /\ e.sign = sign
  BY DEF Pair
<1> HIDE DEF e
<1>2. AgreesWith(slot, w, e)
  BY <1>1 DEF AgreesWith, FieldsAgree
<1>3. e.name \notin {"reserved", "illegal", "hint", "ebreak"}
  BY <1>1 DEF FieldsAgree
<1> QED BY <1>2, <1>3 DEF Expanded, e

\* A compressed instruction the block goes on behind.
LEMMA GoodRuns ==
  ASSUME NEW fields, Fields(fields), NEW w, NEW q, NEW name, NEW rd, NEW rs1,
         NEW rs2, NEW lay, NEW sign,
         Expansion(w) = Pair(name, rd, rs1, rs2, lay, sign),
         FieldsAgree(fields, w, name, rd, rs1, rs2, lay, sign),
         GoesOn(name), Needs(name) \subseteq DOMAIN fields
  PROVE  Good(Runs(fields, name), w, q)
<1> DEFINE slot == Runs(fields, name).insn
<1>1. Sound(Runs(fields, name), q, 2)
  BY RunsSound DEF GoesOn
<1>2. /\ slot.handler = name
      /\ DOMAIN slot = DOMAIN fields \cup {"handler"}
      /\ \A f \in DOMAIN fields : slot[f] = fields[f]
  <2>1. "handler" \notin DOMAIN fields
    BY DEF Fields, Registers
  <2> QED BY <2>1 DEF Runs, With
<1>3. UncompressedName(name) = name
  <2>1. name \notin {"c_jal", "c_jalr", "c_beq", "c_bne"}
    BY DEF GoesOn, Branches, Jumps
  <2> QED BY <2>1 DEF UncompressedName
<1> HIDE DEF slot
<1>4. Expanded(slot, w)
  BY <1>2, <1>3, FieldsExpand
<1> QED BY <1>1, <1>4 DEF Good, slot

\* A compressed jump or branch.
LEMMA GoodEnds ==
  ASSUME NEW fields, Fields(fields), NEW w, NEW q, NEW name, NEW rd, NEW rs1,
         NEW rs2, NEW lay, NEW sign,
         Expansion(w) = Pair(name, rd, rs1, rs2, lay, sign),
         FieldsAgree(fields, w, name, rd, rs1, rs2, lay, sign),
         NEW h, UncompressedName(h) = name, NEW next,
         Sound(Ends(fields, h, q, next), q, 2)
  PROVE  Good(Ends(fields, h, q, next), w, q)
<1> DEFINE slot == Ends(fields, h, q, next).insn
<1>2. /\ slot.handler = h
      /\ DOMAIN slot = DOMAIN fields \cup {"handler", "pc"}
      /\ \A f \in DOMAIN fields : slot[f] = fields[f]
  <2>1. DOMAIN fields \cap {"handler", "pc"} = {}
    BY DEF Fields, Registers
  <2> QED BY <2>1 DEF Ends, With
<1> HIDE DEF slot
<1>4. Expanded(slot, w)
  BY <1>2, FieldsExpand
<1> QED BY <1>4 DEF Good, slot

(***************************************************************************)
(* The shapes of the compressed instructions.                              *)
(***************************************************************************)
\* rd, rs1 and an immediate.
LEMMA ShapeI ==
  ASSUME NEW w, NEW q, NEW a \in 0 .. 31, NEW b \in 0 .. 31, NEW imm \in Word,
         NEW lay, NEW sign, Carries(imm, w, lay, sign),
         \A d \in lay : d[1] \in 0 .. 15, NEW name \in ImmNames,
         Expansion(w) = Pair(name, a, b, NoReg, lay, sign)
  PROVE  Good(Runs([rd |-> a, rs1 |-> b, imm |-> imm], name), w, q)
<1> DEFINE f == [rd |-> a, rs1 |-> b, imm |-> imm]
<1>1. /\ DOMAIN f = {"rd", "rs1", "imm"} /\ f.rd = a /\ f.rs1 = b
      /\ f.imm = imm
  OBVIOUS
<1>2. name \notin {"reserved", "illegal", "hint", "ebreak"}
  BY DEF ImmNames, Csrs
<1> HIDE DEF f
<1>3. Fields(f)
  BY <1>1 DEF Fields, Registers
<1>4. FieldsAgree(f, w, name, a, b, NoReg, lay, sign)
  BY <1>1, <1>2 DEF FieldsAgree
<1>5. GoesOn(name) /\ Needs(name) \subseteq DOMAIN f
  BY <1>1, NeedsOf
<1>6. Good(Runs(f, name), w, q)
  BY <1>3, <1>4, <1>5, GoodRuns
<1> QED BY <1>6 DEF f

\* rs1, rs2 and an immediate.
LEMMA ShapeS ==
  ASSUME NEW w, NEW q, NEW b \in 0 .. 31, NEW c \in 0 .. 31, NEW imm \in Word,
         NEW lay, NEW sign, Carries(imm, w, lay, sign),
         \A d \in lay : d[1] \in 0 .. 15, NEW name \in StoreNames,
         Expansion(w) = Pair(name, NoReg, b, c, lay, sign)
  PROVE  Good(Runs([rs2 |-> c, rs1 |-> b, imm |-> imm], name), w, q)
<1> DEFINE f == [rs2 |-> c, rs1 |-> b, imm |-> imm]
<1>1. /\ DOMAIN f = {"rs2", "rs1", "imm"} /\ f.rs2 = c /\ f.rs1 = b
      /\ f.imm = imm
  OBVIOUS
<1>2. name \notin {"reserved", "illegal", "hint", "ebreak"}
  BY DEF StoreNames
<1> HIDE DEF f
<1>3. Fields(f)
  BY <1>1 DEF Fields, Registers
<1>4. FieldsAgree(f, w, name, NoReg, b, c, lay, sign)
  BY <1>1, <1>2 DEF FieldsAgree
<1>5. GoesOn(name) /\ Needs(name) \subseteq DOMAIN f
  BY <1>1, NeedsOf
<1>6. Good(Runs(f, name), w, q)
  BY <1>3, <1>4, <1>5, GoodRuns
<1> QED BY <1>6 DEF f

\* Three registers.
LEMMA ShapeR ==
  ASSUME NEW w, NEW q, NEW a \in 0 .. 31, NEW b \in 0 .. 31,
         NEW c \in 0 .. 31, NEW name \in RegNames,
         Expansion(w) = Pair(name, a, b, c, {}, 32)
  PROVE  Good(Runs([rs2 |-> c, rd |-> a, rs1 |-> b], name), w, q)
<1> DEFINE f == [rs2 |-> c, rd |-> a, rs1 |-> b]
<1>1. /\ DOMAIN f = {"rs2", "rd", "rs1"} /\ f.rs2 = c /\ f.rd = a
      /\ f.rs1 = b
  OBVIOUS
<1>2. name \notin {"reserved", "illegal", "hint", "ebreak"}
  BY DEF RegNames
<1> HIDE DEF f
<1>3. Fields(f)
  BY <1>1 DEF Fields, Registers
<1>4. FieldsAgree(f, w, name, a, b, c, {}, 32)
  BY <1>1, <1>2 DEF FieldsAgree
<1>5. GoesOn(name) /\ Needs(name) \subseteq DOMAIN f
  BY <1>1, NeedsOf
<1>6. Good(Runs(f, name), w, q)
  BY <1>3, <1>4, <1>5, GoodRuns
<1> QED BY <1>6 DEF f

\* c.lui
LEMMA ShapeU ==
  ASSUME NEW w, NEW q, NEW a \in 0 .. 31, NEW imm \in Word,
         Carries(imm, w, LayC_lui, 17),
         Expansion(w) = Pair("lui", a, NoReg, NoReg, LayC_lui, 17)
  PROVE  Good(Runs([rd |-> a, imm |-> imm], "lui"), w, q)
<1> DEFINE f == [rd |-> a, imm |-> imm]
<1>1. DOMAIN f = {"rd", "imm"} /\ f.rd = a /\ f.imm = imm
  OBVIOUS
<1> HIDE DEF f
<1>3. Fields(f)
  BY <1>1 DEF Fields, Registers
<1>4. FieldsAgree(f, w, "lui", a, NoReg, NoReg, LayC_lui, 17)
  BY <1>1, LayLow DEF FieldsAgree
<1>5. GoesOn("lui") /\ Needs("lui") \subseteq DOMAIN f
  BY <1>1, NeedsOf
<1>6. Good(Runs(f, "lui"), w, q)
  BY <1>3, <1>4, <1>5, GoodRuns
<1> QED BY <1>6 DEF f

\* Nothing is done: hints that are accepted, and c.ebreak.
LEMMA ShapeEmpty ==
  ASSUME NEW fields, Fields(fields), NEW w, NEW q,
         Expansion(w).name \in {"hint", "ebreak", "reserved"}
  PROVE  Good(Runs(fields, "empty"), w, q)
<1> DEFINE res == Runs(fields, "empty")
           e == Expansion(w)
<1>1. Sound(res, q, 2)
  BY RunsSound, NeedsOf DEF GoesOn
<1>2. res.insn.handler = "empty"
  BY DEF Runs, With, Fields, Registers
<1> HIDE DEF res, e
<1>3. e.name \in {"hint", "ebreak", "reserved"}
  BY DEF e
<1>4. Expanded(res.insn, w)
  BY <1>2, <1>3 DEF Expanded, e
<1> QED BY <1>1, <1>4 DEF Good, res

\* The registers of the eight.
LEMMA CRegs ==
  ASSUME NEW w \in Word
  PROVE  /\ C_rd3(w) = C_s3(w) /\ C_s3(w) \in 0 .. 31
         /\ C_rs3(w) = C_r3(w) /\ C_r3(w) \in 0 .. 31
         /\ C_rd5(w) = C_r(w) /\ C_r(w) \in 0 .. 31
         /\ C_rs5(w) = C_s(w) /\ C_s(w) \in 0 .. 31
         /\ Num(w, 13, 3) \in 0 .. 7
         /\ w[12] \in 0 .. 1
<1>1. /\ Num(w, 13, 3) \in 0 .. 7 /\ Num(w, 2, 3) \in 0 .. 7
      /\ Num(w, 7, 3) \in 0 .. 7
      /\ Num(w, 2, 5) \in 0 .. 31 /\ Num(w, 7, 5) \in 0 .. 31
  BY NumRange
<1>2. w[12] \in 0 .. 1
  BY DEF Word, Bit
<1> QED BY <1>1, <1>2 DEF C_rd3, C_rs3, C_rd5, C_rs5, C_r, C_s, C_r3, C_s3,
                          ex_rvc_register, Reg

\* Quadrant 0.
LEMMA GoodC0 ==
  ASSUME NEW w \in Word, NEW q, Num(w, 0, 2) = 0
  PROVE  Good(TransC0(w, q), w, q)
<1> DEFINE b == Num(w, 13, 3)
           r3 == C_r3(w)
           s3 == C_s3(w)
           res == TransC0(w, q)
<1>1. b \in 0 .. 7 /\ r3 \in 0 .. 31 /\ s3 \in 0 .. 31
  BY CRegs
<1>2. C_rd3(w) = s3 /\ C_rs3(w) = r3
  BY CRegs
<1> HIDE DEF r3, s3
<1>3. /\ b = 0 => res = IF Num(w, 5, 8) = 0 THEN trans_illegal(NoFields, q)
                        ELSE Runs([rd |-> s3, rs1 |-> 2,
                                   imm |-> ImmC_addi4spn(w)], "addi")
      /\ b = 2 => res = Runs([rd |-> s3, rs1 |-> r3, imm |-> ImmC_w(w)], "lw")
      /\ b = 3 => res = Runs([rd |-> s3, rs1 |-> r3, imm |-> ImmC_d(w)], "ld")
      /\ b = 6 => res = Runs([rs2 |-> s3, rs1 |-> r3, imm |-> ImmC_w(w)], "sw")
      /\ b = 7 => res = Runs([rs2 |-> s3, rs1 |-> r3, imm |-> ImmC_d(w)], "sd")
      /\ b \in {1, 4, 5} => res = trans_illegal(NoFields, q)
  BY <1>2 DEF TransC0, Unless
<1> HIDE DEF b, res
<1>4. /\ "addi" \in ImmNames /\ "lw" \in ImmNames /\ "ld" \in ImmNames
      /\ "sw" \in StoreNames /\ "sd" \in StoreNames
  BY DEF ImmNames, StoreNames
<1>5. /\ \A d \in LayC_addi4spn : d[1] \in 0 .. 15
      /\ \A d \in LayC_w : d[1] \in 0 .. 15
      /\ \A d \in LayC_d : d[1] \in 0 .. 15
  BY LayLow
<1>6. /\ Carries(ImmC_addi4spn(w), w, LayC_addi4spn, 32)
      /\ Carries(ImmC_w(w), w, LayC_w, 32)
      /\ Carries(ImmC_d(w), w, LayC_d, 32)
  BY CompressedImmediatesAreTheIsas DEF Unsigned
<1>7. /\ ImmC_addi4spn(w) \in Word /\ ImmC_w(w) \in Word
      /\ ImmC_d(w) \in Word
  BY ImmCWord
<1>8. Expansion(w) \in {Absent, Reserved} => Good(trans_illegal(NoFields, q), w, q)
  BY GoodIllegal, FormatFields
<1>9. CASE b = 0
  <2>1. Expansion(w) = IF Num(w, 2, 11) = 0 THEN Absent
                       ELSE IF Num(w, 5, 8) = 0 THEN Reserved
                       ELSE Pair("addi", s3, 2, NoReg, LayC_addi4spn, 32)
    BY <1>9, ExpansionQ0 DEF b, s3
  <2>2. CASE Num(w, 5, 8) = 0
    BY <1>3, <1>8, <1>9, <2>1, <2>2 DEF res
  <2>3. CASE Num(w, 5, 8) # 0
    <3>1. Num(w, 2, 11) # 0
      BY <2>3, NumLong
    <3>2. Expansion(w) = Pair("addi", s3, 2, NoReg, LayC_addi4spn, 32)
      BY <2>1, <2>3, <3>1
    <3>3. 2 \in 0 .. 31
      OBVIOUS
    <3>4. Good(Runs([rd |-> s3, rs1 |-> 2, imm |-> ImmC_addi4spn(w)], "addi"),
               w, q)
      BY ONLY <1>1, <1>4, <1>5, <1>6, <1>7, <3>2, <3>3, ShapeI
    <3> QED BY <1>3, <1>9, <2>3, <3>4 DEF res
  <2> QED BY <2>2, <2>3
<1>10. CASE b = 2
  <2>1. Expansion(w) = Pair("lw", s3, r3, NoReg, LayC_w, 32)
    BY <1>10, ExpansionQ0 DEF b, s3, r3
  <2>2. Good(Runs([rd |-> s3, rs1 |-> r3, imm |-> ImmC_w(w)], "lw"), w, q)
    BY ONLY <1>1, <1>4, <1>5, <1>6, <1>7, <2>1, ShapeI
  <2> QED BY <1>3, <1>10, <2>2 DEF res
<1>11. CASE b = 3
  <2>1. Expansion(w) = Pair("ld", s3, r3, NoReg, LayC_d, 32)
    BY <1>11, ExpansionQ0 DEF b, s3, r3
  <2>2. Good(Runs([rd |-> s3, rs1 |-> r3, imm |-> ImmC_d(w)], "ld"), w, q)
    BY ONLY <1>1, <1>4, <1>5, <1>6, <1>7, <2>1, ShapeI
  <2> QED BY <1>3, <1>11, <2>2 DEF res
<1>12. CASE b = 6
  <2>1. Expansion(w) = Pair("sw", NoReg, r3, s3, LayC_w, 32)
    BY <1>12, ExpansionQ0 DEF b, s3, r3
  <2>2. Good(Runs([rs2 |-> s3, rs1 |-> r3, imm |-> ImmC_w(w)], "sw"), w, q)
    BY ONLY <1>1, <1>4, <1>5, <1>6, <1>7, <2>1, ShapeS
  <2> QED BY <1>3, <1>12, <2>2 DEF res
<1>13. CASE b = 7
  <2>1. Expansion(w) = Pair("sd", NoReg, r3, s3, LayC_d, 32)
    BY <1>13, ExpansionQ0 DEF b, s3, r3
  <2>2. Good(Runs([rs2 |-> s3, rs1 |-> r3, imm |-> ImmC_d(w)], "sd"), w, q)
    BY ONLY <1>1, <1>4, <1>5, <1>6, <1>7, <2>1, ShapeS
  <2> QED BY <1>3, <1>13, <2>2 DEF res
<1>14. CASE b \in {1, 4, 5}
  <2>1. Expansion(w) = Absent
    BY <1>14, ExpansionQ0 DEF b
  <2> QED BY <1>3, <1>8, <1>14, <2>1 DEF res
<1> QED BY <1>1, <1>9, <1>10, <1>11, <1>12, <1>13, <1>14 DEF b

\* The table of the register operations, as the two sides write it.
LEMMA AluNamesList ==
  ASSUME NEW k \in 0 .. 7
  PROVE  LET names == <<"sub", "xor", "or", "and", "subw", "addw">> IN
         /\ k < 6 => names[k + 1] = AluNames[k + 1]
         /\ k < 6 => AluNames[k + 1] \in RegNames \ {""}
         /\ k >= 6 => AluNames[k + 1] = ""
<1> DEFINE names == <<"sub", "xor", "or", "and", "subw", "addw">>
<1>1. /\ AluNames[1] = "sub" /\ names[1] = "sub"
      /\ AluNames[2] = "xor" /\ names[2] = "xor"
      /\ AluNames[3] = "or" /\ names[3] = "or"
      /\ AluNames[4] = "and" /\ names[4] = "and"
      /\ AluNames[5] = "subw" /\ names[5] = "subw"
      /\ AluNames[6] = "addw" /\ names[6] = "addw"
      /\ AluNames[7] = "" /\ AluNames[8] = ""
  BY DEF AluNames
<1>2. {"sub", "xor", "or", "and", "subw", "addw"} \subseteq RegNames \ {""}
  BY DEF RegNames
<1> HIDE DEF names
<1> DEFINE n == k + 1
<1>3. /\ k < 6 => n \in 1 .. 6
      /\ k >= 6 => n \in 7 .. 8
  OBVIOUS
<1> HIDE DEF n
<1>4. n \in 1 .. 6 => names[n] = AluNames[n]
  <2>1. n = 1 \/ n = 2 \/ n = 3 \/ n = 4 \/ n = 5 \/ n = 6 \/ n \notin 1 .. 6
    OBVIOUS
  <2> QED BY <1>1, <2>1
<1>5. n \in 1 .. 6 => AluNames[n] \in {"sub", "xor", "or", "and", "subw", "addw"}
  <2>1. n = 1 \/ n = 2 \/ n = 3 \/ n = 4 \/ n = 5 \/ n = 6 \/ n \notin 1 .. 6
    OBVIOUS
  <2> QED BY <1>1, <2>1
<1>6. n \in 7 .. 8 => AluNames[n] = ""
  <2>1. n = 7 \/ n = 8 \/ n \notin 7 .. 8
    OBVIOUS
  <2> QED BY <1>1, <2>1
<1>7. /\ k < 6 => names[n] = AluNames[n] /\ AluNames[n] \in RegNames \ {""}
      /\ k >= 6 => AluNames[n] = ""
  BY <1>2, <1>3, <1>4, <1>5, <1>6
<1>8. /\ k < 6 => names[k + 1] = AluNames[k + 1]
      /\ k < 6 => AluNames[k + 1] \in RegNames \ {""}
      /\ k >= 6 => AluNames[k + 1] = ""
  BY <1>7 DEF n
<1> QED BY <1>8 DEF names

\* Quadrant 1, the register operations and shifts.
LEMMA GoodC_alu ==
  ASSUME NEW w \in Word, NEW q, Num(w, 0, 2) = 1, Num(w, 13, 3) = 4
  PROVE  Good(TransC_alu(w, q), w, q)
<1> DEFINE sub == Num(w, 10, 2)
           sel == 4 * w[12] + Num(w, 5, 2)
           r3 == C_r3(w)
           s3 == C_s3(w)
           res == TransC_alu(w, q)
           names == <<"sub", "xor", "or", "and", "subw", "addw">>
<1>1. sub \in 0 .. 3 /\ r3 \in 0 .. 31 /\ s3 \in 0 .. 31
  BY CRegs, NumRange
<1>2. sel \in 0 .. 7
  BY CRegs, NumRange
<1>s. Num(w, 5, 2) + 4 * w[12] = sel
  BY CRegs, NumRange
<1>3. C_rd3(w) = s3 /\ C_rs3(w) = r3
  BY CRegs
<1> HIDE DEF r3, s3
<1>4. res = CASE sub = 0 -> Runs([rs1 |-> r3, rd |-> r3,
                                  imm |-> ImmC_shamt(w)], "srli")
              [] sub = 1 -> Runs([rs1 |-> r3, rd |-> r3,
                                  imm |-> ImmC_shamt(w)], "srai")
              [] sub = 2 -> Runs([rs1 |-> r3, rd |-> r3,
                                  imm |-> ImmC_6(w)], "andi")
              [] OTHER -> IF sel < 6
                          THEN Runs([rs2 |-> s3, rd |-> r3, rs1 |-> r3],
                                    names[sel + 1])
                          ELSE trans_illegal(NoFields, q)
  BY <1>3 DEF TransC_alu
<1>5. /\ "srli" \in ImmNames /\ "srai" \in ImmNames /\ "andi" \in ImmNames
  BY DEF ImmNames
<1>6. /\ Carries(ImmC_shamt(w), w, LayC_6, 32)
      /\ Carries(ImmC_6(w), w, LayC_6, 5)
  BY CompressedImmediatesAreTheIsas DEF Unsigned
<1>7. ImmC_shamt(w) \in Word /\ ImmC_6(w) \in Word
  BY ImmCWord
<1>8. \A d \in LayC_6 : d[1] \in 0 .. 15
  BY LayLow
<1>9. CASE sub = 0
  <2>1. Expansion(w) = Pair("srli", r3, r3, NoReg, LayC_6, 32)
    BY <1>9, ExpansionAlu DEF r3
  <2>2. Good(Runs([rd |-> r3, rs1 |-> r3, imm |-> ImmC_shamt(w)], "srli"), w, q)
    BY ONLY <1>1, <1>5, <1>6, <1>7, <1>8, <2>1, ShapeI
  <2>3. [rd |-> r3, rs1 |-> r3, imm |-> ImmC_shamt(w)]
          = [rs1 |-> r3, rd |-> r3, imm |-> ImmC_shamt(w)]
    OBVIOUS
  <2> HIDE DEF sub, sel, names, res
  <2>4. res = Runs([rs1 |-> r3, rd |-> r3, imm |-> ImmC_shamt(w)], "srli")
    BY <1>4, <1>9
  <2> QED BY <2>2, <2>3, <2>4 DEF res
<1>10. CASE sub = 1
  <2>1. Expansion(w) = Pair("srai", r3, r3, NoReg, LayC_6, 32)
    BY <1>10, ExpansionAlu DEF r3
  <2>2. Good(Runs([rd |-> r3, rs1 |-> r3, imm |-> ImmC_shamt(w)], "srai"), w, q)
    BY ONLY <1>1, <1>5, <1>6, <1>7, <1>8, <2>1, ShapeI
  <2>3. [rd |-> r3, rs1 |-> r3, imm |-> ImmC_shamt(w)]
          = [rs1 |-> r3, rd |-> r3, imm |-> ImmC_shamt(w)]
    OBVIOUS
  <2> HIDE DEF sub, sel, names, res
  <2>4. res = Runs([rs1 |-> r3, rd |-> r3, imm |-> ImmC_shamt(w)], "srai")
    BY <1>4, <1>10
  <2> QED BY <2>2, <2>3, <2>4 DEF res
<1>11. CASE sub = 2
  <2>1. Expansion(w) = Pair("andi", r3, r3, NoReg, LayC_6, 5)
    BY <1>11, ExpansionAlu DEF r3
  <2>2. Good(Runs([rd |-> r3, rs1 |-> r3, imm |-> ImmC_6(w)], "andi"), w, q)
    BY ONLY <1>1, <1>5, <1>6, <1>7, <1>8, <2>1, ShapeI
  <2>3. [rd |-> r3, rs1 |-> r3, imm |-> ImmC_6(w)]
          = [rs1 |-> r3, rd |-> r3, imm |-> ImmC_6(w)]
    OBVIOUS
  <2> HIDE DEF sub, sel, names, res
  <2>4. res = Runs([rs1 |-> r3, rd |-> r3, imm |-> ImmC_6(w)], "andi")
    BY <1>4, <1>11
  <2> QED BY <2>2, <2>3, <2>4 DEF res
<1>12. CASE sub \notin {0, 1, 2}
  <2>1. Expansion(w) = IF AluNames[sel + 1] = "" THEN Reserved
                       ELSE Pair(AluNames[sel + 1], r3, r3, s3, {}, 32)
    BY <1>s, <1>12, ExpansionAlu DEF r3, s3
  <2>2. /\ sel < 6 => names[sel + 1] = AluNames[sel + 1]
        /\ sel < 6 => AluNames[sel + 1] \in RegNames \ {""}
        /\ sel >= 6 => AluNames[sel + 1] = ""
    <3> HIDE DEF sel
    <3>1. /\ sel < 6 => names[sel + 1] = AluNames[sel + 1]
          /\ sel < 6 => AluNames[sel + 1] \in RegNames \ {""}
          /\ sel >= 6 => AluNames[sel + 1] = ""
      BY <1>2, AluNamesList
    <3> QED BY <3>1
  <2> HIDE DEF sub, sel, names, res
  <2>3. res = IF sel < 6
              THEN Runs([rs2 |-> s3, rd |-> r3, rs1 |-> r3], names[sel + 1])
              ELSE trans_illegal(NoFields, q)
    BY <1>4, <1>12
  <2>4. CASE sel < 6
    <3>1. Good(Runs([rs2 |-> s3, rd |-> r3, rs1 |-> r3], AluNames[sel + 1]),
               w, q)
      <4>1. Expansion(w) = Pair(AluNames[sel + 1], r3, r3, s3, {}, 32)
        BY <2>1, <2>2, <2>4
      <4> QED BY ONLY <1>1, <2>2, <2>4, <4>1, ShapeR
    <3> QED BY <2>2, <2>3, <2>4, <3>1 DEF res
  <2>5. CASE ~ (sel < 6)
    <3>1. Expansion(w) = Reserved
      <4>1. sel >= 6
        BY <1>2, <2>5
      <4> QED BY <2>1, <2>2, <4>1
    <3>2. Good(trans_illegal(NoFields, q), w, q)
      BY <3>1, GoodIllegal, FormatFields
    <3> QED BY <2>3, <2>5, <3>2 DEF res
  <2> QED BY <2>4, <2>5
<1> QED BY <1>9, <1>10, <1>11, <1>12

\* c.addi16sp and c.lui: an immediate of zero is the same for both sides.
LEMMA GoodC_lui ==
  ASSUME NEW w \in Word, NEW q, Num(w, 0, 2) = 1, Num(w, 13, 3) = 3
  PROVE  Good(TransC_lui(w, q), w, q)
<1> DEFINE r == C_r(w)
           lui == [rd |-> r, imm |-> ImmC_lui(w)]
           sp == [rd |-> 2, rs1 |-> 2, imm |-> ImmC_addi16sp(w)]
           res == TransC_lui(w, q)
<1>1. r \in 0 .. 31 /\ C_rd5(w) = r
  BY CRegs
<1> HIDE DEF r
<1>2. Expansion(w) = IF C_s(w) + 32 * w[12] = 0 THEN Reserved
                     ELSE IF r = 2
                     THEN Pair("addi", 2, 2, NoReg, LayC_addi16sp, 9)
                     ELSE IF r = 0 THEN Hint
                     ELSE Pair("lui", r, NoReg, NoReg, LayC_lui, 17)
  BY ExpansionQ1 DEF r
<1>3. res = IF r = 2 THEN Runs(sp, "addi")
            ELSE IF r \in {0, 2} \/ ImmC_lui(w) = ImmZero
            THEN trans_illegal(lui, q) ELSE Runs(lui, "lui")
  BY <1>1 DEF TransC_lui, Unless
<1>4. ImmC_lui(w) = ImmZero => C_s(w) + 32 * w[12] = 0
  <2> SUFFICES ASSUME ImmC_lui(w) = ImmZero PROVE C_s(w) + 32 * w[12] = 0
    OBVIOUS
  <2>1. \A d \in LayC_lui : ImmZero[d[2]] = w[d[1]]
    BY Carries_C_lui DEF Carries
  <2>2. /\ ImmZero[17] = 0 /\ ImmZero[16] = 0 /\ ImmZero[15] = 0
        /\ ImmZero[14] = 0 /\ ImmZero[13] = 0 /\ ImmZero[12] = 0
    BY DEF ImmZero
  <2>3. /\ w[12] = 0 /\ w[6] = 0 /\ w[5] = 0 /\ w[4] = 0 /\ w[3] = 0
        /\ w[2] = 0
    BY <2>1, <2>2, LayC_luiList
  <2>4. Num(w, 2, 5) = w[2] + 2 * w[2 + 1] + 4 * w[2 + 2] + 8 * w[2 + 3]
                       + 16 * w[2 + 4]
    BY NumFive
  <2> QED BY <2>3, <2>4 DEF C_s
<1>5. ImmC_lui(w) \in Word /\ ImmC_addi16sp(w) \in Word
  BY ImmCWord
<1>6. Fields(lui) /\ Fields(sp)
  BY <1>1, <1>5 DEF Fields, Registers
<1>7. ASSUME C_s(w) + 32 * w[12] = 0 PROVE Good(res, w, q)
  <2> DEFINE anything == IF r = 2 THEN "addi" ELSE "lui"
  <2>1. Expansion(w) = Reserved
    BY <1>2, <1>7
  <2>2. Sound(res, q, 2)
    <3>1. Sound(Runs(sp, "addi"), q, 2)
      <4>1. DOMAIN sp = {"rd", "rs1", "imm"}
        OBVIOUS
      <4>2. "addi" \in ImmNames
        BY DEF ImmNames
      <4>3. GoesOn("addi") /\ Needs("addi") \subseteq DOMAIN sp
        BY <4>1, <4>2, NeedsOf
      <4> HIDE DEF sp
      <4> QED BY <1>6, <4>3, RunsSound DEF GoesOn
    <3>2. Sound(Runs(lui, "lui"), q, 2)
      <4>1. DOMAIN lui = {"rd", "imm"}
        OBVIOUS
      <4>2. GoesOn("lui") /\ Needs("lui") \subseteq DOMAIN lui
        BY <4>1, NeedsOf
      <4> HIDE DEF lui
      <4> QED BY <1>6, <4>2, RunsSound DEF GoesOn
    <3>3. Sound(trans_illegal(lui, q), q, 2)
      BY <1>6, IllegalSound
    <3> HIDE DEF res, lui, sp
    <3> QED BY <1>3, <3>1, <3>2, <3>3
  <2>3. Expanded(res.insn, w)
    BY <2>1 DEF Expanded, Reserved, Pair
  <2> QED BY <2>2, <2>3 DEF Good
<1>8. ASSUME C_s(w) + 32 * w[12] # 0 PROVE Good(res, w, q)
  <2>1. CASE r = 2
    <3>1. Expansion(w) = Pair("addi", 2, 2, NoReg, LayC_addi16sp, 9)
      BY <1>2, <1>8, <2>1
    <3>2. /\ "addi" \in ImmNames /\ 2 \in 0 .. 31
          /\ Carries(ImmC_addi16sp(w), w, LayC_addi16sp, 9)
          /\ \A d \in LayC_addi16sp : d[1] \in 0 .. 15
      BY Carries_C_addi16sp, LayLow DEF ImmNames
    <3>3. Good(Runs(sp, "addi"), w, q)
      BY ONLY <1>5, <3>1, <3>2, ShapeI
    <3> QED BY <1>3, <2>1, <3>3
  <2>2. CASE r = 0
    <3>1. Expansion(w) = Hint
      BY <1>2, <1>8, <2>2
    <3>2. Good(trans_illegal(lui, q), w, q)
      BY <1>6, <3>1, GoodIllegal
    <3> HIDE DEF lui, sp, res
    <3> QED BY <1>3, <2>2, <3>2
  <2>3. CASE r \notin {0, 2}
    <3>1. Expansion(w) = Pair("lui", r, NoReg, NoReg, LayC_lui, 17)
      BY <1>2, <1>8, <2>3
    <3>2. Carries(ImmC_lui(w), w, LayC_lui, 17)
      BY Carries_C_lui
    <3>3. Good(Runs(lui, "lui"), w, q)
      BY ONLY <1>1, <1>5, <3>1, <3>2, ShapeU
    <3>4. res = Runs(lui, "lui")
      <4> HIDE DEF lui, sp, res
      <4> QED BY <1>3, <1>4, <1>8, <2>3
    <3> QED BY <3>3, <3>4
  <2> QED BY <2>1, <2>2, <2>3
<1> QED BY <1>7, <1>8

\* c.j: a jump without a link.
LEMMA ShapeJ ==
  ASSUME NEW w \in Word, NEW q,
         Expansion(w) = Pair("jal", 0, NoReg, NoReg, LayC_j, 11)
  PROVE  Good(JumpTo([rd |-> 0, imm |-> ImmC_j(w)], "c_jal", q), w, q)
<1> DEFINE f == [rd |-> 0, imm |-> ImmC_j(w)]
           next == <<q + Int32(f.imm)>>
<1>1. DOMAIN f = {"rd", "imm"} /\ f.rd = 0 /\ f.imm = ImmC_j(w)
  OBVIOUS
<1>2. JumpTo(f, "c_jal", q) = Ends(f, "c_jal", q, next)
  BY DEF JumpTo
<1>3. Carries(ImmC_j(w), w, LayC_j, 11) /\ ImmC_j(w) \in Word
  BY CompressedImmediatesAreTheIsas, ImmCWord
<1> HIDE DEF f
<1>4. Fields(f)
  BY <1>1, <1>3 DEF Fields, Registers
<1>5. FieldsAgree(f, w, "jal", 0, NoReg, NoReg, LayC_j, 11)
  BY <1>1, <1>3, LayLow DEF FieldsAgree
<1>6. /\ "c_jal" \in Jumps /\ "c_jal" \notin Branches
      /\ Behind("c_jal") = 2 /\ UncompressedName("c_jal") = "jal"
  BY DEF Jumps, Branches, Behind, UncompressedName
<1>7. Needs("c_jal") \subseteq DOMAIN f
  BY <1>1 DEF Needs, Traps, Branches, ImmNames, Csrs
<1>8. next = <<q + Int32(f.imm)>>
  OBVIOUS
<1> HIDE DEF next
<1>9. Sound(Ends(f, "c_jal", q, next), q, 2)
  BY <1>4, <1>6, <1>7, <1>8, EndsSound
<1>10. Good(Ends(f, "c_jal", q, next), w, q)
  BY <1>4, <1>5, <1>6, <1>9, GoodEnds
<1> QED BY <1>2, <1>10 DEF f

\* c.beqz and c.bnez.
LEMMA ShapeB ==
  ASSUME NEW w \in Word, NEW q, NEW b \in 0 .. 31, NEW name,
         NEW h \in {"c_beq", "c_bne"}, UncompressedName(h) = name,
         Expansion(w) = Pair(name, NoReg, b, 0, LayC_b, 8)
  PROVE  Good(BranchTo([rs1 |-> b, rs2 |-> 0, imm |-> ImmC_b(w)], h, q, 2),
              w, q)
<1> DEFINE f == [rs1 |-> b, rs2 |-> 0, imm |-> ImmC_b(w)]
           next == <<q + Int32(f.imm), q + 2>>
<1>1. /\ DOMAIN f = {"rs1", "rs2", "imm"} /\ f.rs1 = b /\ f.rs2 = 0
      /\ f.imm = ImmC_b(w)
  OBVIOUS
<1>2. BranchTo(f, h, q, 2) = Ends(f, h, q, next)
  BY DEF BranchTo
<1>3. Carries(ImmC_b(w), w, LayC_b, 8) /\ ImmC_b(w) \in Word
  BY CompressedImmediatesAreTheIsas, ImmCWord
<1>h. name \in {"beq", "bne"}
  BY DEF UncompressedName
<1> HIDE DEF f
<1>4. Fields(f)
  BY <1>1, <1>3 DEF Fields, Registers
<1>5. FieldsAgree(f, w, name, NoReg, b, 0, LayC_b, 8)
  BY <1>1, <1>3, <1>h, LayLow DEF FieldsAgree
<1>6. /\ h \in Branches /\ h \notin Jumps /\ Behind(h) = 2
  BY DEF Jumps, Branches, Behind
<1>7. Needs(h) \subseteq DOMAIN f
  <2>1. CASE h = "c_beq"
    BY <1>1, <2>1 DEF Needs, Branches, Traps, ImmNames, Csrs
  <2>2. CASE h = "c_bne"
    BY <1>1, <2>2 DEF Needs, Branches, Traps, ImmNames, Csrs
  <2> QED BY <2>1, <2>2
<1>8. next = <<q + Int32(f.imm), q + 2>>
  OBVIOUS
<1>9. h \notin {"jal", "c_jal"}
  OBVIOUS
<1> HIDE DEF next
<1>10. Sound(Ends(f, h, q, next), q, 2)
  BY <1>4, <1>6, <1>7, <1>8, <1>9, EndsSound
<1>11. Good(Ends(f, h, q, next), w, q)
  BY <1>4, <1>5, <1>6, <1>10, GoodEnds
<1> QED BY <1>2, <1>11 DEF f

\* c.jr and c.jalr: the base register is not x0.
LEMMA ShapeJr ==
  ASSUME NEW w, NEW q, NEW a \in 0 .. 31, NEW b \in 0 .. 31,
         Expansion(w) = Pair("jalr", a, b, NoReg, {}, 32)
  PROVE  Good(Ends([rd |-> a, rs1 |-> b, imm |-> ImmZero], "c_jalr", q, <<>>),
              w, q)
<1> DEFINE f == [rd |-> a, rs1 |-> b, imm |-> ImmZero]
<1>1. /\ DOMAIN f = {"rd", "rs1", "imm"} /\ f.rd = a /\ f.rs1 = b
      /\ f.imm = ImmZero
  OBVIOUS
<1>3. Carries(ImmZero, w, {}, 32) /\ ImmZero \in Word
  BY DEF Carries, ImmZero, Word, Bit
<1> HIDE DEF f
<1>4. Fields(f)
  BY <1>1, <1>3 DEF Fields, Registers
<1>5. FieldsAgree(f, w, "jalr", a, b, NoReg, {}, 32)
  BY <1>1, <1>3 DEF FieldsAgree
<1>6. /\ "c_jalr" \in Jumps /\ "c_jalr" \notin Branches
      /\ Behind("c_jalr") = 2 /\ UncompressedName("c_jalr") = "jalr"
  BY DEF Jumps, Branches, Behind, UncompressedName
<1>7. Needs("c_jalr") \subseteq DOMAIN f
  BY <1>1 DEF Needs, Traps, Branches, ImmNames, Csrs
<1>9. Sound(Ends(f, "c_jalr", q, <<>>), q, 2)
  BY <1>4, <1>6, <1>7, EndsSound
<1>10. Good(Ends(f, "c_jalr", q, <<>>), w, q)
  BY <1>4, <1>5, <1>6, <1>9, GoodEnds
<1> QED BY <1>10 DEF f

\* Quadrant 1.
LEMMA GoodC1 ==
  ASSUME NEW w \in Word, NEW q, Num(w, 0, 2) = 1
  PROVE  Good(TransC1(w, q), w, q)
<1> DEFINE b == Num(w, 13, 3)
           r == C_r(w)
           r3 == C_r3(w)
           addi == [rd |-> r, rs1 |-> r, imm |-> ImmC_6(w)]
           li == [rd |-> r, rs1 |-> 0, imm |-> ImmC_6(w)]
           beqz == [rs1 |-> r3, rs2 |-> 0, imm |-> ImmC_b(w)]
           res == TransC1(w, q)
<1>1. b \in 0 .. 7 /\ r \in 0 .. 31 /\ r3 \in 0 .. 31
  BY CRegs
<1>2. C_rd5(w) = r /\ C_rs3(w) = r3
  BY CRegs
<1> HIDE DEF r, r3
<1>3. /\ b = 0 => res = Runs(addi, IF r = 0 THEN "empty" ELSE "addi")
      /\ b = 1 => res = IF r = 0 THEN trans_illegal(addi, q)
                        ELSE Runs(addi, "addiw")
      /\ b = 2 => res = IF r = 0 THEN trans_illegal(li, q)
                        ELSE Runs(li, "addi")
      /\ b = 3 => res = TransC_lui(w, q)
      /\ b = 4 => res = TransC_alu(w, q)
      /\ b = 5 => res = JumpTo([rd |-> 0, imm |-> ImmC_j(w)], "c_jal", q)
      /\ b = 6 => res = BranchTo(beqz, "c_beq", q, 2)
      /\ b = 7 => res = BranchTo(beqz, "c_bne", q, 2)
  BY <1>2 DEF TransC1, Unless
<1>4. "addi" \in ImmNames /\ "addiw" \in ImmNames /\ 0 \in 0 .. 31
  BY DEF ImmNames
<1>5. \A d \in LayC_6 : d[1] \in 0 .. 15
  BY LayLow
<1>6. Carries(ImmC_6(w), w, LayC_6, 5) /\ ImmC_6(w) \in Word
  BY CompressedImmediatesAreTheIsas, ImmCWord
<1>7. Fields(addi) /\ Fields(li)
  BY <1>1, <1>6 DEF Fields, Registers
<1> HIDE DEF b, res
<1>8. /\ r # 0 /\ Expansion(w) = Pair("addi", r, r, NoReg, LayC_6, 5) =>
           Good(Runs(addi, "addi"), w, q)
      /\ r # 0 /\ Expansion(w) = Pair("addiw", r, r, NoReg, LayC_6, 5) =>
           Good(Runs(addi, "addiw"), w, q)
      /\ r # 0 /\ Expansion(w) = Pair("addi", r, 0, NoReg, LayC_6, 5) =>
           Good(Runs(li, "addi"), w, q)
  BY ONLY <1>1, <1>4, <1>5, <1>6, ShapeI
<1>9. /\ Expansion(w) \in {Hint, Reserved} =>
           Good(trans_illegal(addi, q), w, q) /\ Good(trans_illegal(li, q), w, q)
      /\ Expansion(w) = Hint => Good(Runs(addi, "empty"), w, q)
  <2>1. Hint.name = "hint"
    BY DEF Hint, Pair
  <2> HIDE DEF addi, li
  <2>2. Expansion(w) = Hint => Good(Runs(addi, "empty"), w, q)
    BY <1>7, <2>1, ShapeEmpty
  <2> QED BY <1>7, <2>2, GoodIllegal
<1> HIDE DEF addi, li
<1>10. CASE b = 0
  <2>1. Expansion(w) = IF r = 0 THEN Hint
                       ELSE Pair("addi", r, r, NoReg, LayC_6, 5)
    BY <1>10, ExpansionQ1 DEF b, r
  <2> QED BY <1>3, <1>8, <1>9, <1>10, <2>1 DEF res
<1>11. CASE b = 1
  <2>1. Expansion(w) = IF r = 0 THEN Reserved
                       ELSE Pair("addiw", r, r, NoReg, LayC_6, 5)
    BY <1>11, ExpansionQ1 DEF b, r
  <2> QED BY <1>3, <1>8, <1>9, <1>11, <2>1 DEF res
<1>12. CASE b = 2
  <2>1. Expansion(w) = IF r = 0 THEN Hint
                       ELSE Pair("addi", r, 0, NoReg, LayC_6, 5)
    BY <1>12, ExpansionQ1 DEF b, r
  <2> QED BY <1>3, <1>8, <1>9, <1>12, <2>1 DEF res
<1>13. CASE b \in {3, 4}
  <2>1. b = 3 => Good(TransC_lui(w, q), w, q)
    BY GoodC_lui DEF b
  <2>2. b = 4 => Good(TransC_alu(w, q), w, q)
    BY GoodC_alu DEF b
  <2> QED BY <1>3, <1>13, <2>1, <2>2 DEF res
<1>14. CASE b = 5
  <2>1. Expansion(w) = Pair("jal", 0, NoReg, NoReg, LayC_j, 11)
    BY <1>14, ExpansionQ1 DEF b
  <2>2. Good(JumpTo([rd |-> 0, imm |-> ImmC_j(w)], "c_jal", q), w, q)
    BY ONLY w \in Word, <2>1, ShapeJ
  <2> QED BY <1>3, <1>14, <2>2 DEF res
<1>15. CASE b = 6
  <2>1. Expansion(w) = Pair("beq", NoReg, r3, 0, LayC_b, 8)
    BY <1>15, ExpansionQ1 DEF b, r3
  <2>2. "c_beq" \in {"c_beq", "c_bne"} /\ UncompressedName("c_beq") = "beq"
    BY DEF UncompressedName
  <2>3. Good(BranchTo(beqz, "c_beq", q, 2), w, q)
    BY ONLY w \in Word, <1>1, <2>1, <2>2, ShapeB
  <2> QED BY <1>3, <1>15, <2>3 DEF res
<1>16. CASE b = 7
  <2>1. Expansion(w) = Pair("bne", NoReg, r3, 0, LayC_b, 8)
    BY <1>16, ExpansionQ1 DEF b, r3
  <2>2. "c_bne" \in {"c_beq", "c_bne"} /\ UncompressedName("c_bne") = "bne"
    BY DEF UncompressedName
  <2>3. Good(BranchTo(beqz, "c_bne", q, 2), w, q)
    BY ONLY w \in Word, <1>1, <2>1, <2>2, ShapeB
  <2> QED BY <1>3, <1>16, <2>3 DEF res
<1> QED BY <1>1, <1>10, <1>11, <1>12, <1>13, <1>14, <1>15, <1>16 DEF b

\* c.jr, c.mv, c.ebreak, c.jalr and c.add.
LEMMA GoodC_jr ==
  ASSUME NEW w \in Word, NEW q, Num(w, 0, 2) = 2, Num(w, 13, 3) = 4
  PROVE  Good(TransC_jr(w, q), w, q)
<1> DEFINE r == C_r(w)
           s == C_s(w)
           t == w[12]
           jr == [rd |-> 0, rs1 |-> r, imm |-> ImmZero]
           jalr == [rd |-> 1, rs1 |-> r, imm |-> ImmZero]
           mv == [rd |-> r, rs1 |-> s, imm |-> ImmZero]
           add == [rs2 |-> s, rd |-> r, rs1 |-> r]
           res == TransC_jr(w, q)
           e == Expansion(w)
<1>1. r \in 0 .. 31 /\ s \in 0 .. 31 /\ t \in {0, 1}
  BY CRegs
<1>2. C_rd5(w) = r /\ C_rs5(w) = s
  BY CRegs
<1>3. Num(w, 2, 10) = 0 <=> s = 0 /\ r = 0
  BY <1>1, NumLong DEF C_r, C_s
<1>4. /\ s = 0 /\ r = 0 => e = IF t = 0 THEN Reserved
                               ELSE [Hint EXCEPT !.name = "ebreak"]
      /\ s = 0 /\ r # 0 => e = Pair("jalr", t, r, NoReg, {}, 32)
      /\ s # 0 /\ r = 0 => e = Hint
      /\ s # 0 /\ r # 0 =>
           e = IF t = 0 THEN Pair("addi", r, s, NoReg, {}, 32)
               ELSE Pair("add", r, r, s, {}, 32)
  BY ExpansionJr
<1> HIDE DEF r, s, t, e
<1>5. res = CASE t = 0 /\ s = 0 ->
                   IF r = 0 THEN trans_illegal(jr, q)
                   ELSE Ends(jr, "c_jalr", q, <<>>)
              [] t = 0 /\ s # 0 ->
                   IF r = 0 \/ s = 0 THEN trans_illegal(mv, q)
                   ELSE Runs(mv, "addi")
              [] t = 1 /\ Num(w, 2, 10) = 0 -> Runs(NoFields, "empty")
              [] t = 1 /\ Num(w, 2, 10) # 0 /\ s = 0 ->
                   IF r = 0 THEN trans_illegal(jalr, q)
                   ELSE Ends(jalr, "c_jalr", q, <<>>)
              [] OTHER -> IF r = 0 \/ s = 0 THEN trans_illegal(add, q)
                          ELSE Runs(add, "add")
  BY <1>2 DEF TransC_jr, Unless, t
<1>6. Fields(jr) /\ Fields(jalr) /\ Fields(mv) /\ Fields(add)
  BY <1>1, ImmCWord DEF Fields, Registers
<1>7. ImmZero \in Word /\ Carries(ImmZero, w, {}, 32)
  BY ImmCWord DEF Carries, ImmZero
<1>8. "addi" \in ImmNames /\ "add" \in RegNames
  BY DEF ImmNames, RegNames
<1>9. 0 \in 0 .. 31 /\ 1 \in 0 .. 31 /\ \A d \in {} : d[1] \in 0 .. 15
  OBVIOUS
<1> HIDE DEF res
<1>10. CASE s = 0 /\ r = 0 /\ t = 0
  <2>1. res = trans_illegal(jr, q) /\ e = Reserved
    BY <1>4, <1>5, <1>10
  <2> HIDE DEF jr
  <2> QED BY <1>6, <2>1, GoodIllegal DEF res, e
<1>11. CASE s = 0 /\ r = 0 /\ t = 1
  <2>1. res = Runs(NoFields, "empty")
    BY <1>3, <1>5, <1>11
  <2>2. e.name = "ebreak"
    BY <1>4, <1>11 DEF Hint, Pair
  <2>3. Expansion(w).name = "ebreak" /\ Fields(NoFields)
    BY <2>2, FormatFields DEF e
  <2> QED BY <2>1, <2>3, ShapeEmpty DEF res
<1>12. CASE s = 0 /\ r # 0 /\ t = 0
  <2>1. res = Ends(jr, "c_jalr", q, <<>>)
    BY <1>5, <1>12
  <2>2. Expansion(w) = Pair("jalr", 0, r, NoReg, {}, 32)
    BY <1>4, <1>12 DEF e
  <2>3. Good(Ends(jr, "c_jalr", q, <<>>), w, q)
    BY ONLY <1>1, <1>9, <2>2, ShapeJr
  <2> QED BY <2>1, <2>3 DEF res
<1>13. CASE s = 0 /\ r # 0 /\ t = 1
  <2>1. res = Ends(jalr, "c_jalr", q, <<>>)
    BY <1>3, <1>5, <1>13
  <2>2. Expansion(w) = Pair("jalr", 1, r, NoReg, {}, 32)
    BY <1>4, <1>13 DEF e
  <2>3. Good(Ends(jalr, "c_jalr", q, <<>>), w, q)
    BY ONLY <1>1, <1>9, <2>2, ShapeJr
  <2> QED BY <2>1, <2>3 DEF res
<1>14. CASE s # 0 /\ r = 0
  <2>1. res = trans_illegal(mv, q) \/ res = trans_illegal(add, q)
    BY <1>1, <1>3, <1>5, <1>14
  <2>2. e = Hint
    BY <1>4, <1>14
  <2> HIDE DEF mv, add
  <2> QED BY <1>6, <2>1, <2>2, GoodIllegal DEF res, e
<1>15. CASE s # 0 /\ r # 0 /\ t = 0
  <2>1. res = Runs(mv, "addi")
    BY <1>5, <1>15
  <2>2. Expansion(w) = Pair("addi", r, s, NoReg, {}, 32)
    BY <1>4, <1>15 DEF e
  <2>3. Good(Runs(mv, "addi"), w, q)
    BY ONLY <1>1, <1>7, <1>8, <1>9, <2>2, ShapeI
  <2> QED BY <2>1, <2>3 DEF res
<1>16. CASE s # 0 /\ r # 0 /\ t = 1
  <2>1. res = Runs(add, "add")
    BY <1>3, <1>5, <1>16
  <2>2. Expansion(w) = Pair("add", r, r, s, {}, 32)
    BY <1>4, <1>16 DEF e
  <2>3. "add" \in RegNames \ {""}
    BY <1>8
  <2>4. Good(Runs(add, "add"), w, q)
    BY ONLY <1>1, <2>2, <2>3, ShapeR
  <2> QED BY <2>1, <2>4 DEF res
<1> QED BY <1>1, <1>10, <1>11, <1>12, <1>13, <1>14, <1>15, <1>16 DEF res

\* Quadrant 2.
LEMMA GoodC2 ==
  ASSUME NEW w \in Word, NEW q, Num(w, 0, 2) = 2
  PROVE  Good(TransC2(w, q), w, q)
<1> DEFINE b == Num(w, 13, 3)
           r == C_r(w)
           s == C_s(w)
           slli == [rd |-> r, rs1 |-> r, imm |-> ImmC_shamt(w)]
           lw == [rd |-> r, rs1 |-> 2, imm |-> ImmC_lwsp(w)]
           ld == [rd |-> r, rs1 |-> 2, imm |-> ImmC_ldsp(w)]
           sw == [rs2 |-> s, rs1 |-> 2, imm |-> ImmC_swsp(w)]
           sd == [rs2 |-> s, rs1 |-> 2, imm |-> ImmC_sdsp(w)]
           res == TransC2(w, q)
           e == Expansion(w)
<1>1. b \in 0 .. 7 /\ r \in 0 .. 31 /\ s \in 0 .. 31
  BY CRegs
<1>2. C_rd5(w) = r /\ C_rs5(w) = s
  BY CRegs
<1>3. /\ b = 0 => e = IF r = 0 THEN Hint
                      ELSE Pair("slli", r, r, NoReg, LayC_6, 32)
      /\ b = 2 => e = IF r = 0 THEN Reserved
                      ELSE Pair("lw", r, 2, NoReg, LayC_lwsp, 32)
      /\ b = 3 => e = IF r = 0 THEN Reserved
                      ELSE Pair("ld", r, 2, NoReg, LayC_ldsp, 32)
      /\ b = 6 => e = Pair("sw", NoReg, 2, s, LayC_swsp, 32)
      /\ b = 7 => e = Pair("sd", NoReg, 2, s, LayC_sdsp, 32)
      /\ b \in {1, 5} => e = Absent
  BY ExpansionQ2
<1> HIDE DEF r, s, e
<1>4. /\ b = 0 => res = IF r = 0 THEN trans_illegal(slli, q)
                        ELSE Runs(slli, "slli")
      /\ b = 2 => res = IF r = 0 THEN trans_illegal(lw, q) ELSE Runs(lw, "lw")
      /\ b = 3 => res = IF r = 0 THEN trans_illegal(ld, q) ELSE Runs(ld, "ld")
      /\ b = 4 => res = TransC_jr(w, q)
      /\ b = 6 => res = Runs(sw, "sw")
      /\ b = 7 => res = Runs(sd, "sd")
      /\ b \in {1, 5} => res = trans_illegal(NoFields, q)
  BY <1>2 DEF TransC2, Unless
<1>5. /\ ImmC_shamt(w) \in Word /\ ImmC_lwsp(w) \in Word
      /\ ImmC_ldsp(w) \in Word /\ ImmC_swsp(w) \in Word
      /\ ImmC_sdsp(w) \in Word
  BY ImmCWord
<1>6. /\ Carries(ImmC_shamt(w), w, LayC_6, 32)
      /\ Carries(ImmC_lwsp(w), w, LayC_lwsp, 32)
      /\ Carries(ImmC_ldsp(w), w, LayC_ldsp, 32)
      /\ Carries(ImmC_swsp(w), w, LayC_swsp, 32)
      /\ Carries(ImmC_sdsp(w), w, LayC_sdsp, 32)
  BY CompressedImmediatesAreTheIsas DEF Unsigned
<1>7. Fields(slli) /\ Fields(lw) /\ Fields(ld) /\ Fields(NoFields)
  <2>1. Fields(slli) /\ Fields(lw) /\ Fields(ld)
    BY <1>1, <1>5 DEF Fields, Registers
  <2> QED BY <2>1, FormatFields
<1>8. /\ "slli" \in ImmNames /\ "lw" \in ImmNames /\ "ld" \in ImmNames
      /\ "sw" \in StoreNames /\ "sd" \in StoreNames /\ 2 \in 0 .. 31
  BY DEF ImmNames, StoreNames
<1>9. /\ \A d \in LayC_6 : d[1] \in 0 .. 15
      /\ \A d \in LayC_lwsp : d[1] \in 0 .. 15
      /\ \A d \in LayC_ldsp : d[1] \in 0 .. 15
      /\ \A d \in LayC_swsp : d[1] \in 0 .. 15
      /\ \A d \in LayC_sdsp : d[1] \in 0 .. 15
  BY LayLow
<1>10. ASSUME e \in {Hint, Reserved, Absent}
       PROVE  /\ Good(trans_illegal(slli, q), w, q)
              /\ Good(trans_illegal(lw, q), w, q)
              /\ Good(trans_illegal(ld, q), w, q)
              /\ Good(trans_illegal(NoFields, q), w, q)
  <2> HIDE DEF slli, lw, ld
  <2> QED BY <1>7, <1>10, GoodIllegal DEF e
<1> HIDE DEF b, res
<1>11. CASE (r = 0 /\ b \in {0, 2, 3}) \/ b \in {1, 5}
  <2>1. e \in {Hint, Reserved, Absent}
    BY <1>3, <1>11
  <2> HIDE DEF slli, lw, ld
  <2>2. res \in {trans_illegal(slli, q), trans_illegal(lw, q),
                 trans_illegal(ld, q), trans_illegal(NoFields, q)}
    BY <1>4, <1>11
  <2> QED BY <1>10, <2>1, <2>2 DEF res
<1>12. CASE r # 0 /\ b = 0
  <2>1. Expansion(w) = Pair("slli", r, r, NoReg, LayC_6, 32)
    BY <1>3, <1>12 DEF e
  <2>2. Good(Runs(slli, "slli"), w, q)
    BY ONLY <1>1, <1>5, <1>6, <1>8, <1>9, <2>1, ShapeI
  <2> QED BY <1>4, <1>12, <2>2 DEF res
<1>13. CASE r # 0 /\ b = 2
  <2>1. Expansion(w) = Pair("lw", r, 2, NoReg, LayC_lwsp, 32)
    BY <1>3, <1>13 DEF e
  <2>2. Good(Runs(lw, "lw"), w, q)
    BY ONLY <1>1, <1>5, <1>6, <1>8, <1>9, <2>1, ShapeI
  <2> QED BY <1>4, <1>13, <2>2 DEF res
<1>14. CASE r # 0 /\ b = 3
  <2>1. Expansion(w) = Pair("ld", r, 2, NoReg, LayC_ldsp, 32)
    BY <1>3, <1>14 DEF e
  <2>2. Good(Runs(ld, "ld"), w, q)
    BY ONLY <1>1, <1>5, <1>6, <1>8, <1>9, <2>1, ShapeI
  <2> QED BY <1>4, <1>14, <2>2 DEF res
<1>15. CASE b = 4
  <2>1. Good(TransC_jr(w, q), w, q)
    BY <1>15, GoodC_jr DEF b
  <2> QED BY <1>4, <1>15, <2>1 DEF res
<1>16. CASE b = 6
  <2>1. Expansion(w) = Pair("sw", NoReg, 2, s, LayC_swsp, 32)
    BY <1>3, <1>16 DEF e
  <2>2. Good(Runs(sw, "sw"), w, q)
    BY ONLY <1>1, <1>5, <1>6, <1>8, <1>9, <2>1, ShapeS
  <2> QED BY <1>4, <1>16, <2>2 DEF res
<1>17. CASE b = 7
  <2>1. Expansion(w) = Pair("sd", NoReg, 2, s, LayC_sdsp, 32)
    BY <1>3, <1>17 DEF e
  <2>2. Good(Runs(sd, "sd"), w, q)
    BY ONLY <1>1, <1>5, <1>6, <1>8, <1>9, <2>1, ShapeS
  <2> QED BY <1>4, <1>17, <2>2 DEF res
<1> QED
  BY <1>1, <1>11, <1>12, <1>13, <1>14, <1>15, <1>16, <1>17 DEF b, res

\* Every 16-bit word: what decode_insn16 makes of it is its expansion.
LEMMA Good16 ==
  ASSUME NEW w \in Word, NEW q, ~(w[0] = 1 /\ w[1] = 1)
  PROVE  Good(decode_insn16(w, q), w, q)
<1>1. Num(w, 0, 2) = w[0] + 2 * w[0 + 1]
  BY NumSmall
<1>2. w[0] \in {0, 1} /\ w[1] \in {0, 1}
  BY DEF Word, Bit
<1>3. Num(w, 0, 2) = 0 \/ Num(w, 0, 2) = 1 \/ Num(w, 0, 2) = 2
  BY <1>1, <1>2
<1> QED BY <1>3, Insn16, GoodC0, GoodC1, GoodC2

(***************************************************************************)
(* The inductive invariant: what the translator made of the word is still  *)
(* there when its handler runs, and nothing has happened to the target,    *)
(* the link and the exception before.                                      *)
(***************************************************************************)
Decoding ==
  /\ at \in {"fetched", "decoded", "ran"}
  /\ op \in Word /\ pc \in Pcs
  /\ at = "fetched" => result = Nothing
  /\ at # "fetched" => result = Decoded(op, pc)
  /\ at # "ran" => target = pc /\ link = NoLink /\ raised = FALSE
  /\ target \in Int /\ link \in Int /\ raised \in BOOLEAN

DecodeInv == Decoding /\ EdgesAreSuccessors /\ LinkIsNextInsn

\* Decoded is sound for words of both lengths; a compressed one expands.
LEMMA DecodedSound ==
  ASSUME NEW x \in Word, NEW q
  PROVE  /\ Sound(Decoded(x, q), q, insn_len(x))
         /\ insn_len(x) = 4 => Decoded(x, q) = decode_insn32(x, q)
         /\ insn_len(x) = 2 =>
              Good(Decoded(x, q), extract32(x, 0, 16), q)
         /\ insn_len(x) \in {2, 4}
<1> DEFINE w == extract32(x, 0, 16)
<1>1. CASE x[0] = 1 /\ x[1] = 1
  <2>1. insn_len(x) = 4
    BY <1>1 DEF insn_len
  <2>2. Decoded(x, q) = decode_insn32(x, q)
    BY <2>1 DEF Decoded
  <2> QED BY <2>1, <2>2, Sound32
<1>2. CASE ~(x[0] = 1 /\ x[1] = 1)
  <2>1. insn_len(x) = 2
    BY <1>2 DEF insn_len
  <2>2. Decoded(x, q) = decode_insn16(w, q)
    BY <2>1 DEF Decoded
  <2>3. w \in Word /\ \A b \in 0 .. 15 : w[b] = x[b]
    BY LowerHalf
  <2> HIDE DEF w
  <2>4. ~(w[0] = 1 /\ w[1] = 1)
    BY <1>2, <2>3
  <2>5. Good(decode_insn16(w, q), w, q)
    BY <2>3, <2>4, Good16
  <2> QED BY <2>1, <2>2, <2>5 DEF Good, w
<1> QED BY <1>1, <1>2

\* What the handlers find.
LEMMA SlotSound ==
  ASSUME Decoding, at # "fetched"
  PROVE  Sound(result, pc, insn_len(op))
  BY DecodedSound DEF Decoding

\* An immediate is an int.
LEMMA Int32Int ==
  ASSUME NEW x \in Word
  PROVE  Int32(x) \in Int
<1>1. \A k \in 0 .. 30 : x[0 + k] \in Int
  BY DEF Word, Bit
<1>2. Num(x, 0, 31) \in Int
  <2>1. 0 \in Nat /\ 31 \in Nat /\ 31 - 1 = 30
    OBVIOUS
  <2> QED BY <1>1, <2>1, NumInt
<1> QED BY <1>2 DEF Int32

\* The slot of a jump or a branch.
LEMMA TransferSlot ==
  ASSUME Decoding, at # "fetched", insn.handler \in Branches \cup Jumps
  PROVE  /\ result.exit = TRUE /\ insn.pc = pc
         /\ Behind(insn.handler) = insn_len(op)
         /\ Int32(insn.imm) \in Int
         /\ insn.handler \in Branches =>
              result.next = <<pc + Int32(insn.imm), pc + insn_len(op)>>
         /\ insn.handler \in {"jal", "c_jal"} =>
              result.next = <<pc + Int32(insn.imm)>>
         /\ insn.handler \in {"jalr", "c_jalr"} => result.next = <<>>
<1>1. Sound(result, pc, insn_len(op))
  BY SlotSound
<1>2. "imm" \in Reads(insn)
  BY DEF Reads, Branches, Jumps
<1>3. insn.imm \in Word
  BY <1>1, <1>2 DEF Sound, Typed, insn
<1>4. insn.handler \in {"jalr", "c_jalr"} =>
        insn.handler \notin Branches \cup {"jal", "c_jal"}
  BY DEF Branches
<1>5. Fits(result, pc, insn_len(op))
  BY <1>1 DEF Sound
<1> QED BY <1>3, <1>4, <1>5, Int32Int DEF Fits, insn

\* The invariant holds at the start.
LEMMA DecodeInitInv == Init => DecodeInv
<1> SUFFICES ASSUME Init PROVE DecodeInv
  OBVIOUS
<1>1. Decoding
  <2>1. op \in Word
    BY DecodeAssumption DEF Init
  <2>2. pc \in Pcs /\ pc \in Int
    BY DecodeAssumption DEF Init
  <2>3. NoLink \in Int
    BY DEF NoLink
  <2> QED BY <2>1, <2>2, <2>3 DEF Init, Decoding
<1> QED BY <1>1 DEF Init, DecodeInv, EdgesAreSuccessors, LinkIsNextInsn

\* And every step keeps it.
LEMMA DecodeNextInv == DecodeInv /\ [Next]_vars => DecodeInv'
<1> SUFFICES ASSUME DecodeInv, [Next]_vars PROVE DecodeInv'
  OBVIOUS
<1> USE DEF DecodeInv
<1>a. pc \in Int
  BY DecodeAssumption DEF Decoding
<1>b. insn_len(op) \in {2, 4}
  BY DecodedSound DEF Decoding
<1>1. ASSUME NEW len, DecodeInsn(len) PROVE DecodeInv'
  <2>1. /\ at = "fetched" /\ at' = "decoded"
        /\ result' = Decoded(op, pc)
        /\ UNCHANGED <<op, pc, target, link, raised>>
    BY <1>1 DEF DecodeInsn
  <2>2. result' = Decoded(op, pc)'
    BY <2>1
  <2>3. Decoding'
    BY <2>1, <2>2 DEF Decoding
  <2>4. EdgesAreSuccessors'
    BY <2>1 DEF EdgesAreSuccessors
  <2>5. link = NoLink
    BY <2>1 DEF Decoding
  <2> QED BY <2>1, <2>3, <2>4, <2>5 DEF LinkIsNextInsn
<1>2. CASE DoBranch
  <2>1. at = "decoded" /\ at' = "ran" /\ insn.handler \in Branches
    BY <1>2 DEF DoBranch, Ran
  <2>2. UNCHANGED <<op, pc, result, link, raised>>
    BY <1>2 DEF DoBranch, Ran
  <2>3. /\ insn.pc = pc /\ Int32(insn.imm) \in Int
        /\ Behind(insn.handler) = insn_len(op)
        /\ result.next = <<pc + Int32(insn.imm), pc + insn_len(op)>>
        /\ result.exit = TRUE
    BY <2>1, TransferSlot
  <2>4. \/ target' = pc + Int32(insn.imm)
        \/ target' = pc + insn_len(op)
    BY <1>2, <2>3 DEF DoBranch
  <2>5. target' \in Int
    BY <1>a, <1>b, <2>3, <2>4
  <2>6. \E n \in DOMAIN result.next : target' = result.next[n]
    BY <2>3, <2>4
  <2>7. raised = FALSE /\ link = NoLink
    BY <2>1 DEF Decoding
  <2>8. Decoding'
    BY <2>1, <2>2, <2>5 DEF Decoding
  <2>9. EdgesAreSuccessors'
    BY <2>2, <2>3, <2>6, <2>7 DEF EdgesAreSuccessors
  <2> QED BY <2>2, <2>7, <2>8, <2>9 DEF LinkIsNextInsn
<1>3. ASSUME WriteLink, at = "decoded", insn.handler \in Jumps
      PROVE  link' \in Int /\ (link' # NoLink => link' = pc + insn_len(op))
  <2>1. insn.pc = pc /\ Behind(insn.handler) = insn_len(op)
    BY <1>3, TransferSlot
  <2>2. link = NoLink /\ link \in Int
    BY <1>3 DEF Decoding
  <2>3. link' = pc + insn_len(op) \/ link' = link
    BY <1>3, <2>1 DEF WriteLink
  <2>4. pc + insn_len(op) \in Int
    BY <1>a, <1>b
  <2> QED BY <2>2, <2>3, <2>4
<1>4. CASE DoJal
  <2>1. at = "decoded" /\ at' = "ran" /\ insn.handler \in {"jal", "c_jal"}
    BY <1>4 DEF DoJal, Ran
  <2>2. UNCHANGED <<op, pc, result, raised>>
    BY <1>4 DEF DoJal, Ran
  <2>3. insn.handler \in Jumps
    BY <2>1 DEF Jumps
  <2>4. /\ insn.pc = pc /\ Int32(insn.imm) \in Int
        /\ result.next = <<pc + Int32(insn.imm)>>
        /\ result.exit = TRUE
    BY <2>1, <2>3, TransferSlot
  <2>5. target' = pc + Int32(insn.imm)
    BY <1>4, <2>4 DEF DoJal
  <2>6. target' \in Int
    BY <1>a, <2>4, <2>5
  <2>7. \E n \in DOMAIN result.next : target' = result.next[n]
    BY <2>4, <2>5
  <2>8. raised = FALSE
    BY <2>1 DEF Decoding
  <2>9. link' \in Int /\ (link' # NoLink => link' = pc + insn_len(op))
    BY <1>3, <1>4, <2>1, <2>3 DEF DoJal
  <2>10. Decoding'
    BY <2>1, <2>2, <2>6, <2>9 DEF Decoding
  <2>11. EdgesAreSuccessors'
    BY <2>2, <2>4, <2>7, <2>8 DEF EdgesAreSuccessors
  <2> QED BY <2>2, <2>9, <2>10, <2>11 DEF LinkIsNextInsn
<1>5. CASE DoJalr
  <2>1. at = "decoded" /\ at' = "ran" /\ insn.handler \in {"jalr", "c_jalr"}
    BY <1>5 DEF DoJalr, Ran
  <2>2. UNCHANGED <<op, pc, result, raised>>
    BY <1>5 DEF DoJalr, Ran
  <2>3. insn.handler \in Jumps
    BY <2>1 DEF Jumps
  <2>4. /\ Int32(insn.imm) \in Int /\ result.next = <<>>
        /\ result.exit = TRUE
    BY <2>1, <2>3, TransferSlot
  <2>5. PICK base \in Bases :
          target' = 2 * ((base + Int32(insn.imm)) \div 2)
    BY <1>5 DEF DoJalr
  <2>6. target' \in Int
    BY <2>4, <2>5, DecodeAssumption
  <2>8. raised = FALSE
    BY <2>1 DEF Decoding
  <2>9. link' \in Int /\ (link' # NoLink => link' = pc + insn_len(op))
    BY <1>3, <1>5, <2>1, <2>3 DEF DoJalr
  <2>10. Decoding'
    BY <2>1, <2>2, <2>6, <2>9 DEF Decoding
  <2>11. EdgesAreSuccessors'
    BY <2>2, <2>4, <2>8 DEF EdgesAreSuccessors
  <2> QED BY <2>2, <2>9, <2>10, <2>11 DEF LinkIsNextInsn
<1>6. CASE DoTrap
  <2>1. at = "decoded" /\ at' = "ran" /\ insn.handler \in Traps
    BY <1>6 DEF DoTrap, Ran, Traps
  <2>2. /\ UNCHANGED <<op, pc, result, link>>
        /\ raised' = TRUE /\ target' = insn.pc
    BY <1>6 DEF DoTrap, Ran
  <2>3. Fits(result, pc, insn_len(op))
    BY <2>1, SlotSound DEF Sound
  <2>4. insn.handler \notin Branches \cup {"jal", "c_jal"}
    BY <2>1 DEF Traps, Branches
  <2>5. insn.pc = pc /\ result.exit = TRUE /\ result.next = <<>>
    BY <2>1, <2>3, <2>4 DEF Fits, insn
  <2>6. link = NoLink
    BY <2>1 DEF Decoding
  <2>7. Decoding'
    BY <1>a, <2>1, <2>2, <2>5 DEF Decoding
  <2>8. EdgesAreSuccessors'
    BY <2>2, <2>5 DEF EdgesAreSuccessors
  <2> QED BY <2>2, <2>6, <2>7, <2>8 DEF LinkIsNextInsn
<1>7. CASE DoUnknownCsr
  <2>1. at = "decoded" /\ at' = "ran" /\ UnknownCsr(insn)
    BY <1>7 DEF DoUnknownCsr, Ran
  <2>2. UNCHANGED <<op, pc, result, link>> /\ raised' = TRUE
    BY <1>7 DEF DoUnknownCsr, Ran
  <2>3. "pc" \in DOMAIN insn => insn.pc = pc
    BY <2>1, SlotSound DEF Sound, Fits, insn
  <2>4. target' \in Int
    BY <1>7, <1>a, <2>3 DEF DoUnknownCsr
  <2>5. link = NoLink
    BY <2>1 DEF Decoding
  <2>6. Decoding'
    BY <2>1, <2>2, <2>4 DEF Decoding
  <2>7. UnknownCsr(insn)'
    BY <2>1, <2>2 DEF UnknownCsr, insn
  <2>8. EdgesAreSuccessors'
    BY <2>7 DEF EdgesAreSuccessors
  <2> QED BY <2>2, <2>5, <2>6, <2>8 DEF LinkIsNextInsn
<1>8. CASE DoThrough
  <2>1. /\ at = "decoded" /\ at' = "ran"
        /\ insn.handler \notin Branches \cup Jumps \cup Traps
    BY <1>8 DEF DoThrough, Jumps, Traps
  <2>2. /\ UNCHANGED <<op, pc, result, link, raised>>
        /\ target' = pc + insn_len(op)
    BY <1>8 DEF DoThrough
  <2>3. Fits(result, pc, insn_len(op))
    BY <2>1, SlotSound DEF Sound
  <2>4. insn.handler \notin Branches \cup {"jal", "c_jal"}
    BY <2>1 DEF Jumps
  <2>5. result.exit = FALSE /\ result.next = <<>>
    BY <2>1, <2>3, <2>4 DEF Fits, insn
  <2>6. link = NoLink /\ raised = FALSE
    BY <2>1 DEF Decoding
  <2>7. target' \in Int
    BY <1>a, <1>b, <2>2
  <2>8. Decoding'
    BY <2>1, <2>2, <2>7 DEF Decoding
  <2>9. EdgesAreSuccessors'
    BY <2>2, <2>5, <2>6 DEF EdgesAreSuccessors
  <2> QED BY <2>2, <2>6, <2>8, <2>9 DEF LinkIsNextInsn
<1>9. CASE UNCHANGED vars
  BY <1>9 DEF vars, Decoding, EdgesAreSuccessors, LinkIsNextInsn, insn,
              UnknownCsr
<1> QED
  BY <1>1, <1>2, <1>4, <1>5, <1>6, <1>7, <1>8, <1>9 DEF Next, Done

(***************************************************************************)
(* What the invariant says of the slot.                                    *)
(***************************************************************************)
\* The types.
LEMMA DecodeInvTypes == DecodeInv => TypeOK
<1> SUFFICES ASSUME DecodeInv PROVE TypeOK
  OBVIOUS
<1>1. Decoding
  BY DEF DecodeInv
<1>2. /\ \A f \in DOMAIN insn \cap Registers : insn[f] \in 0 .. 31
      /\ "imm" \in DOMAIN insn => insn.imm \in Word
      /\ Len(result.next) \in 0 .. 2
  <2>1. CASE at = "fetched"
    <3>1. /\ DOMAIN insn = {"handler"} /\ result.next = <<>>
      BY <1>1, <2>1 DEF Decoding, Nothing, Runs, With, NoFields, insn
    <3> QED BY <3>1 DEF Registers
  <2>2. CASE at # "fetched"
    <3>1. Sound(result, pc, insn_len(op))
      BY <1>1, <2>2, SlotSound
    <3>2. \/ result.next = <<>>
          \/ result.next = <<pc + Int32(insn.imm)>>
          \/ result.next = <<pc + Int32(insn.imm), pc + insn_len(op)>>
      BY <3>1 DEF Sound, Fits, insn
    <3>3. Len(result.next) \in 0 .. 2
      <4>1. \A a, b : Len(<<>>) = 0 /\ Len(<<a>>) = 1 /\ Len(<<a, b>>) = 2
        OBVIOUS
      <4>2. Len(result.next) \in {0, 1, 2}
        BY <3>2, <4>1, Zenon
      <4> QED BY <4>2
    <3> QED BY <3>1, <3>3 DEF Sound, Typed, insn
  <2> QED BY <2>1, <2>2
<1> QED BY <1>1, <1>2 DEF TypeOK, Decoding, Registers

\* The fields the handler reads.
LEMMA DecodeInvReads == DecodeInv => FieldsReadAreSet
<1> SUFFICES ASSUME DecodeInv, at # "fetched"
             PROVE  Reads(insn) \subseteq DOMAIN insn
  BY DEF FieldsReadAreSet
<1> QED BY SlotSound DEF DecodeInv, Sound, insn

\* The 32-bit instructions.
LEMMA DecodeInvIsa == DecodeInv => DecodesLikeTheIsa
<1> SUFFICES ASSUME DecodeInv, at # "fetched", insn_len(op) = 4
             PROVE  Agreed
  BY DEF DecodesLikeTheIsa, Agreed
<1>1. op \in Word /\ result = decode_insn32(op, pc)
  BY DecodedSound DEF DecodeInv, Decoding
<1> QED BY <1>1, Agreed32

\* The compressed ones.
LEMMA DecodeInvExpands == DecodeInv => CompressedExpands
<1> SUFFICES ASSUME DecodeInv, at # "fetched", insn_len(op) = 2
             PROVE  LET e == Expansion(op) IN
                    CASE e.name = "reserved" -> TRUE
                      [] e.name = "illegal"  -> insn.handler = "illegal"
                      [] e.name = "hint"     -> insn.handler \in {"empty", "illegal"}
                      [] e.name = "ebreak"   -> insn.handler = "empty"
                      [] OTHER               -> AgreesWithExpansion(e)
  BY DEF CompressedExpands
<1> DEFINE w == extract32(op, 0, 16)
           e == Expansion(op)
<1>1. /\ \A b \in 0 .. 15 : w[b] = op[b]
      /\ Expansion(w) = e
  BY LowerHalf DEF DecodeInv, Decoding
<1>2. Expanded(insn, w)
  BY DecodedSound DEF DecodeInv, Decoding, Good, insn
<1> HIDE DEF w, e
<1>3. ASSUME AgreesWith(insn, w, e) PROVE AgreesWithExpansion(e)
  <2>1. \A d \in e.lay : w[d[1]] = op[d[1]]
    BY <1>1, <1>3 DEF AgreesWith
  <2>2. ASSUME NEW imm, Carries(imm, w, e.lay, e.sign)
        PROVE  Carries(imm, op, e.lay, e.sign)
    BY <2>1, <2>2 DEF Carries
  <2> QED BY <1>3, <2>2 DEF AgreesWith, AgreesWithExpansion
<1>4. (CASE e.name = "reserved" -> TRUE
         [] e.name = "illegal"  -> insn.handler = "illegal"
         [] e.name = "hint"     -> insn.handler \in {"empty", "illegal"}
         [] e.name = "ebreak"   -> insn.handler = "empty"
         [] OTHER               -> AgreesWith(insn, w, e))
  BY <1>1, <1>2 DEF Expanded
<1> HIDE DEF insn
<1> QED BY <1>3, <1>4 DEF e

(***************************************************************************)
(* The theorems.                                                           *)
(***************************************************************************)
\* DecodeInv is an invariant, for every set of words, addresses and bases.
THEOREM DecodeInvariance == Spec => []DecodeInv
  BY DecodeInitInv, DecodeNextInv, PTL DEF Spec

\* Every state of the decoder has its types.
THEOREM DecodeTypes == Spec => []TypeOK
  BY DecodeInvariance, DecodeInvTypes, PTL

(***************************************************************************)
(* No handler of cpu.c works on a field of its slot that the translator of *)
(* this instruction did not assign.                                        *)
(***************************************************************************)
THEOREM HandlersReadTheirFields == Spec => []FieldsReadAreSet
  BY DecodeInvariance, DecodeInvReads, PTL

(***************************************************************************)
(* For every 32-bit word: decode_insn32 finds the instruction the manual   *)
(* gives the encoding, with its registers and immediate, or refuses a word *)
(* the manual does not list, up to the words taken for an ecall.           *)
(***************************************************************************)
THEOREM DecodeMatchesIsa == Spec => []DecodesLikeTheIsa
  BY DecodeInvariance, DecodeInvIsa, PTL

(***************************************************************************)
(* For every compressed word: decode_insn16 makes of it the instruction it *)
(* abbreviates.                                                            *)
(***************************************************************************)
THEOREM CompressedMatchesIsa == Spec => []CompressedExpands
  BY DecodeInvariance, DecodeInvExpands, PTL

(***************************************************************************)
(* For every word, address and base register: where a handler goes is what *)
(* the translator announced for the block.                                 *)
(***************************************************************************)
THEOREM EdgesSound == Spec => []EdgesAreSuccessors
  BY DecodeInvariance, PTL DEF DecodeInv

\* The link a jump writes is the address behind it, for both lengths.
THEOREM LinkSoundness == Spec => []LinkIsNextInsn
  BY DecodeInvariance, PTL DEF DecodeInv
==============================================================================
