---------------------------- MODULE DecodeProofs -----------------------------
(***************************************************************************)
(* Proofs about the decoder, for every word: TLC sees all 16-bit words but *)
(* only a sample of the others. Each format has a lemma that first gives   *)
(* the bits of the code's immediate one by one, and then compares them     *)
(* with the layout of the manual.                                          *)
(***************************************************************************)
EXTENDS Decode, TLAPS

\* The layout LayI of the manual, pair by pair.
LEMMA LayIList ==
  LayI = {<<31, 11>>, <<30, 10>>, <<29, 9>>, <<28, 8>>, <<27, 7>>,
          <<26, 6>>, <<25, 5>>, <<24, 4>>, <<23, 3>>, <<22, 2>>, <<21, 1>>,
          <<20, 0>>}
  BY DEF LayI, Lay, Down

\* What the translator deposits in ImmI is what the ISA lays out.
LEMMA Carries_I ==
  ASSUME NEW w \in Word
  PROVE  Carries(ImmI(w), w, LayI, 11)
<1>1. \A b \in 0 .. 31 :
        ImmI(w)[b] = IF b <= 11 THEN w[b + 20]
                     ELSE w[31]
  BY DEF ImmI, sextract32
<1>2. ASSUME NEW e \in LayI PROVE ImmI(w)[e[2]] = w[e[1]]
  BY <1>1, LayIList
<1>3. ASSUME NEW k \in 0 .. 31, \A e \in LayI : e[2] # k
      PROVE  ImmI(w)[k] = IF k > 11 THEN ImmI(w)[11] ELSE 0
  BY <1>1, <1>3, LayIList
<1> QED BY <1>2, <1>3 DEF Carries

\* The layout LayS of the manual, pair by pair.
LEMMA LaySList ==
  LayS = {<<31, 11>>, <<30, 10>>, <<29, 9>>, <<28, 8>>, <<27, 7>>,
          <<26, 6>>, <<25, 5>>, <<11, 4>>, <<10, 3>>, <<9, 2>>, <<8, 1>>,
          <<7, 0>>}
  BY DEF LayS, Lay, Down

\* What the translator deposits in ImmS is what the ISA lays out.
LEMMA Carries_S ==
  ASSUME NEW w \in Word
  PROVE  Carries(ImmS(w), w, LayS, 11)
<1>1. \A b \in 0 .. 31 :
        ImmS(w)[b] = IF b <= 4 THEN w[b + 7]
                     ELSE IF b <= 11 THEN w[b + 20]
                     ELSE w[31]
  BY DEF ImmS, deposit32, extract32, sextract32
<1>2. ASSUME NEW e \in LayS PROVE ImmS(w)[e[2]] = w[e[1]]
  BY <1>1, LaySList
<1>3. ASSUME NEW k \in 0 .. 31, \A e \in LayS : e[2] # k
      PROVE  ImmS(w)[k] = IF k > 11 THEN ImmS(w)[11] ELSE 0
  BY <1>1, <1>3, LaySList
<1> QED BY <1>2, <1>3 DEF Carries

\* The layout LayB of the manual, pair by pair.
LEMMA LayBList ==
  LayB = {<<31, 12>>, <<30, 10>>, <<29, 9>>, <<28, 8>>, <<27, 7>>,
          <<26, 6>>, <<25, 5>>, <<11, 4>>, <<10, 3>>, <<9, 2>>, <<8, 1>>,
          <<7, 11>>}
  BY DEF LayB, Lay, Down

\* What the translator deposits in ImmB is what the ISA lays out.
LEMMA Carries_B ==
  ASSUME NEW w \in Word
  PROVE  Carries(ImmB(w), w, LayB, 12)
<1> DEFINE
      p1 ==
        deposit32(deposit32(extract32(w, 8, 4), 4, 28, extract32(w, 25, 6)),
          10, 22, extract32(w, 7, 1))
      p2 ==
        deposit32(p1, 11, 21, sextract32(w, 31, 1))
<1>e. ImmB(w) = ex_shift(p2, 1)
  BY DEF ImmB
<1>q1. \A b \in 0 .. 31 :
        p1[b] = IF b <= 3 THEN w[b + 8]
                ELSE IF b <= 9 THEN w[b + 21]
                ELSE IF b = 10 THEN w[7]
                ELSE 0
  BY DEF deposit32, extract32
<1>q2. \A b \in 0 .. 31 :
        p2[b] = IF b <= 3 THEN w[b + 8]
                ELSE IF b <= 9 THEN w[b + 21]
                ELSE IF b = 10 THEN w[7]
                ELSE IF b = 11 THEN w[31]
                ELSE w[31]
  <2> HIDE DEF p1
  <2> QED BY <1>q1 DEF deposit32, extract32, sextract32
<1> HIDE DEF p1, p2
<1>1. \A b \in 0 .. 31 :
        ImmB(w)[b] = IF b = 0 THEN 0
                     ELSE IF b <= 4 THEN w[b + 7]
                     ELSE IF b <= 10 THEN w[b + 20]
                     ELSE IF b = 11 THEN w[7]
                     ELSE IF b = 12 THEN w[31]
                     ELSE w[31]
  BY <1>q2, <1>e DEF ex_shift
<1>2. ASSUME NEW e \in LayB PROVE ImmB(w)[e[2]] = w[e[1]]
  BY <1>1, LayBList
<1>3. ASSUME NEW k \in 0 .. 31, \A e \in LayB : e[2] # k
      PROVE  ImmB(w)[k] = IF k > 12 THEN ImmB(w)[12] ELSE 0
  BY <1>1, <1>3, LayBList
<1> QED BY <1>2, <1>3 DEF Carries

\* The layout LayU of the manual, pair by pair.
LEMMA LayUList ==
  LayU = {<<31, 31>>, <<30, 30>>, <<29, 29>>, <<28, 28>>, <<27, 27>>,
          <<26, 26>>, <<25, 25>>, <<24, 24>>, <<23, 23>>, <<22, 22>>,
          <<21, 21>>, <<20, 20>>, <<19, 19>>, <<18, 18>>, <<17, 17>>,
          <<16, 16>>, <<15, 15>>, <<14, 14>>, <<13, 13>>, <<12, 12>>}
  BY DEF LayU, Lay, Down

\* What the translator deposits in ImmU is what the ISA lays out.
LEMMA Carries_U ==
  ASSUME NEW w \in Word
  PROVE  Carries(ImmU(w), w, LayU, 31)
<1>1. \A b \in 0 .. 31 :
        ImmU(w)[b] = IF b <= 11 THEN 0
                     ELSE w[b]
  BY DEF ImmU, ex_shift, sextract32
<1>2. ASSUME NEW e \in LayU PROVE ImmU(w)[e[2]] = w[e[1]]
  BY <1>1, LayUList
<1>3. ASSUME NEW k \in 0 .. 31, \A e \in LayU : e[2] # k
      PROVE  ImmU(w)[k] = IF k > 31 THEN ImmU(w)[31] ELSE 0
  BY <1>1, <1>3, LayUList
<1> QED BY <1>2, <1>3 DEF Carries

\* The layout LayJ of the manual, pair by pair.
LEMMA LayJList ==
  LayJ = {<<31, 20>>, <<30, 10>>, <<29, 9>>, <<28, 8>>, <<27, 7>>,
          <<26, 6>>, <<25, 5>>, <<24, 4>>, <<23, 3>>, <<22, 2>>, <<21, 1>>,
          <<20, 11>>, <<19, 19>>, <<18, 18>>, <<17, 17>>, <<16, 16>>,
          <<15, 15>>, <<14, 14>>, <<13, 13>>, <<12, 12>>}
  BY DEF LayJ, Lay, Down

\* What the translator deposits in ImmJ is what the ISA lays out.
LEMMA Carries_J ==
  ASSUME NEW w \in Word
  PROVE  Carries(ImmJ(w), w, LayJ, 20)
<1> DEFINE
      p1 ==
        deposit32(deposit32(extract32(w, 21, 10), 10, 22, extract32(w, 20, 1)),
          11, 21, extract32(w, 12, 8))
      p2 ==
        deposit32(p1, 19, 13, sextract32(w, 31, 1))
<1>e. ImmJ(w) = ex_shift(p2, 1)
  BY DEF ImmJ
<1>q1. \A b \in 0 .. 31 :
        p1[b] = IF b <= 9 THEN w[b + 21]
                ELSE IF b = 10 THEN w[20]
                ELSE IF b <= 18 THEN w[b + 1]
                ELSE 0
  BY DEF deposit32, extract32
<1>q2. \A b \in 0 .. 31 :
        p2[b] = IF b <= 9 THEN w[b + 21]
                ELSE IF b = 10 THEN w[20]
                ELSE IF b <= 18 THEN w[b + 1]
                ELSE IF b = 19 THEN w[31]
                ELSE w[31]
  <2> HIDE DEF p1
  <2> QED BY <1>q1 DEF deposit32, extract32, sextract32
<1> HIDE DEF p1, p2
<1>1. \A b \in 0 .. 31 :
        ImmJ(w)[b] = IF b = 0 THEN 0
                     ELSE IF b <= 10 THEN w[b + 20]
                     ELSE IF b = 11 THEN w[20]
                     ELSE IF b <= 19 THEN w[b]
                     ELSE IF b = 20 THEN w[31]
                     ELSE w[31]
  BY <1>q2, <1>e DEF ex_shift
<1>2. ASSUME NEW e \in LayJ PROVE ImmJ(w)[e[2]] = w[e[1]]
  BY <1>1, LayJList
<1>3. ASSUME NEW k \in 0 .. 31, \A e \in LayJ : e[2] # k
      PROVE  ImmJ(w)[k] = IF k > 20 THEN ImmJ(w)[20] ELSE 0
  BY <1>1, <1>3, LayJList
<1> QED BY <1>2, <1>3 DEF Carries

\* What the translator deposits in ImmCsr is what the ISA lays out.
LEMMA Carries_Csr ==
  ASSUME NEW w \in Word
  PROVE  Carries(ImmCsr(w), w, LayI, Unsigned)
<1>1. \A b \in 0 .. 31 :
        ImmCsr(w)[b] = IF b <= 11 THEN w[b + 20]
                       ELSE 0
  BY DEF ImmCsr, extract32
<1>2. ASSUME NEW e \in LayI PROVE ImmCsr(w)[e[2]] = w[e[1]]
  BY <1>1, LayIList
<1>3. ASSUME NEW k \in 0 .. 31, \A e \in LayI : e[2] # k
      PROVE  ImmCsr(w)[k] = 0
  BY <1>1, <1>3, LayIList
<1> QED BY <1>2, <1>3 DEF Carries, Unsigned

\* The layout LayC_addi4spn of the manual, pair by pair.
LEMMA LayC_addi4spnList ==
  LayC_addi4spn = {<<12, 5>>, <<11, 4>>, <<10, 9>>, <<9, 8>>, <<8, 7>>,
                   <<7, 6>>, <<6, 2>>, <<5, 3>>}
  BY DEF LayC_addi4spn, Lay, Down

\* What the translator deposits in ImmC_addi4spn is what the ISA lays out.
LEMMA Carries_C_addi4spn ==
  ASSUME NEW w \in Word
  PROVE  Carries(ImmC_addi4spn(w), w, LayC_addi4spn, Unsigned)
<1> DEFINE
      p1 ==
        deposit32(deposit32(extract32(w, 6, 1), 1, 31, extract32(w, 5, 1)),
          2, 30, extract32(w, 11, 2))
      p2 ==
        deposit32(p1, 4, 28, extract32(w, 7, 4))
<1>e. ImmC_addi4spn(w) = ex_shift(p2, 2)
  BY DEF ImmC_addi4spn
<1>q1. \A b \in 0 .. 31 :
        p1[b] = IF b = 0 THEN w[6]
                ELSE IF b = 1 THEN w[5]
                ELSE IF b <= 3 THEN w[b + 9]
                ELSE 0
  BY DEF deposit32, extract32
<1>q2. \A b \in 0 .. 31 :
        p2[b] = IF b = 0 THEN w[6]
                ELSE IF b = 1 THEN w[5]
                ELSE IF b <= 3 THEN w[b + 9]
                ELSE IF b <= 7 THEN w[b + 3]
                ELSE 0
  <2> HIDE DEF p1
  <2> QED BY <1>q1 DEF deposit32, extract32, sextract32
<1> HIDE DEF p1, p2
<1>1. \A b \in 0 .. 31 :
        ImmC_addi4spn(w)[b] = IF b <= 1 THEN 0
                              ELSE IF b = 2 THEN w[6]
                              ELSE IF b = 3 THEN w[5]
                              ELSE IF b <= 5 THEN w[b + 7]
                              ELSE IF b <= 9 THEN w[b + 1]
                              ELSE 0
  BY <1>q2, <1>e DEF ex_shift
<1>2. ASSUME NEW e \in LayC_addi4spn PROVE ImmC_addi4spn(w)[e[2]] = w[e[1]]
  BY <1>1, LayC_addi4spnList
<1>3. ASSUME NEW k \in 0 .. 31, \A e \in LayC_addi4spn : e[2] # k
      PROVE  ImmC_addi4spn(w)[k] = 0
  BY <1>1, <1>3, LayC_addi4spnList
<1> QED BY <1>2, <1>3 DEF Carries, Unsigned

\* The layout LayC_w of the manual, pair by pair.
LEMMA LayC_wList ==
  LayC_w = {<<12, 5>>, <<11, 4>>, <<10, 3>>, <<6, 2>>, <<5, 6>>}
  BY DEF LayC_w, Lay, Down

\* What the translator deposits in ImmC_w is what the ISA lays out.
LEMMA Carries_C_w ==
  ASSUME NEW w \in Word
  PROVE  Carries(ImmC_w(w), w, LayC_w, Unsigned)
<1>1. \A b \in 0 .. 31 :
        ImmC_w(w)[b] = IF b <= 1 THEN 0
                       ELSE IF b = 2 THEN w[6]
                       ELSE IF b <= 5 THEN w[b + 7]
                       ELSE IF b = 6 THEN w[5]
                       ELSE 0
  BY DEF ImmC_w, deposit32, extract32, ex_shift
<1>2. ASSUME NEW e \in LayC_w PROVE ImmC_w(w)[e[2]] = w[e[1]]
  BY <1>1, LayC_wList
<1>3. ASSUME NEW k \in 0 .. 31, \A e \in LayC_w : e[2] # k
      PROVE  ImmC_w(w)[k] = 0
  BY <1>1, <1>3, LayC_wList
<1> QED BY <1>2, <1>3 DEF Carries, Unsigned

\* The layout LayC_d of the manual, pair by pair.
LEMMA LayC_dList ==
  LayC_d = {<<12, 5>>, <<11, 4>>, <<10, 3>>, <<6, 7>>, <<5, 6>>}
  BY DEF LayC_d, Lay, Down

\* What the translator deposits in ImmC_d is what the ISA lays out.
LEMMA Carries_C_d ==
  ASSUME NEW w \in Word
  PROVE  Carries(ImmC_d(w), w, LayC_d, Unsigned)
<1>1. \A b \in 0 .. 31 :
        ImmC_d(w)[b] = IF b <= 2 THEN 0
                       ELSE IF b <= 5 THEN w[b + 7]
                       ELSE IF b <= 7 THEN w[b - 1]
                       ELSE 0
  BY DEF ImmC_d, deposit32, extract32, ex_shift
<1>2. ASSUME NEW e \in LayC_d PROVE ImmC_d(w)[e[2]] = w[e[1]]
  BY <1>1, LayC_dList
<1>3. ASSUME NEW k \in 0 .. 31, \A e \in LayC_d : e[2] # k
      PROVE  ImmC_d(w)[k] = 0
  BY <1>1, <1>3, LayC_dList
<1> QED BY <1>2, <1>3 DEF Carries, Unsigned

\* The layout LayC_6 of the manual, pair by pair.
LEMMA LayC_6List ==
  LayC_6 = {<<12, 5>>, <<6, 4>>, <<5, 3>>, <<4, 2>>, <<3, 1>>, <<2, 0>>}
  BY DEF LayC_6, Lay, Down

\* What the translator deposits in ImmC_6 is what the ISA lays out.
LEMMA Carries_C_6 ==
  ASSUME NEW w \in Word
  PROVE  Carries(ImmC_6(w), w, LayC_6, 5)
<1>1. \A b \in 0 .. 31 :
        ImmC_6(w)[b] = IF b <= 4 THEN w[b + 2]
                       ELSE IF b = 5 THEN w[12]
                       ELSE w[12]
  BY DEF ImmC_6, deposit32, extract32, sextract32
<1>2. ASSUME NEW e \in LayC_6 PROVE ImmC_6(w)[e[2]] = w[e[1]]
  BY <1>1, LayC_6List
<1>3. ASSUME NEW k \in 0 .. 31, \A e \in LayC_6 : e[2] # k
      PROVE  ImmC_6(w)[k] = IF k > 5 THEN ImmC_6(w)[5] ELSE 0
  BY <1>1, <1>3, LayC_6List
<1> QED BY <1>2, <1>3 DEF Carries

\* The layout LayC_lui of the manual, pair by pair.
LEMMA LayC_luiList ==
  LayC_lui = {<<12, 17>>, <<6, 16>>, <<5, 15>>, <<4, 14>>, <<3, 13>>,
              <<2, 12>>}
  BY DEF LayC_lui, Lay, Down

\* What the translator deposits in ImmC_lui is what the ISA lays out.
LEMMA Carries_C_lui ==
  ASSUME NEW w \in Word
  PROVE  Carries(ImmC_lui(w), w, LayC_lui, 17)
<1>1. \A b \in 0 .. 31 :
        ImmC_lui(w)[b] = IF b <= 11 THEN 0
                         ELSE IF b <= 16 THEN w[b - 10]
                         ELSE IF b = 17 THEN w[12]
                         ELSE w[12]
  BY DEF ImmC_lui, deposit32, extract32, sextract32, ImmC_6, ex_shift
<1>2. ASSUME NEW e \in LayC_lui PROVE ImmC_lui(w)[e[2]] = w[e[1]]
  BY <1>1, LayC_luiList
<1>3. ASSUME NEW k \in 0 .. 31, \A e \in LayC_lui : e[2] # k
      PROVE  ImmC_lui(w)[k] = IF k > 17 THEN ImmC_lui(w)[17] ELSE 0
  BY <1>1, <1>3, LayC_luiList
<1> QED BY <1>2, <1>3 DEF Carries

\* What the translator deposits in ImmC_shamt is what the ISA lays out.
LEMMA Carries_C_shamt ==
  ASSUME NEW w \in Word
  PROVE  Carries(ImmC_shamt(w), w, LayC_6, Unsigned)
<1>1. \A b \in 0 .. 31 :
        ImmC_shamt(w)[b] = IF b <= 4 THEN w[b + 2]
                           ELSE IF b = 5 THEN w[12]
                           ELSE 0
  BY DEF ImmC_shamt, deposit32, extract32
<1>2. ASSUME NEW e \in LayC_6 PROVE ImmC_shamt(w)[e[2]] = w[e[1]]
  BY <1>1, LayC_6List
<1>3. ASSUME NEW k \in 0 .. 31, \A e \in LayC_6 : e[2] # k
      PROVE  ImmC_shamt(w)[k] = 0
  BY <1>1, <1>3, LayC_6List
<1> QED BY <1>2, <1>3 DEF Carries, Unsigned

\* The layout LayC_addi16sp of the manual, pair by pair.
LEMMA LayC_addi16spList ==
  LayC_addi16sp = {<<12, 9>>, <<6, 4>>, <<5, 6>>, <<4, 8>>, <<3, 7>>,
                   <<2, 5>>}
  BY DEF LayC_addi16sp, Lay, Down

\* What the translator deposits in ImmC_addi16sp is what the ISA lays out.
LEMMA Carries_C_addi16sp ==
  ASSUME NEW w \in Word
  PROVE  Carries(ImmC_addi16sp(w), w, LayC_addi16sp, 9)
<1> DEFINE
      p1 ==
        deposit32(deposit32(extract32(w, 6, 1), 1, 31, extract32(w, 2, 1)),
          2, 30, extract32(w, 5, 1))
      p2 ==
        deposit32(deposit32(p1, 3, 29, extract32(w, 3, 2)),
          5, 27, sextract32(w, 12, 1))
<1>e. ImmC_addi16sp(w) = ex_shift(p2, 4)
  BY DEF ImmC_addi16sp
<1>q1. \A b \in 0 .. 31 :
        p1[b] = IF b = 0 THEN w[6]
                ELSE IF b = 1 THEN w[2]
                ELSE IF b = 2 THEN w[5]
                ELSE 0
  BY DEF deposit32, extract32
<1>q2. \A b \in 0 .. 31 :
        p2[b] = IF b = 0 THEN w[6]
                ELSE IF b = 1 THEN w[2]
                ELSE IF b = 2 THEN w[5]
                ELSE IF b <= 4 THEN w[b]
                ELSE IF b = 5 THEN w[12]
                ELSE w[12]
  <2> HIDE DEF p1
  <2> QED BY <1>q1 DEF deposit32, extract32, sextract32
<1> HIDE DEF p1, p2
<1>1. \A b \in 0 .. 31 :
        ImmC_addi16sp(w)[b] = IF b <= 3 THEN 0
                              ELSE IF b = 4 THEN w[6]
                              ELSE IF b = 5 THEN w[2]
                              ELSE IF b = 6 THEN w[5]
                              ELSE IF b <= 8 THEN w[b - 4]
                              ELSE IF b = 9 THEN w[12]
                              ELSE w[12]
  BY <1>q2, <1>e DEF ex_shift
<1>2. ASSUME NEW e \in LayC_addi16sp PROVE ImmC_addi16sp(w)[e[2]] = w[e[1]]
  BY <1>1, LayC_addi16spList
<1>3. ASSUME NEW k \in 0 .. 31, \A e \in LayC_addi16sp : e[2] # k
      PROVE  ImmC_addi16sp(w)[k] = IF k > 9 THEN ImmC_addi16sp(w)[9] ELSE 0
  BY <1>1, <1>3, LayC_addi16spList
<1> QED BY <1>2, <1>3 DEF Carries

\* The layout LayC_j of the manual, pair by pair.
LEMMA LayC_jList ==
  LayC_j = {<<12, 11>>, <<11, 4>>, <<10, 9>>, <<9, 8>>, <<8, 10>>, <<7, 6>>,
            <<6, 7>>, <<5, 3>>, <<4, 2>>, <<3, 1>>, <<2, 5>>}
  BY DEF LayC_j, Lay, Down

\* What the translator deposits in ImmC_j is what the ISA lays out.
LEMMA Carries_C_j ==
  ASSUME NEW w \in Word
  PROVE  Carries(ImmC_j(w), w, LayC_j, 11)
<1> DEFINE
      p1 ==
        deposit32(deposit32(extract32(w, 3, 3), 3, 29, extract32(w, 11, 1)),
          4, 28, extract32(w, 2, 1))
      p2 ==
        deposit32(deposit32(p1, 5, 27, extract32(w, 7, 1)),
          6, 26, extract32(w, 6, 1))
      p3 ==
        deposit32(deposit32(p2, 7, 25, extract32(w, 9, 2)),
          9, 23, extract32(w, 8, 1))
      p4 ==
        deposit32(p3, 10, 22, sextract32(w, 12, 1))
<1>e. ImmC_j(w) = ex_shift(p4, 1)
  BY DEF ImmC_j
<1>q1. \A b \in 0 .. 31 :
        p1[b] = IF b <= 2 THEN w[b + 3]
                ELSE IF b = 3 THEN w[11]
                ELSE IF b = 4 THEN w[2]
                ELSE 0
  BY DEF deposit32, extract32
<1>q2. \A b \in 0 .. 31 :
        p2[b] = IF b <= 2 THEN w[b + 3]
                ELSE IF b = 3 THEN w[11]
                ELSE IF b = 4 THEN w[2]
                ELSE IF b = 5 THEN w[7]
                ELSE IF b = 6 THEN w[6]
                ELSE 0
  <2> HIDE DEF p1
  <2> QED BY <1>q1 DEF deposit32, extract32, sextract32
<1>q3. \A b \in 0 .. 31 :
        p3[b] = IF b <= 2 THEN w[b + 3]
                ELSE IF b = 3 THEN w[11]
                ELSE IF b = 4 THEN w[2]
                ELSE IF b = 5 THEN w[7]
                ELSE IF b = 6 THEN w[6]
                ELSE IF b <= 8 THEN w[b + 2]
                ELSE IF b = 9 THEN w[8]
                ELSE 0
  <2> HIDE DEF p2
  <2> QED BY <1>q2 DEF deposit32, extract32, sextract32
<1>q4. \A b \in 0 .. 31 :
        p4[b] = IF b <= 2 THEN w[b + 3]
                ELSE IF b = 3 THEN w[11]
                ELSE IF b = 4 THEN w[2]
                ELSE IF b = 5 THEN w[7]
                ELSE IF b = 6 THEN w[6]
                ELSE IF b <= 8 THEN w[b + 2]
                ELSE IF b = 9 THEN w[8]
                ELSE IF b = 10 THEN w[12]
                ELSE w[12]
  <2> HIDE DEF p3
  <2> QED BY <1>q3 DEF deposit32, extract32, sextract32
<1> HIDE DEF p1, p2, p3, p4
<1>1. \A b \in 0 .. 31 :
        ImmC_j(w)[b] = IF b = 0 THEN 0
                       ELSE IF b <= 3 THEN w[b + 2]
                       ELSE IF b = 4 THEN w[11]
                       ELSE IF b = 5 THEN w[2]
                       ELSE IF b = 6 THEN w[7]
                       ELSE IF b = 7 THEN w[6]
                       ELSE IF b <= 9 THEN w[b + 1]
                       ELSE IF b = 10 THEN w[8]
                       ELSE IF b = 11 THEN w[12]
                       ELSE w[12]
  BY <1>q4, <1>e DEF ex_shift
<1>2. ASSUME NEW e \in LayC_j PROVE ImmC_j(w)[e[2]] = w[e[1]]
  BY <1>1, LayC_jList
<1>3. ASSUME NEW k \in 0 .. 31, \A e \in LayC_j : e[2] # k
      PROVE  ImmC_j(w)[k] = IF k > 11 THEN ImmC_j(w)[11] ELSE 0
  BY <1>1, <1>3, LayC_jList
<1> QED BY <1>2, <1>3 DEF Carries

\* The layout LayC_b of the manual, pair by pair.
LEMMA LayC_bList ==
  LayC_b = {<<12, 8>>, <<11, 4>>, <<10, 3>>, <<6, 7>>, <<5, 6>>, <<4, 2>>,
            <<3, 1>>, <<2, 5>>}
  BY DEF LayC_b, Lay, Down

\* What the translator deposits in ImmC_b is what the ISA lays out.
LEMMA Carries_C_b ==
  ASSUME NEW w \in Word
  PROVE  Carries(ImmC_b(w), w, LayC_b, 8)
<1> DEFINE
      p1 ==
        deposit32(deposit32(extract32(w, 3, 2), 2, 30, extract32(w, 10, 2)),
          4, 28, extract32(w, 2, 1))
      p2 ==
        deposit32(deposit32(p1, 5, 27, extract32(w, 5, 2)),
          7, 25, sextract32(w, 12, 1))
<1>e. ImmC_b(w) = ex_shift(p2, 1)
  BY DEF ImmC_b
<1>q1. \A b \in 0 .. 31 :
        p1[b] = IF b <= 1 THEN w[b + 3]
                ELSE IF b <= 3 THEN w[b + 8]
                ELSE IF b = 4 THEN w[2]
                ELSE 0
  BY DEF deposit32, extract32
<1>q2. \A b \in 0 .. 31 :
        p2[b] = IF b <= 1 THEN w[b + 3]
                ELSE IF b <= 3 THEN w[b + 8]
                ELSE IF b = 4 THEN w[2]
                ELSE IF b <= 6 THEN w[b]
                ELSE IF b = 7 THEN w[12]
                ELSE w[12]
  <2> HIDE DEF p1
  <2> QED BY <1>q1 DEF deposit32, extract32, sextract32
<1> HIDE DEF p1, p2
<1>1. \A b \in 0 .. 31 :
        ImmC_b(w)[b] = IF b = 0 THEN 0
                       ELSE IF b <= 2 THEN w[b + 2]
                       ELSE IF b <= 4 THEN w[b + 7]
                       ELSE IF b = 5 THEN w[2]
                       ELSE IF b <= 7 THEN w[b - 1]
                       ELSE IF b = 8 THEN w[12]
                       ELSE w[12]
  BY <1>q2, <1>e DEF ex_shift
<1>2. ASSUME NEW e \in LayC_b PROVE ImmC_b(w)[e[2]] = w[e[1]]
  BY <1>1, LayC_bList
<1>3. ASSUME NEW k \in 0 .. 31, \A e \in LayC_b : e[2] # k
      PROVE  ImmC_b(w)[k] = IF k > 8 THEN ImmC_b(w)[8] ELSE 0
  BY <1>1, <1>3, LayC_bList
<1> QED BY <1>2, <1>3 DEF Carries

\* The layout LayC_lwsp of the manual, pair by pair.
LEMMA LayC_lwspList ==
  LayC_lwsp = {<<12, 5>>, <<6, 4>>, <<5, 3>>, <<4, 2>>, <<3, 7>>, <<2, 6>>}
  BY DEF LayC_lwsp, Lay, Down

\* What the translator deposits in ImmC_lwsp is what the ISA lays out.
LEMMA Carries_C_lwsp ==
  ASSUME NEW w \in Word
  PROVE  Carries(ImmC_lwsp(w), w, LayC_lwsp, Unsigned)
<1>1. \A b \in 0 .. 31 :
        ImmC_lwsp(w)[b] = IF b <= 1 THEN 0
                          ELSE IF b <= 4 THEN w[b + 2]
                          ELSE IF b = 5 THEN w[12]
                          ELSE IF b <= 7 THEN w[b - 4]
                          ELSE 0
  BY DEF ImmC_lwsp, deposit32, extract32, ex_shift
<1>2. ASSUME NEW e \in LayC_lwsp PROVE ImmC_lwsp(w)[e[2]] = w[e[1]]
  BY <1>1, LayC_lwspList
<1>3. ASSUME NEW k \in 0 .. 31, \A e \in LayC_lwsp : e[2] # k
      PROVE  ImmC_lwsp(w)[k] = 0
  BY <1>1, <1>3, LayC_lwspList
<1> QED BY <1>2, <1>3 DEF Carries, Unsigned

\* The layout LayC_ldsp of the manual, pair by pair.
LEMMA LayC_ldspList ==
  LayC_ldsp = {<<12, 5>>, <<6, 4>>, <<5, 3>>, <<4, 8>>, <<3, 7>>, <<2, 6>>}
  BY DEF LayC_ldsp, Lay, Down

\* What the translator deposits in ImmC_ldsp is what the ISA lays out.
LEMMA Carries_C_ldsp ==
  ASSUME NEW w \in Word
  PROVE  Carries(ImmC_ldsp(w), w, LayC_ldsp, Unsigned)
<1>1. \A b \in 0 .. 31 :
        ImmC_ldsp(w)[b] = IF b <= 2 THEN 0
                          ELSE IF b <= 4 THEN w[b + 2]
                          ELSE IF b = 5 THEN w[12]
                          ELSE IF b <= 8 THEN w[b - 4]
                          ELSE 0
  BY DEF ImmC_ldsp, deposit32, extract32, ex_shift
<1>2. ASSUME NEW e \in LayC_ldsp PROVE ImmC_ldsp(w)[e[2]] = w[e[1]]
  BY <1>1, LayC_ldspList
<1>3. ASSUME NEW k \in 0 .. 31, \A e \in LayC_ldsp : e[2] # k
      PROVE  ImmC_ldsp(w)[k] = 0
  BY <1>1, <1>3, LayC_ldspList
<1> QED BY <1>2, <1>3 DEF Carries, Unsigned

\* The layout LayC_swsp of the manual, pair by pair.
LEMMA LayC_swspList ==
  LayC_swsp = {<<12, 5>>, <<11, 4>>, <<10, 3>>, <<9, 2>>, <<8, 7>>,
               <<7, 6>>}
  BY DEF LayC_swsp, Lay, Down

\* What the translator deposits in ImmC_swsp is what the ISA lays out.
LEMMA Carries_C_swsp ==
  ASSUME NEW w \in Word
  PROVE  Carries(ImmC_swsp(w), w, LayC_swsp, Unsigned)
<1>1. \A b \in 0 .. 31 :
        ImmC_swsp(w)[b] = IF b <= 1 THEN 0
                          ELSE IF b <= 5 THEN w[b + 7]
                          ELSE IF b <= 7 THEN w[b + 1]
                          ELSE 0
  BY DEF ImmC_swsp, deposit32, extract32, ex_shift
<1>2. ASSUME NEW e \in LayC_swsp PROVE ImmC_swsp(w)[e[2]] = w[e[1]]
  BY <1>1, LayC_swspList
<1>3. ASSUME NEW k \in 0 .. 31, \A e \in LayC_swsp : e[2] # k
      PROVE  ImmC_swsp(w)[k] = 0
  BY <1>1, <1>3, LayC_swspList
<1> QED BY <1>2, <1>3 DEF Carries, Unsigned

\* The layout LayC_sdsp of the manual, pair by pair.
LEMMA LayC_sdspList ==
  LayC_sdsp = {<<12, 5>>, <<11, 4>>, <<10, 3>>, <<9, 8>>, <<8, 7>>,
               <<7, 6>>}
  BY DEF LayC_sdsp, Lay, Down

\* What the translator deposits in ImmC_sdsp is what the ISA lays out.
LEMMA Carries_C_sdsp ==
  ASSUME NEW w \in Word
  PROVE  Carries(ImmC_sdsp(w), w, LayC_sdsp, Unsigned)
<1>1. \A b \in 0 .. 31 :
        ImmC_sdsp(w)[b] = IF b <= 2 THEN 0
                          ELSE IF b <= 5 THEN w[b + 7]
                          ELSE IF b <= 8 THEN w[b + 1]
                          ELSE 0
  BY DEF ImmC_sdsp, deposit32, extract32, ex_shift
<1>2. ASSUME NEW e \in LayC_sdsp PROVE ImmC_sdsp(w)[e[2]] = w[e[1]]
  BY <1>1, LayC_sdspList
<1>3. ASSUME NEW k \in 0 .. 31, \A e \in LayC_sdsp : e[2] # k
      PROVE  ImmC_sdsp(w)[k] = 0
  BY <1>1, <1>3, LayC_sdspList
<1> QED BY <1>2, <1>3 DEF Carries, Unsigned

\* The immediates of the 32-bit formats, as decode_insn32_extract_X builds
\* them, are those of the ISA for every word.
THEOREM ImmediatesAreTheIsas ==
  ASSUME NEW w \in Word
  PROVE
    /\ Carries(ImmI(w), w, LayI, 11)
    /\ Carries(ImmS(w), w, LayS, 11)
    /\ Carries(ImmB(w), w, LayB, 12)
    /\ Carries(ImmU(w), w, LayU, 31)
    /\ Carries(ImmJ(w), w, LayJ, 20)
    /\ Carries(ImmCsr(w), w, LayI, Unsigned)
  BY Carries_I,
     Carries_S,
     Carries_B,
     Carries_U,
     Carries_J,
     Carries_Csr

\* The immediates of the 16-bit formats, as decode_insn16_extract_c_X builds
\* them, are those of the ISA for every word.
THEOREM CompressedImmediatesAreTheIsas ==
  ASSUME NEW w \in Word
  PROVE
    /\ Carries(ImmC_addi4spn(w), w, LayC_addi4spn, Unsigned)
    /\ Carries(ImmC_w(w), w, LayC_w, Unsigned)
    /\ Carries(ImmC_d(w), w, LayC_d, Unsigned)
    /\ Carries(ImmC_6(w), w, LayC_6, 5)
    /\ Carries(ImmC_lui(w), w, LayC_lui, 17)
    /\ Carries(ImmC_shamt(w), w, LayC_6, Unsigned)
    /\ Carries(ImmC_addi16sp(w), w, LayC_addi16sp, 9)
    /\ Carries(ImmC_j(w), w, LayC_j, 11)
    /\ Carries(ImmC_b(w), w, LayC_b, 8)
    /\ Carries(ImmC_lwsp(w), w, LayC_lwsp, Unsigned)
    /\ Carries(ImmC_ldsp(w), w, LayC_ldsp, Unsigned)
    /\ Carries(ImmC_swsp(w), w, LayC_swsp, Unsigned)
    /\ Carries(ImmC_sdsp(w), w, LayC_sdsp, Unsigned)
  BY Carries_C_addi4spn,
     Carries_C_w,
     Carries_C_d,
     Carries_C_6,
     Carries_C_lui,
     Carries_C_shamt,
     Carries_C_addi16sp,
     Carries_C_j,
     Carries_C_b,
     Carries_C_lwsp,
     Carries_C_ldsp,
     Carries_C_swsp,
     Carries_C_sdsp
==============================================================================
