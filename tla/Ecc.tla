-------------------------------- MODULE Ecc ---------------------------------
(***************************************************************************)
(* The error-correcting codes of ecc.py and the raw images of image.py     *)
(* that carry them: Hamming (one flip per step), binary BCH (Berlekamp-    *)
(* Massey and a search for the roots), the place of the ECC bytes in the   *)
(* spare area, merge and ecc_check.                                        *)
(*                                                                         *)
(* Data are sets of positions <<byte, bit>>: those that hold a 0, as an    *)
(* erased flash is all ones.  Parities and remainders are linear and every *)
(* parity group has an even number of positions, so the ECC bits that are  *)
(* 0 are the odd groups of zeros, and the remainder of the zeros: the code *)
(* inverts the one, and XORs the other with the ECC of an erased step.     *)
(***************************************************************************)
EXTENDS Integers, Sequences, FiniteSets, FiniteSetsExt, SequencesExt

CONSTANTS
  M, Prim,   \* GF(2^M) and the exponents of its primitive polynomial
  T, Step    \* BCH: flips it corrects, data bytes of a step

ASSUME EccAssumption ==
  /\ M \in Nat \ {0}
  /\ Prim \subseteq 0 .. M /\ M \in Prim
  /\ T \in Nat \ {0}
  /\ Step \in Nat \ {0}
  /\ 8 * Step + M * T < 2 ^ M

Odd(S) == Cardinality(S) % 2 = 1
BitOf(i, k) == (i \div 2 ^ k) % 2
XorAll(sets) == {e \in UNION Range(sets) : Odd({i \in DOMAIN sets : e \in sets[i]})}

------------------------------------------------------------------------------
(* Hamming *)

IndexBits(n) == IF n = 256 THEN 8 ELSE 9

\* The parities: of the bytes whose index has bit k = v, of the columns.
Parities(n) ==
  {<<"rp", k, v>> : k \in 0 .. (IndexBits(n) - 1), v \in {0, 1}}
    \cup {<<"cp", j, v>> : j \in 0 .. 2, v \in {0, 1}}
Group(p, zs) == {z \in zs : BitOf(IF p[1] = "rp" THEN z[1] ELSE z[2], p[2]) = p[3]}

\* Where a parity is kept: rp15..rp8, rp7..rp0, then the columns and rp17, rp16.
Kept(p) ==
  LET r == 2 * p[2] + p[3] IN
  IF p[1] = "cp" THEN <<2, r + 2>>
  ELSE IF r < 8 THEN <<1, r>> ELSE IF r < 16 THEN <<0, r - 8>> ELSE <<2, r - 16>>

\* Slip: the ninth bit of the index has no parity.
HammingCalcEight(n, zs) == {Kept(p) : p \in {q \in Parities(256) : Odd(Group(q, zs))}}

HammingCalc(n, zs) == {Kept(p) : p \in {q \in Parities(n) : Odd(Group(q, zs))}}

\* The number below n whose 1 bits are ks.
NumberOf(ks, n) == CHOOSE i \in 0 .. (n - 1) : \A k \in 0 .. 8 : BitOf(i, k) = 1 <=> k \in ks

\* The result: flips corrected or -1, and the data.
HammingSyndrome(n, zs, syn) ==
  LET ones == Cardinality(syn)
      byte == NumberOf({k \in 0 .. (IndexBits(n) - 1) : Kept(<<"rp", k, 1>>) \in syn}, n)
      bit == NumberOf({j \in 0 .. 2 : Kept(<<"cp", j, 1>>) \in syn}, 8)
  IN IF ones = 0 THEN [r |-> 0, data |-> zs]
     ELSE IF ones = (IF n = 512 THEN 12 ELSE 11)
     THEN [r |-> 1, data |-> SymDiff(zs, {<<byte, bit>>})]
     ELSE [r |-> IF ones = 1 THEN 1 ELSE -1, data |-> zs]
HammingCorrect(n, zs, stored) == HammingSyndrome(n, zs, SymDiff(stored, HammingCalc(n, zs)))

------------------------------------------------------------------------------
(* BCH: the field, its elements as sets of exponents *)

N == 2 ^ M - 1

\* The powers of x up to n, modulo a polynomial of degree d, with their exponents.
PowersOfX(n, poly, d) ==
  LET power[i \in 0 .. n] ==
        IF i = 0 THEN {0}
        ELSE LET s == {k + 1 : k \in power[i - 1]} IN IF d \in s THEN SymDiff(s, poly) ELSE s
  IN {<<i, power[i]>> : i \in 0 .. n}

exp == PowersOfX(N - 1, Prim, M)
Alpha(i) == (CHOOSE p \in exp : p[1] = i % N)[2]
Log(e) == (CHOOSE p \in exp : p[2] = e)[1]
Mul(a, b) == IF a = {} \/ b = {} THEN {} ELSE Alpha(Log(a) + Log(b))

\* Polynomials over the field: sets of <<degree, exponent in its coefficient>>,
\* so that their sum is the symmetric difference.
OnePoly == {<<0, 0>>}
Coef(p, k) == {z[2] : z \in {y \in p : y[1] = k}}
Degrees(p) == {z[1] : z \in p}
Scaled(c, p) == UNION {{k} \X Mul(c, Coef(p, k)) : k \in Degrees(p)}
Shifted(m, p) == {<<z[1] + m, z[2]>> : z \in p}

\* _minpoly, _generator: the product of x + Alpha(c) over the conjugates c of
\* Alpha(1) .. Alpha(2T).
Conjugates == {(i * 2 ^ j) % N : i \in 1 .. (2 * T), j \in 0 .. (M - 1)}
Gen ==
  LET product[i \in 0 .. N] ==
        IF i = 0 THEN OnePoly
        ELSE LET p == product[i - 1] IN
             IF i \in Conjugates THEN SymDiff(Shifted(1, p), Scaled(Alpha(i), p)) ELSE p
  IN Degrees(product[N])
Deg == Max(Gen)
EccBytes == (Deg + 7) \div 8

------------------------------------------------------------------------------
(* BCH: a step *)

\* The degree of a data bit (the first byte and its top bit come first) and of a
\* bit of the ECC, which is padded at its end.
DataDegree(z) == Deg + 8 * (Step - 1 - z[1]) + z[2]
EccDegree(z) == 8 * (EccBytes - 1 - z[1]) + z[2] - (8 * EccBytes - Deg)

StepBits == (0 .. (Step - 1)) \X (0 .. 7)
EccBits == (0 .. (EccBytes - 1)) \X (0 .. 7)

\* x^k modulo the generator, for every degree of a codeword.
xmod == UNION {{p[1]} \X p[2] : p \in PowersOfX(8 * Step + Deg - 1, Gen, Deg)}
Remainder(zs) == {d \in 0 .. (Deg - 1) : Odd({z \in zs : <<DataDegree(z), d>> \in xmod})}

BchCalc(zs) == LET r == Remainder(zs) IN {z \in EccBits : EccDegree(z) \in r}

\* S_j = rem(Alpha^j)
Syndrome(rem, j) == {e \in 0 .. (M - 1) : Odd({k \in rem : e \in Alpha(j * k)})}

BerlekampMassey(s) ==
  LET Discrepancy(acc, n) ==
        XorAll(<<s[n + 1]>> \o [i \in 1 .. acc.L |-> Mul(Coef(acc.c, i), s[n - i + 1])])
      Round(acc, n) ==
        LET d == Discrepancy(acc, n)
            coef == Alpha(Log(d) + N - Log(acc.bb))
            c == SymDiff(acc.c, Scaled(coef, Shifted(acc.m, acc.b)))
        IN IF d = {} THEN [acc EXCEPT !.m = @ + 1]
           ELSE IF 2 * acc.L =< n
           THEN [c |-> c, b |-> acc.c, L |-> n + 1 - acc.L, m |-> 1, bb |-> d]
           ELSE [acc EXCEPT !.c = c, !.m = @ + 1]
  IN FoldLeft(Round, [c |-> OnePoly, b |-> OnePoly, L |-> 0, m |-> 1, bb |-> {0}],
              [i \in 1 .. (2 * T) |-> i - 1]).c

\* Codeword degrees p with locator(Alpha^-p) = 0.
Roots(locator) ==
  LET terms == {<<k, Coef(locator, k)>> : k \in Degrees(locator)}
  IN {p \in 0 .. (8 * Step + Deg - 1) :
        \A e \in 0 .. (M - 1) :
          ~Odd({t \in terms : e \in Mul(t[2], Alpha(t[1] * (N - p)))})}

\* The flips at the roots are undone, unless the roots say that there are others.
Corrected(zs, nerr, roots) ==
  IF nerr = 0 \/ nerr > T \/ Cardinality(roots) # nerr THEN [r |-> -1, data |-> zs]
  ELSE [r |-> nerr, data |-> SymDiff(zs, {z \in StepBits : DataDegree(z) \in roots})]
CorrectRemainder(zs, rem) ==
  LET CorrectAt(locator) == Corrected(zs, Max(Degrees(locator)), Roots(locator))
  IN IF rem = {} THEN [r |-> 0, data |-> zs]
     ELSE CorrectAt(BerlekampMassey([j \in 1 .. (2 * T) |-> Syndrome(rem, j)]))

BchCorrect(zs, stored) ==
  CorrectRemainder(zs, SymDiff(Remainder(zs), {EccDegree(z) : z \in stored} \cap Nat))

------------------------------------------------------------------------------
(* Layouts and raw pages *)

\* A layout: its scheme, data and ECC bytes of a step, the place of the ECC in
\* the spare area (-1: at its end), and the geometry of the page.
Calc(lay, zs) == IF lay.scheme = "hamming" THEN HammingCalc(lay.step, zs) ELSE BchCalc(zs)
Correct(lay, zs, stored) ==
  IF lay.scheme = "hamming" THEN HammingCorrect(lay.step, zs, stored) ELSE BchCorrect(zs, stored)

Cut(zs, off, n) == {<<z[1] - off, z[2]>> : z \in {y \in zs : off =< y[1] /\ y[1] < off + n}}
Paste(zs, off) == {<<z[1] + off, z[2]>> : z \in zs}

Steps(lay) == lay.page \div lay.step

\* positions: data and ECC offset of step i.
DataAt(lay, i) == (i - 1) * lay.step
EccAt(lay, i) ==
  LET base == IF lay.off = -1 THEN lay.oob - Steps(lay) * lay.ecc ELSE lay.off
  IN lay.page + base + (i - 1) * lay.ecc

StepData(lay, raw, i) == Cut(raw, DataAt(lay, i), lay.step)
StepEcc(lay, raw, i) == Cut(raw, EccAt(lay, i), lay.ecc)

Replace(raw, off, n, zs) == {z \in raw : z[1] < off \/ off + n =< z[1]} \cup Paste(zs, off)

\* merge, one page: the ECC is computed unless the page is blank.
Merge(lay, main, spare) ==
  IF main = {} THEN Paste(spare, lay.page)
  ELSE FoldLeft(LAMBDA raw, i : Replace(raw, EccAt(lay, i), lay.ecc, Calc(lay, StepData(lay, main, i))),
                main \cup Paste(spare, lay.page), [i \in 1 .. Steps(lay) |-> i])

\* ecc_check, one page: the corrected page, and what the report says of each
\* step: that it is blank, -1, or the number of flips that were corrected.
BlankStep == -2
CheckSteps(lay, page) ==
  [i \in 1 .. Steps(lay) |-> Correct(lay, StepData(lay, page, i), StepEcc(lay, page, i))]
Reported(lay, page, c) ==
  LET corrected == {i \in DOMAIN c : c[i].r > 0}
      inData(z, i) == DataAt(lay, i) =< z[1] /\ z[1] < DataAt(lay, i) + lay.step
      blank(i) == StepData(lay, page, i) = {} /\ StepEcc(lay, page, i) = {}
  IN [raw |-> {z \in page : \A i \in corrected : ~inData(z, i)}
                \cup UNION {Paste(c[i].data, DataAt(lay, i)) : i \in corrected},
      steps |-> [i \in DOMAIN c |-> IF blank(i) THEN BlankStep ELSE c[i].r]]
Check(lay, page) == Reported(lay, page, CheckSteps(lay, page))
==============================================================================
