---------------------------- MODULE SectorProofs ----------------------------
(***************************************************************************)
(* What holds of the sectors on their way between the disk and the calls:  *)
(* of the transfers (SectorIo) for every geometry, page and request, and   *)
(* of the caches (SectorCache) for any drives, sectors, parts, slots and   *)
(* writes.                                                                 *)
(***************************************************************************)
EXTENDS SectorIo, SectorCache, SequenceTheorems, WellFoundedInduction, TLAPS

-----------------------------------------------------------------------------
(***************************************************************************)
(* SectorIo: sectors are moved in order, bursts fit, the user is asked in  *)
(* time, and the transfers implement SectorService.                        *)
(***************************************************************************)

-----------------------------------------------------------------------------
(* Arithmetic *)

(* Division with remainder. *)
LEMMA DivMod ==
    ASSUME NEW a \in Nat, NEW p \in Nat \ {0}
    PROVE  /\ a \div p \in Nat /\ a % p \in Nat
           /\ a % p < p
           /\ a = (p * (a \div p)) + (a % p)
  BY SMT

(* Multiplication is monotonic. *)
LEMMA MulMono ==
    ASSUME NEW a \in Nat, NEW b \in Nat, NEW p \in Nat, a <= b
    PROVE  a * p <= b * p /\ p * a <= p * b
  BY SMT

(* Quotient and remainder are unique. *)
LEMMA ModUnique ==
    ASSUME NEW p \in Nat \ {0}, NEW q \in Nat, NEW r \in Nat, r < p,
           NEW x \in Nat, NEW y \in Nat, y < p, p * q + r = p * x + y
    PROVE  q = x /\ r = y
<1>1. ~(q < x)
  <2> SUFFICES ASSUME q < x PROVE FALSE
    OBVIOUS
  <2>1. p * (q + 1) <= p * x
    BY MulMono
  <2>2. p * (q + 1) = p * q + p
    BY SMT
  <2> QED BY <2>1, <2>2, SMT
<1>2. ~(x < q)
  <2> SUFFICES ASSUME x < q PROVE FALSE
    OBVIOUS
  <2>1. p * (x + 1) <= p * q
    BY MulMono
  <2>2. p * (x + 1) = p * x + p
    BY SMT
  <2> QED BY <2>1, <2>2, SMT
<1> QED BY <1>1, <1>2, SMT

(* Adding what does not leave the page. *)
LEMMA ModAdd ==
    ASSUME NEW a \in Nat, NEW b \in Nat, NEW p \in Nat \ {0}, (a % p) + b < p
    PROVE  (a + b) % p = (a % p) + b
<1>1. a + b = (p * ((a + b) \div p)) + ((a + b) % p) /\ (a + b) % p < p
      /\ (a + b) \div p \in Nat /\ (a + b) % p \in Nat
  BY DivMod
<1>2. a + b = (p * (a \div p)) + ((a % p) + b) /\ a \div p \in Nat /\ (a % p) + b \in Nat
  BY DivMod
<1> DEFINE q == (a + b) \div p
           r == (a + b) % p
           x == a \div p
           y == (a % p) + b
<1>3. /\ q \in Nat /\ r \in Nat /\ x \in Nat /\ y \in Nat
      /\ r < p /\ y < p
  BY <1>1, <1>2
<1>4. p * q + r = p * x + y
  BY <1>1, <1>2
<1> HIDE DEF q, r, x, y
<1>5. r = y
  BY <1>3, <1>4, ModUnique
<1> QED BY <1>5 DEF r, y

(* Aligned addresses stay aligned. *)
LEMMA AlignedAdd ==
    ASSUME NEW a \in Nat, NEW k \in Nat, NEW s \in Nat \ {0}, a % s = 0
    PROVE  (a + k * s) % s = 0
<1> DEFINE b == a + k * s
           q == (a \div s) + k
           x == b \div s
           y == b % s
<1>1. a = s * (a \div s) /\ a \div s \in Nat
  BY DivMod
<1>2. q \in Nat /\ b = s * q
  BY <1>1, SMT
<1>3. b \in Nat
  BY SMT
<1>4. b = (s * x) + y /\ x \in Nat /\ y \in Nat /\ y < s
  BY <1>3, DivMod
<1> DEFINE z == 0
<1>5. z = 0 /\ z \in Nat /\ z < s
  BY SMT
<1> HIDE DEF b, q, x, y, z
<1>6. (s * q) + z = (s * x) + y
  BY <1>2, <1>4, <1>5, SMT
<1>7. z = y
  BY <1>2, <1>4, <1>5, <1>6, ModUnique
<1> QED BY <1>5, <1>7 DEF y, b

(* An aligned sector does not straddle the page's end. *)
LEMMA AlignedFits ==
    ASSUME NEW a \in Nat, NEW s \in Nat \ {0}, NEW p \in Nat \ {0}, a % s = 0, p % s = 0
    PROVE  (a % p) + s <= p
<1> DEFINE x == a \div s
           y == p \div s
           q == a \div p
           r == a % p
<1>1. /\ x \in Nat /\ y \in Nat /\ q \in Nat /\ r \in Nat /\ r < p
      /\ a = s * x /\ p = s * y /\ a = (p * q) + r
  BY DivMod
<1> HIDE DEF x, y, q, r
<1>2. r = s * (x - y * q)
  BY <1>1, SMT
<1> DEFINE d == x - y * q
<1>3. d \in Int /\ r = s * d
  BY <1>1, <1>2, SMT
<1> HIDE DEF d
<1>4. d < y
  <2> SUFFICES ASSUME y <= d PROVE FALSE
    BY <1>1, <1>3, SMT
  <2>1. d \in Nat
    BY <1>1, <1>3, SMT
  <2>2. s * y <= s * d
    BY <1>1, <2>1, MulMono
  <2> QED BY <1>1, <1>3, <2>2, SMT
<1>5. CASE d < 0
  <2>1. s * d < 0
    BY <1>5, <1>3, SMT
  <2> QED BY <2>1, <1>1, <1>3, SMT
<1>6. CASE d >= 0
  <2>1. d + 1 \in Nat /\ d + 1 <= y
    BY <1>6, <1>1, <1>3, <1>4, SMT
  <2>2. s * (d + 1) <= s * y
    BY <1>1, <2>1, MulMono
  <2>3. s * (d + 1) = s * d + s
    BY <1>3, SMT
  <2> QED BY <1>1, <1>3, <2>2, <2>3, SMT DEF r
<1> QED BY <1>3, <1>5, <1>6, SMT

(* The whole sectors in what is left of a page fit into it. *)
LEMMA WholeSectorsFit ==
    ASSUME NEW x \in Nat, NEW s \in Nat \ {0}, NEW n \in Nat, n <= x \div s
    PROVE  n * s <= x
<1>1. x = (s * (x \div s)) + (x % s) /\ x \div s \in Nat /\ x % s \in Nat
  BY DivMod
<1>2. n * s <= s * (x \div s)
  BY <1>1, MulMono, SMT
<1> QED BY <1>1, <1>2, SMT

(* The least of three. *)
LEMMA LeastOfThree ==
    ASSUME NEW a \in Int, NEW b \in Int, NEW c \in Int
    PROVE  /\ Least({a, b, c}) \in {a, b, c}
           /\ Least({a, b, c}) <= a /\ Least({a, b, c}) <= b /\ Least({a, b, c}) <= c
<1>1. \E n \in {a, b, c} : \A m \in {a, b, c} : n <= m
  <2>1. CASE a <= b /\ a <= c
    BY <2>1
  <2>2. CASE b <= a /\ b <= c
    BY <2>2
  <2>3. CASE c <= a /\ c <= b
    BY <2>3
  <2> QED BY <2>1, <2>2, <2>3, SMT
<1> DEFINE P(n) == n \in {a, b, c} /\ \A m \in {a, b, c} : n <= m
<1>2. P(CHOOSE n \in {a, b, c} : \A m \in {a, b, c} : n <= m)
  BY <1>1
<1> QED BY <1>2 DEF Least

-----------------------------------------------------------------------------
(* The places of sectors, and the bursts *)

(* The places of the n sectors from lba on in a buffer at a. *)
Places(lba, a, n) == [i \in 1 .. n |-> <<lba + i - 1, a + (i - 1) * SectorSize>>]

(* s lists the places of n sectors. *)
ListsPlaces(s, lba, a, n) ==
    /\ s \in Seq(Nat \X Nat)
    /\ Len(s) = n
    /\ \A i \in 1 .. n : s[i] = <<lba + i - 1, a + (i - 1) * SectorSize>>

(* Places are a sequence. *)
LEMMA PlacesSeq ==
    ASSUME NEW lba \in Nat, NEW a \in Nat, NEW n \in Nat
    PROVE  ListsPlaces(Places(lba, a, n), lba, a, n)
<1>1. ASSUME NEW i \in 1 .. n
      PROVE  <<lba + i - 1, a + (i - 1) * SectorSize>> \in Nat \X Nat
  <2>1. i - 1 \in Nat /\ SectorSize \in Nat
    BY SectorIoAssumption, SMT
  <2>2. (i - 1) * SectorSize \in Nat
    BY <2>1, SMT
  <2> QED BY <2>1, <2>2, SMT
<1>2. Places(lba, a, n) \in [1 .. n -> Nat \X Nat]
  BY <1>1 DEF Places
<1>3. Places(lba, a, n) \in Seq(Nat \X Nat)
  BY <1>2, SeqDef
<1>4. DOMAIN Places(lba, a, n) = 1 .. n
  BY DEF Places
<1>5. Len(Places(lba, a, n)) = n
  BY <1>3, <1>4, LenProperties, SMT
<1> QED BY <1>3, <1>5 DEF Places, ListsPlaces

(* The places of those of the n sectors that come after the first m. *)
RestOfPlaces(lba, a, m, n) ==
    [i \in 1 .. n - m |-> <<(lba + m) + i - 1, (a + m * SectorSize) + (i - 1) * SectorSize>>]

(* The rest continues the first m sectors. *)
LEMMA PlacesConcat ==
    ASSUME NEW lba \in Nat, NEW a \in Nat, NEW m \in Nat, NEW n \in Nat, m <= n
    PROVE  Places(lba, a, m) \o RestOfPlaces(lba, a, m, n) = Places(lba, a, n)
<1> DEFINE l == lba + m
           b == a + m * SectorSize
           c == n - m
           P == Places(lba, a, m)
           Q == Places(l, b, c)
           R == Places(lba, a, n)
<1>1. SectorSize \in Nat
  BY SectorIoAssumption
<1>2. l \in Nat /\ b \in Nat /\ c \in Nat
  <2>1. m * SectorSize \in Nat
    BY <1>1, SMT
  <2> QED BY <2>1, SMT
<1>3. RestOfPlaces(lba, a, m, n) = Q
  BY DEF RestOfPlaces, Places
<1> HIDE DEF l, b, c
<1>4. P \in Seq(Nat \X Nat) /\ Len(P) = m
      /\ \A i \in 1 .. m : P[i] = <<lba + i - 1, a + (i - 1) * SectorSize>>
  <2>1. ListsPlaces(P, lba, a, m)
    BY PlacesSeq DEF ListsPlaces
  <2> QED BY <2>1 DEF ListsPlaces
<1>5. Q \in Seq(Nat \X Nat) /\ Len(Q) = c
      /\ \A i \in 1 .. c : Q[i] = <<l + i - 1, b + (i - 1) * SectorSize>>
  <2>1. ListsPlaces(Q, l, b, c)
    BY <1>2, PlacesSeq
  <2> QED BY <2>1 DEF ListsPlaces
<1>6. R \in Seq(Nat \X Nat) /\ Len(R) = n
      /\ \A i \in 1 .. n : R[i] = <<lba + i - 1, a + (i - 1) * SectorSize>>
  <2>1. ListsPlaces(R, lba, a, n)
    BY PlacesSeq DEF ListsPlaces
  <2> QED BY <2>1 DEF ListsPlaces
<1> HIDE DEF P, Q, R
<1>7. /\ P \o Q \in Seq(Nat \X Nat)
      /\ Len(P \o Q) = n
      /\ \A i \in 1 .. n : (P \o Q)[i] = IF i <= m THEN P[i] ELSE Q[i - m]
  <2>1. m + c = n
    BY SMT DEF c
  <2>2. P \in Seq(Nat \X Nat) /\ Q \in Seq(Nat \X Nat)
    BY <1>4, <1>5
  <2>3. /\ P \o Q \in Seq(Nat \X Nat)
        /\ Len(P \o Q) = Len(P) + Len(Q)
        /\ \A i \in 1 .. (Len(P) + Len(Q)) :
              (P \o Q)[i] = IF i <= Len(P) THEN P[i] ELSE Q[i - Len(P)]
    BY <2>2, ConcatProperties
  <2>4. Len(P) = m /\ Len(Q) = c
    BY <1>4, <1>5
  <2>5. Len(P) + Len(Q) = n
    BY <2>1, <2>4
  <2> QED BY <2>3, <2>4, <2>5
<1>8. ASSUME NEW i \in 1 .. n
      PROVE  (P \o Q)[i] = R[i]
  <2>1. CASE i <= m
    <3>1. i \in 1 .. m
      BY <2>1, SMT
    <3>2. P[i] = R[i]
      BY <3>1, <1>4, <1>6
    <3> QED BY <2>1, <3>2, <1>7
  <2>2. CASE ~(i <= m)
    <3>1. i - m \in 1 .. c
      BY <2>2, SMT DEF c
    <3>2. Q[i - m] = <<l + (i - m) - 1, b + ((i - m) - 1) * SectorSize>>
      BY <3>1, <1>5
    <3>3. l + (i - m) - 1 = lba + i - 1
      BY SMT DEF l
    <3>4. b + ((i - m) - 1) * SectorSize = a + (i - 1) * SectorSize
      BY <1>1, SMT DEF b
    <3> QED BY <2>2, <3>2, <3>3, <3>4, <1>6, <1>7
  <2> QED BY <2>1, <2>2
<1>9. P \o Q = R
  BY <1>6, <1>7, <1>8, SeqEqual
<1> QED BY <1>3, <1>9 DEF P, R

(* The first n of the places of more sectors. *)
LEMMA PlacesPrefix ==
    ASSUME NEW lba \in Nat, NEW a \in Nat, NEW n \in Nat, NEW m \in Nat, m <= n
    PROVE  SubSeq(Places(lba, a, n), 1, m) = Places(lba, a, m)
<1> DEFINE P == Places(lba, a, n)
           R == Places(lba, a, m)
<1>1. P \in Seq(Nat \X Nat) /\ Len(P) = n
      /\ \A i \in 1 .. n : P[i] = <<lba + i - 1, a + (i - 1) * SectorSize>>
  <2>1. ListsPlaces(P, lba, a, n)
    BY PlacesSeq DEF ListsPlaces
  <2> QED BY <2>1 DEF ListsPlaces
<1>2. R \in Seq(Nat \X Nat) /\ Len(R) = m
      /\ \A i \in 1 .. m : R[i] = <<lba + i - 1, a + (i - 1) * SectorSize>>
  <2>1. ListsPlaces(R, lba, a, m)
    BY PlacesSeq DEF ListsPlaces
  <2> QED BY <2>1 DEF ListsPlaces
<1> HIDE DEF P, R
<1>3. \A i \in 1 .. m : P[i] \in Nat \X Nat
  <2> TAKE i \in 1 .. m
  <2>1. i \in 1 .. Len(P)
    BY <1>1, SMT
  <2> QED BY <1>1, <2>1, ElementOfSeq
<1>4. /\ SubSeq(P, 1, m) \in Seq(Nat \X Nat)
      /\ Len(SubSeq(P, 1, m)) = IF 1 <= m THEN m - 1 + 1 ELSE 0
      /\ \A i \in 1 .. m - 1 + 1 : SubSeq(P, 1, m)[i] = P[1 + i - 1]
  BY <1>3, SubSeqProperties
<1>5. Len(SubSeq(P, 1, m)) = m
  BY <1>4, SMT
<1>6. \A i \in 1 .. m : SubSeq(P, 1, m)[i] = R[i]
  <2> TAKE i \in 1 .. m
  <2>1. i \in 1 .. m - 1 + 1 /\ 1 + i - 1 = i /\ i \in 1 .. n
    BY SMT
  <2> QED BY <1>1, <1>2, <1>4, <2>1
<1>7. SubSeq(P, 1, m) = R
  BY <1>2, <1>4, <1>5, <1>6, SeqEqual
<1> QED BY <1>7 DEF P, R

(* The BIOS address of a sector names that sector (setup_bios_chs). *)
LEMMA ChsNamesSector ==
    ASSUME NEW lba \in Nat
    PROVE  /\ Chs(lba) \in [cylinder : Nat, head : Nat, sector : Nat]
           /\ Chs(lba).cylinder = (lba \div kbio_spt) \div kbio_heads
           /\ Chs(lba).head < kbio_heads
           /\ Chs(lba).sector = (lba % kbio_spt) + 1
           /\ lba % kbio_spt \in Nat /\ lba % kbio_spt < kbio_spt
           /\ SectorNumber(Chs(lba)) = lba
<1> DEFINE t == lba \div kbio_spt
           s == lba % kbio_spt
           c == t \div kbio_heads
           h == t % kbio_heads
<1>1. kbio_spt \in Nat \ {0} /\ kbio_heads \in Nat \ {0}
  BY SectorIoAssumption
<1>2. t \in Nat /\ s \in Nat /\ s < kbio_spt /\ lba = (kbio_spt * t) + s
  BY <1>1, DivMod
<1>3. c \in Nat /\ h \in Nat /\ h < kbio_heads /\ t = (kbio_heads * c) + h
  BY <1>1, <1>2, DivMod
<1>4. Chs(lba) = [cylinder |-> c, head |-> h, sector |-> s + 1]
  BY DEF Chs
<1> HIDE DEF t, s, c, h
<1>5. s + 1 \in Nat
  BY <1>2, SMT
<1>6. SectorNumber(Chs(lba)) = (c * kbio_heads + h) * kbio_spt + (s + 1) - 1
  BY <1>4 DEF SectorNumber
<1>7. c * kbio_heads + h = t
  BY <1>1, <1>3, SMT
<1>8. t * kbio_spt + (s + 1) - 1 = lba
  BY <1>1, <1>2, SMT
<1> QED BY <1>2, <1>3, <1>4, <1>5, <1>6, <1>7, <1>8 DEF t, s, c, h

(* A burst is not empty, not longer than the rest of the request, and ends *)
(* in its track and its page (setup_bios_chs).                             *)
LEMMA BurstSize ==
    ASSUME klba \in Nat, kcnt \in Nat \ {0}, esbx \in Nat,
           kio_force_single \in BOOLEAN, InPage(kcnt, esbx), ~Straddles(esbx)
    PROVE  /\ Burst \in 1 .. kcnt
           /\ kio_force_single => Burst = 1
           /\ (klba % kbio_spt) + Burst <= kbio_spt
           /\ (esbx % Page) + Burst * SectorSize <= Page
<1> DEFINE x == esbx % Page
           s == klba % kbio_spt
<1>1. /\ kbio_spt \in Nat \ {0} /\ Page \in Nat \ {0} /\ SectorSize \in Nat \ {0}
      /\ MaxBurst \in Nat \ {0} /\ MaxBurst * SectorSize <= Page
  BY SectorIoAssumption
<1>2. x \in Nat /\ x < Page /\ s \in Nat /\ s < kbio_spt
  BY <1>1, DivMod
<1>3. InPage(kcnt, esbx) = ((esbx % SectorSize = 0 /\ Page % SectorSize = 0)
                            \/ x + kcnt * SectorSize <= Page)
  BY DEF InPage
<1>4. CASE kio_force_single
  <2>1. Burst = 1
    BY <1>4 DEF Burst
  <2>2. x + SectorSize <= Page
    <3>1. CASE esbx % SectorSize = 0 /\ Page % SectorSize = 0
      BY <3>1, <1>1, AlignedFits
    <3>2. CASE x + kcnt * SectorSize <= Page
      <4>1. 1 * SectorSize <= kcnt * SectorSize
        BY <1>1, MulMono, SMT
      <4> HIDE DEF x
      <4> QED BY <3>2, <4>1, <1>1, <1>2, SMT
    <3> QED BY <3>1, <3>2, <1>3
  <2> HIDE DEF x, s
  <2>3. s + 1 <= kbio_spt /\ 1 \in 1 .. kcnt /\ 1 * SectorSize = SectorSize
    BY <1>1, <1>2, SMT
  <2> QED BY <2>1, <2>2, <2>3 DEF x, s
<1>5. CASE ~kio_force_single
  <2> DEFINE d == DmaCap(esbx)
             k == TrackCap(klba)
  <2>1. Burst = Least({kcnt, k, d})
    BY <1>5 DEF Burst
  <2>2. d # 0
    BY <1>5 DEF Straddles
  <2>3. k = kbio_spt - s
    BY DEF TrackCap
  <2>4. d = IF x = 0 THEN MaxBurst ELSE (Page - x) \div SectorSize
    BY DEF DmaCap
  <2> HIDE DEF d, k, s, x
  <2>5. d \in Nat /\ d >= 1 /\ x + d * SectorSize <= Page
    <3>1. CASE x = 0
      BY <3>1, <2>4, <1>1, SMT
    <3>2. CASE x # 0
      <4>1. Page - x \in Nat
        BY <1>1, <1>2, SMT
      <4>2. d = (Page - x) \div SectorSize
        BY <3>2, <2>4
      <4>3. d \in Nat
        BY <4>1, <4>2, <1>1, DivMod
      <4>4. d * SectorSize <= Page - x
        BY <4>1, <4>2, <4>3, <1>1, WholeSectorsFit, SMT
      <4> DEFINE ds == d * SectorSize
      <4>5. ds \in Int
        BY <4>3, <1>1, SMT
      <4> HIDE DEF ds
      <4>6. x + ds <= Page
        BY <4>4, <4>5, <1>1, <1>2, SMT DEF ds
      <4> QED BY <4>3, <4>6, <2>2, SMT DEF ds
    <3> QED BY <3>1, <3>2
  <2>6. k \in Nat /\ k >= 1
    BY <2>3, <1>1, <1>2, SMT
  <2>7. /\ Burst \in {kcnt, k, d}
        /\ Burst <= kcnt /\ Burst <= k /\ Burst <= d
    <3>1. kcnt \in Int /\ k \in Int /\ d \in Int
      BY <2>5, <2>6, SMT
    <3> QED BY <2>1, <3>1, LeastOfThree
  <2>8. Burst \in 1 .. kcnt
    BY <2>5, <2>6, <2>7, SMT
  <2>9. s + Burst <= kbio_spt
    BY <2>3, <2>6, <2>7, <2>8, <1>1, <1>2, SMT
  <2>10. Burst * SectorSize <= d * SectorSize
    BY <2>5, <2>7, <2>8, <1>1, MulMono, SMT
  <2>11. x + Burst * SectorSize <= Page
    <3> DEFINE bs == Burst * SectorSize
               ds == d * SectorSize
    <3>1. bs \in Int /\ ds \in Int
      BY <2>5, <2>8, <1>1, SMT
    <3> HIDE DEF bs, ds
    <3>2. bs <= ds /\ x + ds <= Page
      BY <2>5, <2>10 DEF bs, ds
    <3>3. x + bs <= Page
      BY <3>1, <3>2, <1>1, <1>2, SMT
    <3> QED BY <3>3 DEF bs
  <2> QED BY <1>5, <2>8, <2>9, <2>11 DEF s, x
<1> QED BY <1>4, <1>5

-----------------------------------------------------------------------------
(* The inductive invariant *)

(* Failed calls and the tries left add up to the tries allowed, but for    *)
(* the burst whose failure started the single sectors.                     *)
TriesAddUp ==
    /\ Tries <= errs + kret
    /\ errs + kret <= Tries + (IF kio_force_single THEN 1 ELSE 0)

(* klba, kcnt and esbx have advanced by what was moved. *)
Progress ==
    /\ Len(moved) + kcnt = req.count
    /\ klba = req.lba + Len(moved)
    /\ esbx = req.addr + Len(moved) * SectorSize
    /\ moved = Places(req.lba, req.addr, Len(moved))

(* What holds where sector_io_loop is. *)
PhaseInv ==
    /\ phase \in {"next", "bios", "critical"} => kcnt >= 1 /\ InPage(kcnt, esbx)
    /\ phase \in {"next", "bios"} => kret >= 1
    /\ phase = "critical" => kret = 0
    /\ phase = "done" => kcnt = 0
    /\ phase = "bios" =>
          /\ SectorNumber(int13.at) = klba /\ int13.addr = esbx
          /\ kio_force_single => int13.count = 1

IoIInv == IoTypeOK /\ TriesAddUp /\ Progress /\ PhaseInv /\ BurstsFit

(* No places are the empty sequence. *)
LEMMA NoPlaces ==
    ASSUME NEW lba \in Nat, NEW a \in Nat
    PROVE  Places(lba, a, 0) = <<>> /\ a + 0 * SectorSize = a
<1>1. Places(lba, a, 0) \in Seq(Nat \X Nat) /\ Len(Places(lba, a, 0)) = 0
  BY PlacesSeq DEF ListsPlaces
<1>2. Places(lba, a, 0) = <<>>
  BY <1>1, EmptySeq, SeqEqual
<1>3. SectorSize \in Nat
  BY SectorIoAssumption
<1> QED BY <1>2, <1>3, SMT

(* The kernel starts with the invariant. *)
LEMMA InitInv == IoInit => IoIInv
<1> SUFFICES ASSUME IoInit PROVE IoIInv
  OBVIOUS
<1>1. Tries \in Nat /\ Tries >= 1 /\ kbio_spt \in Nat \ {0} /\ kbio_heads \in Nat \ {0}
  BY SectorIoAssumption
<1>2. Chs(0) \in [cylinder : Nat, head : Nat, sector : Nat]
  BY ChsNamesSector
<1>3. moved \in Seq(Nat \X Nat) /\ Len(moved) = 0
  BY EmptySeq DEF IoInit
<1>4. IoTypeOK
  <2>1. kret \in 0 .. Tries /\ 0 \in Nat
    BY <1>1, SMT DEF IoInit
  <2>2. req \in [lba : Nat, count : Nat, addr : Nat]
    BY <2>1 DEF IoInit, NoRequest
  <2>3. int13 \in [at : [cylinder : Nat, head : Nat, sector : Nat], count : Nat, addr : Nat]
    BY <2>1, <1>2 DEF IoInit, NoCall
  <2> QED BY <2>1, <2>2, <2>3, <1>3 DEF IoInit, IoTypeOK
<1>5. TriesAddUp
  BY <1>1, SMT DEF IoInit, TriesAddUp
<1>6. Progress
  <2>1. req.lba = 0 /\ req.addr = 0 /\ req.count = 0
    BY DEF IoInit, NoRequest
  <2>2. Places(0, 0, 0) = <<>> /\ 0 + 0 * SectorSize = 0
    BY NoPlaces
  <2> QED BY <1>3, <2>1, <2>2 DEF IoInit, Progress
<1>7. PhaseInv /\ BurstsFit
  BY DEF IoInit, PhaseInv, BurstsFit
<1> QED BY <1>4, <1>5, <1>6, <1>7 DEF IoIInv

(* A request starts with nothing moved and all tries left. *)
LEMMA SetupInv ==
    ASSUME IoIInv, NEW lba \in Nat, NEW n \in Nat \ {0}, NEW a \in Nat, Setup(lba, n, a)
    PROVE  IoIInv'
<1>1. Tries \in Nat /\ Tries >= 1
  BY SectorIoAssumption
<1>2. moved' = <<>> /\ moved' \in Seq(Nat \X Nat) /\ Len(moved') = 0
  BY EmptySeq DEF Setup
<1>3. req' = [lba |-> lba, count |-> n, addr |-> a]
  BY DEF Setup
<1>4. IoTypeOK'
  <2>1. kret' \in 0 .. Tries /\ 0 \in Nat
    BY <1>1, SMT DEF Setup
  <2>2. req' \in [lba : Nat, count : Nat, addr : Nat]
    BY <1>3
  <2>3. int13' \in [at : [cylinder : Nat, head : Nat, sector : Nat], count : Nat, addr : Nat]
    BY DEF Setup, IoTypeOK, IoIInv
  <2> QED BY <2>1, <2>2, <2>3, <1>2 DEF Setup, IoTypeOK
<1>5. TriesAddUp'
  BY <1>1, SMT DEF Setup, TriesAddUp
<1>6. Progress'
  <2>1. Places(lba, a, 0) = <<>> /\ a + 0 * SectorSize = a
    BY NoPlaces
  <2>2. klba' = lba /\ kcnt' = n /\ esbx' = a
    BY DEF Setup
  <2>3. 0 + n = n /\ lba + 0 = lba
    BY SMT
  <2> QED BY <1>2, <1>3, <2>1, <2>2, <2>3 DEF Progress
<1>7. PhaseInv'
  <2>1. /\ phase' = "next" /\ kcnt' = n /\ esbx' = a /\ kret' = Tries
        /\ InPage(n, a)
    BY DEF Setup
  <2>2. InPage(kcnt', esbx')
    BY <2>1
  <2> QED BY <1>1, <2>1, <2>2 DEF PhaseInv, InPage
<1>8. BurstsFit'
  BY DEF Setup, BurstsFit
<1> QED BY <1>4, <1>5, <1>6, <1>7, <1>8 DEF IoIInv

(* The next call is for a burst that fits. *)
LEMMA Next13Inv == IoIInv /\ Next13 => IoIInv'
<1> SUFFICES ASSUME IoIInv, Next13 PROVE IoIInv'
  OBVIOUS
<1> USE DEF IoIInv
<1>1. UNCHANGED <<req, klba, kcnt, esbx, kret, kio_force_single, asks, errs, moved>>
  BY DEF Next13
<1>2. /\ klba \in Nat /\ kcnt \in Nat \ {0} /\ esbx \in Nat
      /\ kio_force_single \in BOOLEAN /\ InPage(kcnt, esbx) /\ kret >= 1
  BY DEF Next13, IoTypeOK, PhaseInv
<1>3. TriesAddUp' /\ Progress'
  BY <1>1 DEF TriesAddUp, Progress
<1>4. CASE Addressable(klba) /\ ~Straddles(esbx)
  <2>1. int13' = [at |-> Chs(klba), count |-> Burst, addr |-> esbx] /\ phase' = "bios"
    BY <1>4 DEF Next13
  <2>2. /\ Burst \in 1 .. kcnt
        /\ kio_force_single => Burst = 1
        /\ (klba % kbio_spt) + Burst <= kbio_spt
        /\ (esbx % Page) + Burst * SectorSize <= Page
    BY <1>2, <1>4, BurstSize
  <2>3. /\ Chs(klba) \in [cylinder : Nat, head : Nat, sector : Nat]
        /\ Chs(klba).cylinder = (klba \div kbio_spt) \div kbio_heads
        /\ Chs(klba).head < kbio_heads
        /\ Chs(klba).sector = (klba % kbio_spt) + 1
        /\ klba % kbio_spt \in Nat /\ klba % kbio_spt < kbio_spt
        /\ SectorNumber(Chs(klba)) = klba
    BY <1>2, ChsNamesSector
  <2>4. int13'.at = Chs(klba) /\ int13'.count = Burst /\ int13'.addr = esbx
    BY <2>1
  <2>5. Burst \in Nat
    BY <1>2, <2>2, SMT
  <2>6. IoTypeOK'
    BY <1>1, <1>2, <2>1, <2>3, <2>5 DEF IoTypeOK
  <2>7. PhaseInv'
    <3>1. SectorNumber(int13'.at) = klba'
      BY <1>1, <2>3, <2>4
    <3>2. SectorNumber(int13.at)' = SectorNumber(int13'.at)
      BY DEF SectorNumber
    <3>3. InPage(kcnt, esbx)'
      BY <1>1, <1>2 DEF InPage
    <3> QED BY <1>1, <1>2, <2>1, <2>2, <2>4, <3>1, <3>2, <3>3 DEF PhaseInv
  <2>8. BurstsFit'
    <3>1. int13'.at.cylinder < Cylinders
      BY <1>4, <2>3, <2>4 DEF Addressable
    <3>2. int13'.at.sector - 1 + int13'.count <= kbio_spt
      <4> DEFINE q == klba % kbio_spt
      <4>1. q \in Nat /\ q + Burst <= kbio_spt /\ Chs(klba).sector = q + 1
        BY <2>2, <2>3
      <4> HIDE DEF q
      <4>2. (q + 1) - 1 + Burst <= kbio_spt
        BY <4>1, <2>5, SectorIoAssumption, SMT
      <4> QED BY <2>4, <4>1, <4>2
    <3> QED BY <1>1, <2>2, <2>3, <2>4, <3>1, <3>2 DEF BurstsFit
  <2> QED BY <1>3, <2>6, <2>7, <2>8
<1>5. CASE ~(Addressable(klba) /\ ~Straddles(esbx))
  <2>1. phase' = "failed" /\ int13' = int13
    BY <1>5 DEF Next13
  <2>2. IoTypeOK'
    BY <1>1, <2>1 DEF IoTypeOK
  <2>3. PhaseInv' /\ BurstsFit'
    BY <2>1 DEF PhaseInv, BurstsFit
  <2> QED BY <1>3, <2>2, <2>3
<1> QED BY <1>4, <1>5

(* What the BIOS has moved continues what was moved before. *)
LEMMA FinishMoves ==
    ASSUME IoIInv, Finish
    PROVE  /\ int13.count \in 1 .. kcnt /\ int13.count \in Nat
           /\ Len(moved) \in Nat
           /\ moved' = Places(req.lba, req.addr, Len(moved) + int13.count)
           /\ esbx' = req.addr + (Len(moved) + int13.count) * SectorSize
           /\ moved' \in Seq(Nat \X Nat) /\ Len(moved') = Len(moved) + int13.count
           /\ esbx' \in Nat
<1> DEFINE m == Len(moved)
           c == int13.count
           L == req.lba
           A == req.addr
           n == m + c
<1>1. /\ SectorNumber(int13.at) = klba /\ int13.addr = esbx
      /\ c \in 1 .. kcnt
      /\ kcnt \in Nat /\ klba \in Nat /\ esbx \in Nat
      /\ klba = L + m /\ esbx = A + m * SectorSize
      /\ moved = Places(L, A, m)
      /\ L \in Nat /\ A \in Nat
      /\ moved \in Seq(Nat \X Nat)
  BY DEF Finish, IoIInv, PhaseInv, BurstsFit, Progress, IoTypeOK
<1>2. m \in Nat
  BY <1>1, LenProperties
<1>3. c \in Nat /\ SectorSize \in Nat
  <2>1. c \in 1 .. kcnt /\ kcnt \in Nat
    BY <1>1
  <2>2. SectorSize \in Nat
    BY SectorIoAssumption
  <2> HIDE DEF c
  <2>3. c \in Nat
    BY <2>1
  <2> QED BY <2>2, <2>3
<1>4. n \in Nat /\ m <= n /\ n - m = c
  <2> HIDE DEF m, c
  <2> QED BY <1>2, <1>3, SMT
<1>5. moved' = moved \o RestOfPlaces(L, A, m, n) /\ esbx' = esbx + c * SectorSize
  <2> HIDE DEF m, n, L, A
  <2> QED BY <1>1, <1>4 DEF Finish, RestOfPlaces
<1>6. n = m + c
  OBVIOUS
<1> HIDE DEF m, c, L, A, n
<1>7. esbx' = A + n * SectorSize /\ esbx' \in Nat
  <2>1. n * SectorSize = m * SectorSize + c * SectorSize
    BY <1>2, <1>3, <1>6, SMT
  <2>2. m * SectorSize \in Nat /\ c * SectorSize \in Nat
    BY <1>2, <1>3, SMT
  <2>3. esbx = A + m * SectorSize /\ esbx' = esbx + c * SectorSize /\ A \in Nat
    BY <1>1, <1>5
  <2> DEFINE u == m * SectorSize
             v == c * SectorSize
             w == n * SectorSize
  <2>4. w = u + v /\ u \in Nat /\ v \in Nat /\ esbx = A + u /\ esbx' = esbx + v
    BY <2>1, <2>2, <2>3
  <2> HIDE DEF u, v, w
  <2>5. esbx' = A + w /\ A + w \in Nat
    BY <2>3, <2>4
  <2> QED BY <2>5 DEF w
<1>8. moved' = Places(L, A, n)
  <2>1. L \in Nat /\ A \in Nat /\ moved = Places(L, A, m)
    BY <1>1
  <2>2. Places(L, A, m) \o RestOfPlaces(L, A, m, n) = Places(L, A, n)
    BY <1>2, <1>4, <2>1, PlacesConcat
  <2> QED BY <1>5, <2>1, <2>2
<1>9. moved' \in Seq(Nat \X Nat) /\ Len(moved') = n
  BY <1>1, <1>4, <1>8, PlacesSeq DEF ListsPlaces
<1> QED BY <1>1, <1>2, <1>3, <1>7, <1>8, <1>9 DEF m, c, L, A, n

(* What is left of a request stays in its page. *)
LEMMA RestInPage ==
    ASSUME NEW n \in Nat, NEW c \in 1 .. n, c # n, NEW a \in Nat, InPage(n, a)
    PROVE  InPage(n - c, a + c * SectorSize)
<1>1. Page \in Nat \ {0} /\ SectorSize \in Nat \ {0}
  BY SectorIoAssumption
<1>2. CASE a % SectorSize = 0 /\ Page % SectorSize = 0
  <2>1. (a + c * SectorSize) % SectorSize = 0
    <3>1. c \in Nat
      BY SMT
    <3> QED BY <1>1, <1>2, <3>1, AlignedAdd
  <2> QED BY <1>2, <2>1 DEF InPage
<1>3. CASE (a % Page) + n * SectorSize <= Page
  <2> DEFINE x == a % Page
             cs == c * SectorSize
             k == n - c
             rs == k * SectorSize
             ns == n * SectorSize
  <2>1. x \in Nat
    BY <1>1, DivMod
  <2>2. c \in Nat /\ k \in Nat /\ 1 <= k
    BY SMT
  <2>3. cs \in Nat
    BY <1>1, <2>2, SMT
  <2> HIDE DEF k
  <2>4. 1 * SectorSize <= rs
    BY <1>1, <2>2, MulMono, SMT
  <2>5. rs \in Nat
    BY <1>1, <2>2, SMT
  <2>6. n = c + k
    BY <2>2, SMT DEF k
  <2>7. (c + k) * SectorSize = c * SectorSize + k * SectorSize
    BY <1>1, <2>2, SMT
  <2>8. x + ns <= Page /\ ns = cs + rs
    BY <1>3, <2>6, <2>7
  <2> HIDE DEF x, cs, rs, ns
  <2>9. x + cs < Page
    BY <1>1, <2>1, <2>3, <2>4, <2>5, <2>8, SMT
  <2>10. (a + cs) % Page = x + cs
    BY <1>1, <2>3, <2>9, ModAdd DEF x
  <2>11. (x + cs) + rs <= Page
    BY <2>1, <2>3, <2>5, <2>8, <1>1, SMT
  <2>12. ((a + cs) % Page) + rs <= Page
    BY <2>10, <2>11
  <2> QED BY <2>12 DEF InPage, cs, rs, k
<1> QED BY <1>2, <1>3 DEF InPage

(* Moving a burst. *)
LEMMA FinishInv == IoIInv /\ Finish => IoIInv'
<1> SUFFICES ASSUME IoIInv, Finish PROVE IoIInv'
  OBVIOUS
<1> DEFINE m == Len(moved)
           c == int13.count
<1>1. /\ c \in 1 .. kcnt /\ c \in Nat /\ m \in Nat
      /\ moved' = Places(req.lba, req.addr, m + c)
      /\ esbx' = req.addr + (m + c) * SectorSize
      /\ moved' \in Seq(Nat \X Nat) /\ Len(moved') = m + c
      /\ esbx' \in Nat
  BY FinishMoves
<1>2. /\ klba' = klba + c /\ kcnt' = kcnt - c /\ esbx' = esbx + c * SectorSize
      /\ phase' = IF kcnt = c THEN "done" ELSE "next"
      /\ phase = "bios"
      /\ UNCHANGED <<req, kret, kio_force_single, int13, asks, errs>>
  BY DEF Finish
<1>3. /\ IoTypeOK /\ TriesAddUp
      /\ kcnt \in Nat /\ klba \in Nat /\ esbx \in Nat
      /\ req.count \in Nat /\ req.lba \in Nat
      /\ m + kcnt = req.count /\ klba = req.lba + m
      /\ kret >= 1 /\ InPage(kcnt, esbx)
  BY <1>2 DEF IoIInv, IoTypeOK, Progress, PhaseInv
<1> HIDE DEF m, c
<1>4. klba' \in Nat /\ kcnt' \in Nat
  <2>1. c \in 1 .. kcnt /\ c \in Nat /\ kcnt \in Nat /\ klba \in Nat
    BY <1>1, <1>3
  <2>2. klba + c \in Nat /\ kcnt - c \in Nat
    BY <2>1, SMT
  <2> QED BY <1>2, <2>2
<1>5. IoTypeOK'
  BY <1>1, <1>2, <1>3, <1>4 DEF IoTypeOK
<1>6. TriesAddUp'
  BY <1>2, <1>3 DEF TriesAddUp
<1>7. Progress'
  <2>1. (m + c) + kcnt' = req.count /\ klba' = req.lba + (m + c)
    <3>1. /\ c \in Nat /\ m \in Nat /\ kcnt \in Nat /\ req.count \in Nat /\ req.lba \in Nat
          /\ m + kcnt = req.count
      BY <1>1, <1>3
    <3>2. (m + c) + (kcnt - c) = req.count /\ (req.lba + m) + c = req.lba + (m + c)
      BY <3>1, SMT
    <3> QED BY <1>2, <1>3, <3>2
  <2> QED BY <1>1, <1>2, <2>1 DEF Progress
<1>8. PhaseInv'
  <2>1. CASE kcnt = c
    BY <2>1, <1>1, <1>2, <1>3, SMT DEF PhaseInv
  <2>2. CASE kcnt # c
    <3>1. InPage(kcnt - c, esbx + c * SectorSize)
      BY <2>2, <1>1, <1>3, RestInPage
    <3>2. InPage(kcnt', esbx')
      BY <1>2, <3>1
    <3>3. InPage(kcnt, esbx)'
      BY <3>2 DEF InPage
    <3>4. kcnt' >= 1
      BY <2>2, <1>1, <1>2, <1>3, SMT
    <3> QED BY <2>2, <1>2, <1>3, <3>3, <3>4 DEF PhaseInv
  <2> QED BY <2>1, <2>2
<1>9. BurstsFit'
  BY <1>2 DEF BurstsFit
<1> QED BY <1>5, <1>6, <1>7, <1>8, <1>9 DEF IoIInv

(* A burst's failure makes the rest go sector by sector. *)
LEMMA BurstFailsInv == IoIInv /\ BurstFails => IoIInv'
<1> SUFFICES ASSUME IoIInv, BurstFails PROVE IoIInv'
  OBVIOUS
<1> USE DEF IoIInv
<1>1. /\ UNCHANGED <<req, klba, kcnt, esbx, kret, int13, asks, moved>>
      /\ phase = "bios" /\ phase' = "next" /\ int13.count > 1
      /\ kio_force_single' = TRUE /\ errs' = Counted(errs)
  BY DEF BurstFails
<1>2. /\ kio_force_single = FALSE
      /\ kcnt >= 1 /\ InPage(kcnt, esbx) /\ kret >= 1
  BY <1>1, SMT DEF PhaseInv, IoTypeOK
<1>3. errs \in Nat /\ kret \in Nat /\ Tries \in Nat
  BY SectorIoAssumption, SMT DEF IoTypeOK
<1>4. errs' = errs + 1
  BY <1>1, <1>2, <1>3, SMT DEF TriesAddUp, Counted
<1>5. IoTypeOK'
  BY <1>1, <1>3, <1>4 DEF IoTypeOK
<1>6. TriesAddUp'
  BY <1>1, <1>2, <1>3, <1>4, SMT DEF TriesAddUp
<1>7. Progress'
  BY <1>1 DEF Progress
<1>8. PhaseInv'
  BY <1>1, <1>2 DEF PhaseInv, InPage
<1>9. BurstsFit'
  BY <1>1 DEF BurstsFit
<1> QED BY <1>5, <1>6, <1>7, <1>8, <1>9

(* A sector's failure costs a try. *)
LEMMA SectorFailsInv == IoIInv /\ SectorFails => IoIInv'
<1> SUFFICES ASSUME IoIInv, SectorFails PROVE IoIInv'
  OBVIOUS
<1> USE DEF IoIInv
<1>1. /\ UNCHANGED <<req, klba, kcnt, esbx, kio_force_single, int13, asks, moved>>
      /\ phase = "bios" /\ phase' = IF kret' = 0 THEN "critical" ELSE "next"
      /\ kret' = (kret + 255) % 256 /\ errs' = Counted(errs)
  BY DEF SectorFails
<1>2. kcnt >= 1 /\ InPage(kcnt, esbx) /\ kret >= 1
  BY <1>1 DEF PhaseInv
<1>3. /\ errs \in Nat /\ kret \in 0 .. Tries /\ Tries \in Nat /\ Tries < 256
      /\ kio_force_single \in BOOLEAN
  BY SectorIoAssumption, SMT DEF IoTypeOK
<1>4. kret' = kret - 1
  BY <1>1, <1>2, <1>3, SMT
<1>5. errs' = errs + 1
  BY <1>1, <1>2, <1>3, SMT DEF TriesAddUp, Counted
<1>6. IoTypeOK'
  <2>1. kret' \in 0 .. Tries /\ errs' \in Nat
    BY <1>2, <1>3, <1>4, <1>5, SMT
  <2> QED BY <1>1, <2>1 DEF IoTypeOK
<1>7. TriesAddUp'
  BY <1>1, <1>2, <1>3, <1>4, <1>5, SMT DEF TriesAddUp
<1>8. Progress'
  BY <1>1 DEF Progress
<1>9. PhaseInv'
  <2>1. InPage(kcnt, esbx)'
    BY <1>1, <1>2 DEF InPage
  <2>2. kret' # 0 => kret' >= 1
    BY <1>2, <1>3, <1>4, SMT
  <2> QED BY <1>1, <1>2, <2>1, <2>2 DEF PhaseInv
<1>10. BurstsFit'
  BY <1>1 DEF BurstsFit
<1> QED BY <1>6, <1>7, <1>8, <1>9, <1>10

(* A new disk or the user's answer starts the tries again, or ends them. *)
LEMMA AnswersInv == IoIInv /\ (DiskChanged \/ Critical) => IoIInv'
<1> SUFFICES ASSUME IoIInv, DiskChanged \/ Critical PROVE IoIInv'
  OBVIOUS
<1> USE DEF IoIInv
<1>1. /\ UNCHANGED <<req, klba, kcnt, esbx, kio_force_single, int13, moved>>
      /\ phase \in {"bios", "critical"}
      /\ \/ kret' = Tries /\ phase' = "next" /\ asks' = asks + 1 /\ errs' = 0
         \/ phase' = "failed" /\ UNCHANGED <<kret, asks, errs>>
  BY DEF DiskChanged, Critical
<1>2. kcnt >= 1 /\ InPage(kcnt, esbx)
  BY <1>1 DEF PhaseInv
<1>3. Tries \in Nat /\ Tries >= 1 /\ asks \in Nat
  <2>1. Tries \in Nat \ {0}
    BY SectorIoAssumption
  <2>2. asks \in Nat
    BY DEF IoTypeOK
  <2> QED BY <2>1, <2>2
<1>4. IoTypeOK'
  <2>1. Tries \in 0 .. Tries /\ asks + 1 \in Nat
    BY <1>3, SMT
  <2>2. IoTypeOK
    OBVIOUS
  <2> HIDE DEF IoIInv
  <2>3. kret' \in 0 .. Tries /\ asks' \in Nat /\ errs' \in Nat
    <3>1. kret \in 0 .. Tries /\ asks \in Nat /\ errs \in Nat
      BY <2>2 DEF IoTypeOK
    <3>2. \/ kret' = Tries /\ asks' = asks + 1 /\ errs' = 0
          \/ kret' = kret /\ asks' = asks /\ errs' = errs
      BY <1>1
    <3> QED BY <2>1, <3>1, <3>2
  <2>4. phase' \in {"next", "failed"}
    BY <1>1
  <2> QED BY <1>1, <2>2, <2>3, <2>4 DEF IoTypeOK
<1>5. TriesAddUp'
  BY <1>1, <1>3, SMT DEF TriesAddUp
<1>6. Progress'
  BY <1>1 DEF Progress
<1>7. PhaseInv'
  <2>1. InPage(kcnt, esbx)'
    BY <1>1, <1>2 DEF InPage
  <2> QED BY <1>1, <1>2, <1>3, <2>1 DEF PhaseInv
<1>8. BurstsFit'
  BY <1>1 DEF BurstsFit
<1> QED BY <1>4, <1>5, <1>6, <1>7, <1>8

(* The caller's answer changes nothing else. *)
LEMMA AnswerInv == IoIInv /\ UserAnswers => IoIInv'
  BY DEF IoIInv, UserAnswers, IoTypeOK, TriesAddUp, Progress, PhaseInv, BurstsFit

(* Every step keeps the invariant. *)
LEMMA NextInv == IoIInv /\ [IoNext]_ioVars => IoIInv'
<1> SUFFICES ASSUME IoIInv, [IoNext]_ioVars PROVE IoIInv'
  OBVIOUS
<1>1. ASSUME NEW lba \in Starts, NEW n \in Counts, NEW a \in Addresses, Setup(lba, n, a)
      PROVE  IoIInv'
  <2>1. lba \in Nat /\ n \in Nat \ {0} /\ a \in Nat
    BY SectorIoAssumption
  <2> QED BY <1>1, <2>1, SetupInv
<1>2. CASE Transfer
  BY <1>2, Next13Inv, FinishInv, BurstFailsInv, SectorFailsInv, AnswersInv DEF Transfer
<1>3. CASE UserAnswers
  BY <1>3, AnswerInv
<1>4. CASE UNCHANGED ioVars
  BY <1>4 DEF ioVars, IoIInv, IoTypeOK, TriesAddUp, Progress, PhaseInv, BurstsFit, InPage, SectorNumber
<1> QED BY <1>1, <1>2, <1>3, <1>4 DEF IoNext

-----------------------------------------------------------------------------
(* The theorems *)

(* The invariant holds in every state of every behaviour. *)
THEOREM Inductive == IoSpec => []IoIInv
<1>1. IoInit => IoIInv
  BY InitInv
<1>2. IoIInv /\ [IoNext]_ioVars => IoIInv'
  BY NextInv
<1> QED BY <1>1, <1>2, PTL DEF IoSpec

(* The variables keep their types; above all, the count of retries never   *)
(* leaves 0 .. Tries, so that DEC kret cannot wrap around.                 *)
THEOREM IoTypeCorrect == IoSpec => []IoTypeOK
<1>1. IoIInv => IoTypeOK
  BY DEF IoIInv
<1> QED BY <1>1, Inductive, PTL

(* The sectors moved are the first ones of the request, in order, each     *)
(* once, at the right places, and a request that succeeds has moved all of *)
(* them: for every geometry, page, buffer and sequence of failures.        *)
THEOREM SectorsMoveInOrder == IoSpec => []MovedInOrder
<1>1. IoIInv => MovedInOrder
  <2> SUFFICES ASSUME IoIInv PROVE MovedInOrder
    OBVIOUS
  <2>1. /\ req.lba \in Nat /\ req.addr \in Nat /\ req.count \in Nat /\ kcnt \in Nat
        /\ moved \in Seq(Nat \X Nat)
        /\ Len(moved) + kcnt = req.count
        /\ moved = Places(req.lba, req.addr, Len(moved))
        /\ phase = "done" => kcnt = 0
    BY DEF IoIInv, IoTypeOK, Progress, PhaseInv
  <2>2. Len(moved) \in Nat
    BY <2>1, LenProperties
  <2>3. Len(moved) <= req.count /\ (phase = "done" => Len(moved) = req.count)
    BY <2>1, <2>2, SMT
  <2>4. Wanted = Places(req.lba, req.addr, req.count)
    BY DEF Wanted, Places
  <2>5. SubSeq(Wanted, 1, Len(moved)) = Places(req.lba, req.addr, Len(moved))
    <3> DEFINE L == req.lba
               A == req.addr
               n == req.count
               m == Len(moved)
    <3>1. L \in Nat /\ A \in Nat /\ n \in Nat /\ m \in Nat /\ m <= n
      BY <2>1, <2>2, <2>3
    <3> HIDE DEF L, A, n, m
    <3>2. SubSeq(Places(L, A, n), 1, m) = Places(L, A, m)
      BY <3>1, PlacesPrefix
    <3> QED BY <2>4, <3>2 DEF L, A, n, m
  <2> QED BY <2>1, <2>3, <2>5 DEF MovedInOrder
<1> QED BY <1>1, Inductive, PTL

(* No call to the BIOS leaves its track, its DMA page or the rest of the   *)
(* request, whatever failed before.                                        *)
THEOREM BurstsAlwaysFit == IoSpec => []BurstsFit
<1>1. IoIInv => BurstsFit
  BY DEF IoIInv
<1> QED BY <1>1, Inductive, PTL

(* The user is asked after Tries failures of a sector, and after no more   *)
(* calls that fail than these and one burst.                               *)
THEOREM UserIsAskedInTime == IoSpec => []AskedInTime
<1>1. IoIInv => AskedInTime
  <2> SUFFICES ASSUME IoIInv PROVE AskedInTime
    OBVIOUS
  <2>1. /\ Tries \in Nat /\ errs \in Nat /\ kret \in 0 .. Tries
        /\ Tries <= errs + kret
        /\ errs + kret <= Tries + (IF kio_force_single THEN 1 ELSE 0)
        /\ phase = "critical" => kret = 0
    BY SectorIoAssumption DEF IoIInv, IoTypeOK, TriesAddUp, PhaseInv
  <2> QED BY <2>1, SMT DEF AskedInTime
<1> QED BY <1>1, Inductive, PTL

(* What the service is asked for. *)
LEMMA WantedSeq ==
    ASSUME IoTypeOK
    PROVE  /\ Wanted = Places(req.lba, req.addr, req.count)
           /\ Len(Wanted) = req.count
           /\ req.count = 0 => Wanted = <<>>
           /\ req.count # 0 => Wanted # <<>>
<1> DEFINE L == req.lba
           A == req.addr
           n == req.count
<1>1. L \in Nat /\ A \in Nat /\ n \in Nat
  BY DEF IoTypeOK
<1>2. Wanted = Places(L, A, n)
  BY DEF Wanted, Places
<1> HIDE DEF L, A, n
<1>3. Len(Places(L, A, n)) = n /\ Places(L, A, n) \in Seq(Nat \X Nat)
  BY <1>1, PlacesSeq DEF ListsPlaces
<1>4. n = 0 => Places(L, A, n) = <<>>
  BY <1>1, NoPlaces
<1>5. Len(<<>>) = 0
  BY EmptySeq
<1>6. n # 0 => Places(L, A, n) # <<>>
  BY <1>3, <1>5
<1> QED BY <1>2, <1>3, <1>4, <1>6 DEF L, A, n

(* Every step of a transfer is a step of the service, or none. *)
LEMMA StepImplements == IoIInv /\ IoIInv' /\ [IoNext]_ioVars => [Service!Next]_(Service!vars)
<1> SUFFICES ASSUME IoIInv, IoIInv', [IoNext]_ioVars PROVE [Service!Next]_(Service!vars)
  OBVIOUS
<1>1. ASSUME NEW lba \in Starts, NEW n \in Counts, NEW a \in Addresses, Setup(lba, n, a)
      PROVE  Service!Request
  <2>1. req'.count # 0
    BY <1>1, SectorIoAssumption DEF Setup
  <2>2. IoTypeOK'
    BY DEF IoIInv
  <2>3. Wanted' # <<>>
    <3>1. /\ req'.lba \in Nat /\ req'.addr \in Nat /\ req'.count \in Nat
          /\ Wanted' = Places(req'.lba, req'.addr, req'.count)
      BY <2>2 DEF IoTypeOK, Wanted, Places
    <3>2. Len(Wanted') = req'.count
      BY <3>1, PlacesSeq DEF ListsPlaces
    <3> QED BY <2>1, <3>2, EmptySeq
  <2>4. phase = "idle" /\ phase' = "next" /\ moved' = <<>>
    BY <1>1 DEF Setup
  <2> QED BY <2>3, <2>4 DEF Service!Request
<1>2. CASE Next13
  <2>1. phase = "next" /\ phase' \in {"bios", "failed"} /\ UNCHANGED <<req, moved>>
    BY <1>2 DEF Next13
  <2> QED BY <2>1 DEF Wanted, Service!Fail, Service!Next, Service!vars
<1>3. CASE Finish
  <2> DEFINE m == Len(moved)
             c == int13.count
             n == req.count
  <2>1. /\ c \in 1 .. kcnt /\ c \in Nat /\ m \in Nat /\ kcnt \in Nat /\ n \in Nat
        /\ moved' = Places(req.lba, req.addr, m + c)
        /\ m + kcnt = n
        /\ req.lba \in Nat /\ req.addr \in Nat
    BY <1>3, FinishMoves DEF IoIInv, IoTypeOK, Progress
  <2>2. /\ phase = "bios" /\ req' = req
        /\ phase' = IF kcnt = c THEN "done" ELSE "next"
    BY <1>3 DEF Finish
  <2>3. Wanted = Places(req.lba, req.addr, n) /\ Len(Wanted) = n
    BY WantedSeq DEF IoIInv
  <2>4. Wanted' = Wanted
    BY <2>2 DEF Wanted
  <2>5. moved' = SubSeq(Wanted, 1, m + c)
    <3> DEFINE L == req.lba
               A == req.addr
               k == m + c
    <3>1. L \in Nat /\ A \in Nat /\ n \in Nat /\ k \in Nat /\ k <= n
      <4> HIDE DEF m, c, n
      <4> QED BY <2>1, SMT
    <3> HIDE DEF L, A, k, n
    <3>2. SubSeq(Places(L, A, n), 1, k) = Places(L, A, k)
      BY <3>1, PlacesPrefix
    <3> QED BY <2>1, <2>3, <3>2 DEF L, A, k
  <2> HIDE DEF m, c, n
  <2>6. c \in 1 .. n - m /\ (m + c = n <=> kcnt = c)
    BY <2>1, SMT
  <2>7. Service!Move
    BY <2>2, <2>3, <2>4, <2>5, <2>6 DEF Service!Move, m
  <2> QED BY <2>7 DEF Service!Next
<1>4. CASE BurstFails \/ SectorFails
  <2>1. phase = "bios" /\ phase' \in {"next", "critical"} /\ UNCHANGED <<req, moved>>
    BY <1>4 DEF BurstFails, SectorFails
  <2> QED BY <2>1 DEF Wanted, Service!vars
<1>5. CASE DiskChanged \/ Critical
  <2>1. /\ phase \in {"bios", "critical"} /\ phase' \in {"next", "failed"}
        /\ UNCHANGED <<req, moved>>
    BY <1>5 DEF DiskChanged, Critical
  <2> QED BY <2>1 DEF Wanted, Service!Fail, Service!Next, Service!vars
<1>6. CASE UserAnswers
  <2>1. phase \in {"done", "failed"} /\ phase' = "idle" /\ UNCHANGED <<req, moved>>
    BY <1>6 DEF UserAnswers
  <2> QED BY <2>1 DEF Wanted, Service!Return, Service!Next
<1>7. CASE UNCHANGED ioVars
  BY <1>7 DEF ioVars, Wanted, Service!vars
<1> QED BY <1>1, <1>2, <1>3, <1>4, <1>5, <1>6, <1>7 DEF IoNext, Transfer, Service!Next

(* The transfers implement the service the rest of the kernel relies on.   *)
THEOREM TransfersImplement == IoSpec => ImplementsService
<1>1. IoInit => Service!Init
  <2> SUFFICES ASSUME IoInit PROVE Service!Init
    OBVIOUS
  <2>1. IoTypeOK /\ req.count = 0
    BY InitInv DEF IoInit, IoIInv, NoRequest
  <2>2. Wanted = <<>>
    BY <2>1, WantedSeq
  <2> QED BY <2>2 DEF IoInit, Service!Init
<1>2. IoIInv /\ IoIInv' /\ [IoNext]_ioVars => [Service!Next]_(Service!vars)
  BY StepImplements
<1> QED BY <1>1, <1>2, Inductive, PTL DEF IoSpec, ImplementsService, Service!Spec

-----------------------------------------------------------------------------
(***************************************************************************)
(* SectorCache: every window agrees with what was written last, what was   *)
(* saved is on the disk, and the windows and disks together implement      *)
(* SectorStore.                                                            *)
(*                                                                         *)
(* The lemmas are about records m of caches, as the steps of a call pass   *)
(* them on, and a drive a that is active.                                  *)
(***************************************************************************)

-----------------------------------------------------------------------------
(* Records of caches *)

Written == [valid : BOOLEAN, dirty : BOOLEAN, drive : Drives, lba : Sectors, buf : Content]
Windows == [valid : BOOLEAN, drive : Drives, lba : Sectors, buf : Seq(Content)]
SubSlots == [valid : BOOLEAN, drive : Drives, lba : Sectors, buf : Content]
Disks == [Drives -> [Sectors -> Content]]

Caches == [disk : Disks, wf : Written, rf : Windows, sub : [Slots -> SubSlots], next : Slots]

(* The read window is within the drive, and no longer than it may be. *)
WindowFits(w) == w.lba + Len(w.buf) <= LastSector + 1 /\ Len(w.buf) <= READ_CACHE_SECTORS

(* What sector s of drive d holds, saved or not. *)
IsDirty(m, d, s) == m.wf.valid /\ m.wf.dirty /\ m.wf.drive = d /\ m.wf.lba = s
Holds(m, d, s) == IF IsDirty(m, d, s) THEN m.wf.buf ELSE m.disk[d][s]

(* The windows agree with that, and what is unsaved is of drive a. *)
Agrees(m, a) ==
    /\ m.wf.valid => m.wf.buf = Holds(m, m.wf.drive, m.wf.lba)
    /\ m.rf.valid => \A i \in 1 .. Len(m.rf.buf) :
                        m.rf.buf[i] = Holds(m, m.rf.drive, m.rf.lba + i - 1)
    /\ \A i \in Slots : m.sub[i].valid => m.sub[i].buf = Holds(m, m.sub[i].drive, m.sub[i].lba)
    /\ Dirty(m) => m.wf.drive = a

Good(m, a) == m \in Caches /\ WindowFits(m.rf) /\ Agrees(m, a)

(* A step kept what all sectors hold. *)
SameHeld(m, n) == \A d \in Drives, s \in Sectors : Holds(n, d, s) = Holds(m, d, s)

(* A step left the write-back sector where it was, saved or not. *)
SamePlace(m, n) ==
    n.wf.valid = m.wf.valid /\ n.wf.drive = m.wf.drive /\ n.wf.lba = m.wf.lba

LEMMA Blanks ==
    /\ Blank \in Content /\ SomeDrive \in Drives /\ 0 \in Sectors /\ 0 \in Slots
    /\ NoSector \in Written /\ NoWindow \in Windows /\ NoSlot \in SubSlots /\ WindowFits(NoWindow)
    /\ ~NoSector.valid /\ ~NoSector.dirty /\ ~NoWindow.valid /\ ~NoSlot.valid
<1> USE SectorCacheAssumption
<1>1. Blank \in Content BY DEF Blank, Content, Data
<1>2. SomeDrive \in Drives BY DEF SomeDrive
<1>3. 0 \in Sectors /\ 0 \in Slots BY DEF Sectors, Slots
<1>4. NoSector \in Written /\ ~NoSector.valid /\ ~NoSector.dirty
  BY <1>1, <1>2, <1>3 DEF NoSector, Written
<1>5. <<>> \in Seq(Content) /\ Len(<<>>) = 0 OBVIOUS
<1>6. NoWindow \in Windows /\ ~NoWindow.valid BY <1>2, <1>3, <1>5 DEF NoWindow, Windows
<1>7. WindowFits(NoWindow)
  <2>1. NoWindow.lba = 0 /\ NoWindow.buf = <<>> BY DEF NoWindow
  <2>2. 0 + 0 <= LastSector + 1 /\ 0 <= READ_CACHE_SECTORS OBVIOUS
  <2> QED BY <1>5, <2>1, <2>2 DEF WindowFits
<1>8. NoSlot \in SubSlots /\ ~NoSlot.valid BY <1>1, <1>2, <1>3 DEF NoSlot, SubSlots
<1> QED BY <1>1, <1>2, <1>3, <1>4, <1>6, <1>7, <1>8

LEMMA HeldIsContent ==
    ASSUME NEW m \in Caches, NEW d \in Drives, NEW s \in Sectors
    PROVE  Holds(m, d, s) \in Content
BY DEF Caches, Written, Disks, Holds

(* No window for reading: what Invalidated leaves. *)
LEMMA InvalidatedIs ==
    ASSUME NEW m \in Caches
    PROVE  LET n == Invalidated(m) IN
           /\ n \in Caches /\ n.disk = m.disk /\ n.wf = m.wf
           /\ n.rf = NoWindow /\ \A i \in Slots : n.sub[i] = NoSlot
BY Blanks DEF Invalidated, Caches

LEMMA InvalidatedGood ==
    ASSUME NEW m, NEW a, Good(m, a)
    PROVE  LET n == Invalidated(m) IN Good(n, a) /\ SameHeld(m, n) /\ n.wf = m.wf /\ n.disk = m.disk
<1> DEFINE n == Invalidated(m)
<1>1. m \in Caches BY DEF Good
<1>2. /\ n \in Caches /\ n.disk = m.disk /\ n.wf = m.wf
      /\ n.rf = NoWindow /\ \A i \in Slots : n.sub[i] = NoSlot
  BY <1>1, InvalidatedIs
<1> HIDE DEF n
<1>3. \A d, s : Holds(n, d, s) = Holds(m, d, s) BY <1>2 DEF Holds, IsDirty
<1>4. Agrees(n, a) BY <1>2, <1>3, Blanks DEF Good, Agrees, Dirty
<1>5. WindowFits(n.rf) BY <1>2, Blanks
<1> QED BY <1>2, <1>3, <1>4, <1>5 DEF Good, SameHeld, n

(* A transfer to the disk of a sector that the write-back sector is not,   *)
(* or holds the same contents of.                                          *)
LEMMA WriteSectorIs ==
    ASSUME NEW m \in Caches, active \in Drives, NEW s \in Sectors, NEW data \in Content,
           NEW ok \in BOOLEAN
    PROVE  LET n == WriteSector(m, s, data, ok) IN
           /\ n \in Caches /\ n.wf = m.wf /\ n.rf = NoWindow /\ \A i \in Slots : n.sub[i] = NoSlot
           /\ \A d \in Drives, x \in Sectors :
                 n.disk[d][x] = IF ok /\ d = active /\ x = s THEN data ELSE m.disk[d][x]
<1> DEFINE n == WriteSector(m, s, data, ok)
           k == Invalidated(m)
<1>1. /\ k \in Caches /\ k.disk = m.disk /\ k.wf = m.wf
      /\ k.rf = NoWindow /\ \A i \in Slots : k.sub[i] = NoSlot
  BY InvalidatedIs
<1>2. n = IF ok THEN [k EXCEPT !.disk[active][s] = data] ELSE k BY DEF WriteSector
<1> HIDE DEF n, k
<1>3. CASE ~ok BY <1>1, <1>2, <1>3 DEF n
<1>4. CASE ok
  <2> DEFINE D == [m.disk EXCEPT ![active][s] = data]
  <2>1. n = [k EXCEPT !.disk = D] BY <1>1, <1>2, <1>4 DEF Caches
  <2>2. m.disk \in Disks BY DEF Caches
  <2>3. /\ D \in Disks
        /\ \A d \in Drives, x \in Sectors :
              D[d][x] = IF d = active /\ x = s THEN data ELSE m.disk[d][x]
    BY <2>2 DEF Disks
  <2> HIDE DEF D
  <2>4. n \in Caches /\ n.disk = D /\ n.wf = k.wf /\ n.rf = k.rf /\ n.sub = k.sub
    BY <1>1, <2>1, <2>3 DEF Caches
  <2> QED BY <1>1, <1>4, <2>3, <2>4 DEF n
<1> QED BY <1>3, <1>4

LEMMA WriteSectorGood ==
    ASSUME NEW m, Good(m, active), active \in Drives, NEW s \in Sectors, NEW data \in Content,
           NEW ok \in BOOLEAN,
           ~(m.wf.valid /\ m.wf.drive = active /\ m.wf.lba = s)
    PROVE  LET n == WriteSector(m, s, data, ok) IN
           /\ Good(n, active) /\ n.wf = m.wf
           /\ \A d \in Drives, x \in Sectors :
                 Holds(n, d, x) = IF ok /\ d = active /\ x = s THEN data ELSE Holds(m, d, x)
<1> DEFINE n == WriteSector(m, s, data, ok)
<1>1. m \in Caches BY DEF Good
<1>2. /\ n \in Caches /\ n.wf = m.wf /\ n.rf = NoWindow /\ \A i \in Slots : n.sub[i] = NoSlot
      /\ \A d \in Drives, x \in Sectors :
            n.disk[d][x] = IF ok /\ d = active /\ x = s THEN data ELSE m.disk[d][x]
  BY <1>1, WriteSectorIs
<1> HIDE DEF n
<1>3. \A d \in Drives, x \in Sectors :
         Holds(n, d, x) = IF ok /\ d = active /\ x = s THEN data ELSE Holds(m, d, x)
  BY <1>2 DEF Holds, IsDirty
<1>4. Agrees(n, active)
  <2>1. n.wf.valid => n.wf.buf = Holds(n, n.wf.drive, n.wf.lba)
    <3>1. m.wf.valid => m.wf.buf = Holds(m, m.wf.drive, m.wf.lba) BY DEF Good, Agrees
    <3>2. m.wf.drive \in Drives /\ m.wf.lba \in Sectors BY <1>1 DEF Caches, Written
    <3> QED BY <1>2, <1>3, <3>1, <3>2
  <2>2. ~n.rf.valid /\ \A i \in Slots : ~n.sub[i].valid BY <1>2, Blanks
  <2>3. Dirty(n) => n.wf.drive = active BY <1>2 DEF Good, Agrees, Dirty
  <2> QED BY <2>1, <2>2, <2>3 DEF Agrees
<1>5. WindowFits(n.rf) BY <1>2, Blanks
<1> QED BY <1>2, <1>3, <1>4, <1>5 DEF Good, n

(* Saving changes no contents, and leaves the sector saved or unsaved. *)
LEMMA FlushGood ==
    ASSUME NEW m, Good(m, active), active \in Drives, NEW f \in Flushes(m)
    PROVE  /\ f.ok \in BOOLEAN /\ Good(f.m, active) /\ SameHeld(m, f.m) /\ SamePlace(m, f.m)
           /\ f.ok => ~Dirty(f.m)
           /\ f.ok \/ Dirty(m)
<1>1. CASE ~Dirty(m)
  <2>1. f = [ok |-> TRUE, m |-> m] BY <1>1 DEF Flushes
  <2>2. f.ok = TRUE /\ f.m = m BY <2>1
  <2> QED BY <1>1, <2>2 DEF SameHeld, SamePlace
<1>2. CASE Dirty(m)
  <2>1. m.wf.drive = active BY <1>2 DEF Good, Agrees
  <2>2. PICK ok \in BOOLEAN :
           f = [ok |-> ok, m |-> [WriteSector(m, m.wf.lba, m.wf.buf, ok) EXCEPT !.wf.dirty = ~ok]]
    BY <1>2, <2>1 DEF Flushes
  <2> DEFINE k == WriteSector(m, m.wf.lba, m.wf.buf, ok)
             n == [k EXCEPT !.wf.dirty = ~ok]
             W == [m.wf EXCEPT !.dirty = ~ok]
  <2>3. m \in Caches /\ m.wf \in Written /\ m.wf.lba \in Sectors /\ m.wf.buf \in Content
    BY DEF Good, Caches, Written
  <2>4. /\ k \in Caches /\ k.wf = m.wf /\ k.rf = NoWindow /\ \A i \in Slots : k.sub[i] = NoSlot
        /\ \A d \in Drives, x \in Sectors :
              k.disk[d][x] = IF ok /\ d = active /\ x = m.wf.lba THEN m.wf.buf ELSE m.disk[d][x]
    <3> DEFINE l == m.wf.lba
               b == m.wf.buf
               j == WriteSector(m, l, b, ok)
    <3>1. l \in Sectors /\ b \in Content BY <2>3
    <3> HIDE DEF l, b
    <3>2. /\ j \in Caches /\ j.wf = m.wf /\ j.rf = NoWindow
          /\ \A i \in Slots : j.sub[i] = NoSlot
          /\ \A d \in Drives, x \in Sectors :
                j.disk[d][x] = IF ok /\ d = active /\ x = l THEN b ELSE m.disk[d][x]
      BY <2>3, <3>1, WriteSectorIs
    <3> QED BY <3>2 DEF l, b
  <2>5. f.ok = ok /\ f.m = n BY <2>2
  <2> HIDE DEF k
  <2>6. /\ W \in Written /\ W.valid = m.wf.valid /\ W.dirty = ~ok /\ W.drive = m.wf.drive
        /\ W.lba = m.wf.lba /\ W.buf = m.wf.buf
    BY <2>3 DEF Written
  <2>7. n = [k EXCEPT !.wf = W] BY <2>4 DEF Caches
  <2> HIDE DEF n, W
  <2>8. n \in Caches /\ n.disk = k.disk /\ n.wf = W /\ n.rf = k.rf /\ n.sub = k.sub
    BY <2>4, <2>6, <2>7 DEF Caches
  <2>9. m.wf.valid /\ m.wf.dirty BY <1>2 DEF Dirty
  <2>10. \A d \in Drives, x \in Sectors : Holds(n, d, x) = Holds(m, d, x)
    <3> TAKE d \in Drives, x \in Sectors
    <3>1. n.wf.valid /\ n.wf.dirty = ~ok /\ n.wf.drive = active /\ n.wf.lba = m.wf.lba
          /\ n.wf.buf = m.wf.buf
      BY <2>1, <2>6, <2>8, <2>9
    <3>2. n.disk[d][x] = IF ok /\ d = active /\ x = m.wf.lba THEN m.wf.buf ELSE m.disk[d][x]
      BY <2>4, <2>8
    <3>3. CASE d = active /\ x = m.wf.lba
      <4>1. Holds(m, d, x) = m.wf.buf BY <2>1, <2>9, <3>3 DEF Holds, IsDirty
      <4>2. CASE ok
        <5>1. n.disk[d][x] = m.wf.buf BY <3>2, <3>3, <4>2
        <5>2. Holds(n, d, x) = n.disk[d][x] BY <3>1, <4>2 DEF Holds, IsDirty
        <5> QED BY <4>1, <5>1, <5>2
      <4>3. CASE ~ok
        <5>1. Holds(n, d, x) = n.wf.buf BY <3>1, <3>3, <4>3 DEF Holds, IsDirty
        <5> QED BY <3>1, <4>1, <5>1
      <4> QED BY <4>2, <4>3
    <3>4. CASE ~(d = active /\ x = m.wf.lba)
      <4>1. Holds(m, d, x) = m.disk[d][x] BY <2>1, <3>4 DEF Holds, IsDirty
      <4>2. Holds(n, d, x) = n.disk[d][x] BY <3>1, <3>4 DEF Holds, IsDirty
      <4>3. n.disk[d][x] = m.disk[d][x] BY <3>2, <3>4
      <4> QED BY <4>1, <4>2, <4>3
    <3> QED BY <3>3, <3>4
  <2>11. Agrees(n, active)
    <3>1. n.wf.valid => n.wf.buf = Holds(n, n.wf.drive, n.wf.lba)
      <4>1. m.wf.buf = Holds(m, m.wf.drive, m.wf.lba) BY <2>9 DEF Holds, IsDirty
      <4>2. m.wf.drive \in Drives /\ m.wf.lba \in Sectors BY <2>3 DEF Written
      <4> QED BY <2>6, <2>8, <2>10, <4>1, <4>2
    <3>2. ~n.rf.valid /\ \A i \in Slots : ~n.sub[i].valid BY <2>4, <2>8, Blanks
    <3>3. n.wf.drive = active BY <2>1, <2>6, <2>8
    <3> QED BY <3>1, <3>2, <3>3 DEF Agrees
  <2>12. WindowFits(n.rf) BY <2>4, <2>8, Blanks
  <2>13. ok => ~Dirty(n) BY <2>6, <2>8 DEF Dirty
  <2> QED BY <1>2, <2>5, <2>6, <2>8, <2>10, <2>11, <2>12, <2>13 DEF Good, SameHeld, SamePlace
<1> QED BY <1>1, <1>2

LEMMA ReadsGood ==
    ASSUME NEW m, Good(m, active), active \in Drives, NEW r \in Reads(m)
    PROVE  /\ r.ok \in BOOLEAN /\ Good(r.m, active) /\ SameHeld(m, r.m) /\ SamePlace(m, r.m)
           /\ r.ok => ~Dirty(r.m)
<1>1. PICK f \in Flushes(m), ok \in BOOLEAN : r = [ok |-> f.ok /\ ok, m |-> f.m] BY DEF Reads
<1>2. r.m = f.m /\ r.ok = (f.ok /\ ok) BY <1>1
<1>3. /\ f.ok \in BOOLEAN /\ Good(f.m, active) /\ SameHeld(m, f.m) /\ SamePlace(m, f.m)
      /\ f.ok => ~Dirty(f.m)
  BY FlushGood
<1> QED BY <1>2, <1>3

(* With nothing unsaved the disk is what the sectors hold, and any drive   *)
(* may become the active one.                                              *)
LEMMA NothingUnsaved ==
    ASSUME NEW m, NEW a, Good(m, a), ~Dirty(m)
    PROVE  /\ \A b : Good(m, b)
           /\ \A d, s : Holds(m, d, s) = m.disk[d][s]
BY DEF Good, Agrees, Holds, IsDirty, Dirty

LEMMA ForgetGood ==
    ASSUME NEW m, NEW a, Good(m, a), ~Dirty(m)
    PROVE  LET n == [m EXCEPT !.wf = NoSector] IN
           Good(n, a) /\ SameHeld(m, n) /\ n.wf = NoSector /\ n.disk = m.disk
<1> DEFINE n == [m EXCEPT !.wf = NoSector]
<1>1. m \in Caches BY DEF Good
<1>2. /\ n \in Caches /\ n.wf = NoSector /\ n.disk = m.disk /\ n.rf = m.rf /\ n.sub = m.sub
  BY <1>1, Blanks DEF Caches
<1> HIDE DEF n
<1>3. \A d, s : Holds(n, d, s) = Holds(m, d, s) BY <1>2, Blanks DEF Holds, IsDirty, Dirty
<1>4. Agrees(n, a) BY <1>2, <1>3, Blanks DEF Good, Agrees, Dirty
<1> QED BY <1>2, <1>3, <1>4 DEF Good, SameHeld, n

LEMMA DropWindowGood ==
    ASSUME NEW m, NEW a, Good(m, a)
    PROVE  LET n == [m EXCEPT !.rf = NoWindow] IN
           Good(n, a) /\ SameHeld(m, n) /\ n.wf = m.wf
<1> DEFINE n == [m EXCEPT !.rf = NoWindow]
<1>1. m \in Caches BY DEF Good
<1>2. /\ n \in Caches /\ n.wf = m.wf /\ n.disk = m.disk /\ n.rf = NoWindow /\ n.sub = m.sub
  BY <1>1, Blanks DEF Caches
<1> HIDE DEF n
<1>3. \A d, s : Holds(n, d, s) = Holds(m, d, s) BY <1>2 DEF Holds, IsDirty
<1>4. Agrees(n, a) BY <1>2, <1>3, Blanks DEF Good, Agrees, Dirty
<1>5. WindowFits(n.rf) BY <1>2, Blanks
<1> QED BY <1>2, <1>3, <1>4, <1>5 DEF Good, SameHeld, n

(* Sectors read into the window. *)
LEMMA WindowGood ==
    ASSUME NEW m, Good(m, active), active \in Drives, NEW s \in Sectors, NEW bufs \in Seq(Content),
           s + Len(bufs) <= LastSector + 1, Len(bufs) <= READ_CACHE_SECTORS,
           \A i \in 1 .. Len(bufs) : bufs[i] = Holds(m, active, s + i - 1)
    PROVE  LET n == [m EXCEPT !.rf = Window(s, bufs)] IN
           Good(n, active) /\ SameHeld(m, n) /\ n.wf = m.wf
<1> DEFINE w == Window(s, bufs)
           n == [m EXCEPT !.rf = w]
<1>1. m \in Caches BY DEF Good
<1>2. w \in Windows /\ w.valid /\ w.drive = active /\ w.lba = s /\ w.buf = bufs
  BY DEF Window, Windows
<1> HIDE DEF w
<1>3. /\ n \in Caches /\ n.wf = m.wf /\ n.disk = m.disk /\ n.rf = w /\ n.sub = m.sub
  BY <1>1, <1>2 DEF Caches
<1> HIDE DEF n
<1>4. \A d, x : Holds(n, d, x) = Holds(m, d, x) BY <1>3 DEF Holds, IsDirty
<1>5. Agrees(n, active)
  <2>1. n.rf.valid => \A i \in 1 .. Len(n.rf.buf) :
                         n.rf.buf[i] = Holds(n, n.rf.drive, n.rf.lba + i - 1)
    BY <1>2, <1>3, <1>4
  <2> QED BY <1>3, <1>4, <2>1 DEF Good, Agrees, Dirty
<1>6. WindowFits(n.rf) BY <1>2, <1>3 DEF WindowFits
<1> QED BY <1>3, <1>4, <1>5, <1>6 DEF Good, SameHeld, n, w

(* A sector read into the next subdirectory slot. *)
LEMMA SlotFilledGood ==
    ASSUME NEW m, Good(m, active), ~Dirty(m), active \in Drives, NEW s \in Sectors
    PROVE  LET n == SlotFilled(m, s) IN Good(n, active) /\ SameHeld(m, n) /\ n.wf = m.wf
<1> DEFINE e == [valid |-> TRUE, drive |-> active, lba |-> s, buf |-> m.disk[active][s]]
           S == [m.sub EXCEPT ![m.next] = e]
           k == (m.next + 1) % SUBDIR_CACHE_SLOTS
           n == SlotFilled(m, s)
<1>1. m \in Caches /\ m.next \in Slots /\ m.sub \in [Slots -> SubSlots] /\ m.disk \in Disks
  BY DEF Good, Caches
<1>2. /\ e \in SubSlots /\ e.valid /\ e.drive = active /\ e.lba = s
      /\ e.buf = m.disk[active][s]
  BY <1>1 DEF SubSlots, Disks
<1>3. k \in Slots
  <2>1. m.next + 1 \in Nat /\ SUBDIR_CACHE_SLOTS \in Nat \ {0}
    BY <1>1, SectorCacheAssumption DEF Slots
  <2>2. k \in Nat /\ k < SUBDIR_CACHE_SLOTS BY <2>1, SMT
  <2> QED BY <2>1, <2>2 DEF Slots
<1>4. n = [m EXCEPT !.sub = S, !.next = k] BY <1>1 DEF SlotFilled, Caches
<1> HIDE DEF e, k, n
<1>5. S \in [Slots -> SubSlots] /\ \A i \in Slots : S[i] = IF i = m.next THEN e ELSE m.sub[i]
  BY <1>1, <1>2
<1> HIDE DEF S
<1>6. n \in Caches /\ n.wf = m.wf /\ n.disk = m.disk /\ n.rf = m.rf /\ n.sub = S
  BY <1>1, <1>3, <1>4, <1>5 DEF Caches
<1>7. \A d, x : Holds(n, d, x) = Holds(m, d, x) BY <1>6 DEF Holds, IsDirty
<1>8. Agrees(n, active)
  <2>1. \A i \in Slots : n.sub[i].valid => n.sub[i].buf = Holds(n, n.sub[i].drive, n.sub[i].lba)
    <3> TAKE i \in Slots
    <3>1. CASE i = m.next
      <4>1. Holds(m, active, s) = m.disk[active][s] BY NothingUnsaved
      <4> QED BY <1>2, <1>5, <1>6, <1>7, <3>1, <4>1
    <3>2. CASE i # m.next
      <4>1. m.sub[i].valid => m.sub[i].buf = Holds(m, m.sub[i].drive, m.sub[i].lba)
        BY DEF Good, Agrees
      <4> QED BY <1>5, <1>6, <1>7, <3>2, <4>1
    <3> QED BY <3>1, <3>2
  <2> QED BY <1>6, <1>7, <2>1 DEF Good, Agrees, Dirty
<1> QED BY <1>6, <1>7, <1>8 DEF Good, SameHeld, n

(* A sector marked as written: it was the one in the window, or nothing    *)
(* was unsaved.                                                            *)
LEMMA MarkedGood ==
    ASSUME NEW m, Good(m, active), active \in Drives, NEW s \in Sectors, NEW data \in Content,
           Dirty(m) => m.wf.lba = s
    PROVE  LET n == Marked(m, s, data) IN
           /\ Good(n, active) /\ n.wf.valid /\ n.wf.drive = active /\ n.wf.lba = s
           /\ \A d \in Drives, x \in Sectors :
                 Holds(n, d, x) = IF d = active /\ x = s THEN data ELSE Holds(m, d, x)
<1> DEFINE k == Invalidated(m)
           W == [valid |-> TRUE, dirty |-> TRUE, drive |-> active, lba |-> s, buf |-> data]
           n == Marked(m, s, data)
<1>1. m \in Caches BY DEF Good
<1>2. /\ k \in Caches /\ k.disk = m.disk /\ k.wf = m.wf
      /\ k.rf = NoWindow /\ \A i \in Slots : k.sub[i] = NoSlot
  BY <1>1, InvalidatedIs
<1>3. W \in Written /\ W.valid /\ W.dirty /\ W.drive = active /\ W.lba = s /\ W.buf = data
  BY DEF Written
<1>4. n = [k EXCEPT !.wf = W] BY DEF Marked
<1> HIDE DEF k, W, n
<1>5. n \in Caches /\ n.disk = k.disk /\ n.wf = W /\ n.rf = k.rf /\ n.sub = k.sub
  BY <1>2, <1>3, <1>4 DEF Caches
<1>6. \A d \in Drives, x \in Sectors :
         Holds(n, d, x) = IF d = active /\ x = s THEN data ELSE Holds(m, d, x)
  <2>1. Dirty(m) => m.wf.drive = active BY DEF Good, Agrees
  <2> QED BY <1>2, <1>3, <1>5, <2>1 DEF Holds, IsDirty, Dirty
<1>7. Agrees(n, active)
  <2>1. n.wf.buf = Holds(n, n.wf.drive, n.wf.lba) BY <1>3, <1>5 DEF Holds, IsDirty
  <2>2. ~n.rf.valid /\ \A i \in Slots : ~n.sub[i].valid BY <1>2, <1>5, Blanks
  <2> QED BY <1>3, <1>5, <2>1, <2>2 DEF Agrees
<1>8. WindowFits(n.rf) BY <1>2, <1>5, Blanks
<1> QED BY <1>3, <1>5, <1>6, <1>7, <1>8 DEF Good, n

(* Before a sector is written: the window is the sector's, or nothing is   *)
(* unsaved.                                                                *)
LEMMA PreparesGood ==
    ASSUME Good(io, active), active \in Drives, NEW s \in Sectors, NEW r \in Prepares(s)
    PROVE  /\ r.ok \in BOOLEAN /\ Good(r.m, active) /\ SameHeld(io, r.m)
           /\ r.ok /\ r.m.wf.valid => Names(r.m.wf, s) /\ r.m.wf.buf = Holds(io, active, s)
           /\ r.ok /\ ~r.m.wf.valid => io.disk[active][s] = Holds(io, active, s)
<1>1. CASE ~io.wf.valid \/ Names(io.wf, s)
  <2>1. r = [ok |-> TRUE, m |-> io] BY <1>1 DEF Prepares
  <2>2. r.ok = TRUE /\ r.m = io BY <2>1
  <2>3. io.wf.valid => Names(io.wf, s) /\ io.wf.buf = Holds(io, active, s)
    BY <1>1 DEF Good, Agrees, Names
  <2>4. ~io.wf.valid => io.disk[active][s] = Holds(io, active, s) BY DEF Holds, IsDirty
  <2> QED BY <2>2, <2>3, <2>4 DEF SameHeld
<1>2. CASE ~(~io.wf.valid \/ Names(io.wf, s))
  <2>1. PICK f \in Flushes(io) :
           r = [ok |-> f.ok, m |-> IF f.ok THEN [f.m EXCEPT !.wf = NoSector] ELSE f.m]
    BY <1>2 DEF Prepares
  <2>2. /\ f.ok \in BOOLEAN /\ Good(f.m, active) /\ SameHeld(io, f.m)
        /\ f.ok => ~Dirty(f.m)
    BY FlushGood
  <2>3. CASE ~f.ok
    <3>1. r.ok = f.ok /\ r.m = f.m BY <2>1, <2>3
    <3>2. r.ok = FALSE BY <2>2, <2>3, <3>1
    <3> QED BY <2>2, <3>1, <3>2
  <2>4. CASE f.ok
    <3> DEFINE n == [f.m EXCEPT !.wf = NoSector]
    <3>1. r.ok = f.ok /\ r.m = n BY <2>1, <2>4
    <3>2. Good(n, active) /\ SameHeld(f.m, n) /\ n.wf = NoSector BY <2>2, <2>4, ForgetGood
    <3> HIDE DEF n
    <3>3. SameHeld(io, n) BY <2>2, <3>2 DEF SameHeld
    <3>4. ~n.wf.valid BY <3>2, Blanks
    <3>5. Holds(io, active, s) = io.disk[active][s] BY <1>2 DEF Holds, IsDirty, Names
    <3> QED BY <2>2, <3>1, <3>2, <3>3, <3>4, <3>5
  <2> QED BY <2>2, <2>3, <2>4
<1> QED BY <1>1, <1>2

-----------------------------------------------------------------------------
(* The inductive invariant *)

(* A call other than AH=40h that could not save the sector knows whose it  *)
(* is: the directory sectors it writes are others.                         *)
BusyRule == call = "other" /\ io.wf.valid => <<io.wf.drive, io.wf.lba>> \in busy

SavedRule == answer.kind = "saved" => ~Dirty(io)

Safety ==
    /\ Good(io, active)
    /\ active \in Drives
    /\ call \in {"none", "write", "other"}
    /\ busy \subseteq Drives \X Sectors
    /\ answer.kind \in {"done", "failed", "data", "saved"}
    /\ writes \in 0 .. MaxWrites
    /\ BusyRule
    /\ SavedRule

LEMMA StoredIs ==
    /\ Stored = [d \in Drives |-> [s \in Sectors |-> Holds(io, d, s)]]
    /\ \A d \in Drives, s \in Sectors : Stored[d][s] = Holds(io, d, s)
BY DEF Stored, Holds, IsDirty, Dirty

(* The caches held the same: the abstract store has not changed. *)
LEMMA StoredSame ==
    ASSUME SameHeld(io, io')
    PROVE  Stored' = Stored
<1>1. Stored' = [d \in Drives |-> [s \in Sectors |-> Holds(io', d, s)]]
  BY DEF Stored, Holds, IsDirty, Dirty
<1>2. \A d \in Drives, s \in Sectors : Holds(io', d, s) = Holds(io, d, s) BY DEF SameHeld
<1> QED BY <1>1, <1>2, StoredIs

(* How a step of a call may end: with what the caches hold unchanged, and  *)
(* no answer of data.                                                      *)
LEMMA EndsOther ==
    ASSUME Safety, UNCHANGED <<busy, writes>>, active' \in Drives,
           Good(io', active'), SameHeld(io, io'), call' \in {"none", call},
           answer'.kind \in {"done", "failed", "saved"},
           answer'.kind = "saved" => ~Dirty(io'),
           SamePlace(io, io') \/ call = "write"
    PROVE  Safety' /\ Store!Other
<1>1. BusyRule' BY DEF Safety, BusyRule, SamePlace
<1>2. SavedRule' BY DEF SavedRule, Dirty
<1>3. Stored' = Stored BY StoredSame
<1>4. Good(io, active)' BY DEF Good, Agrees, Holds, IsDirty, Dirty, WindowFits, Caches, Written, Windows, SubSlots, Disks, Content, Data, Sectors, Slots
<1>5. Safety'
  <2>1. call' \in {"none", "write", "other"} BY DEF Safety
  <2>2. answer'.kind \in {"done", "failed", "data", "saved"} OBVIOUS
  <2>3. busy' \subseteq Drives \X Sectors BY DEF Safety, Sectors
  <2>4. writes' \in 0 .. MaxWrites BY DEF Safety
  <2> QED BY <1>1, <1>2, <1>4, <2>1, <2>2, <2>3, <2>4 DEF Safety, Sectors
<1> QED BY <1>3, <1>5 DEF Store!Other

(* How a read ends: with what sectors s .. last of the active drive hold.  *)
LEMMA EndsRead ==
    ASSUME Safety, UNCHANGED <<active, call, busy, writes>>,
           Good(io', active), SameHeld(io, io'), SamePlace(io, io'),
           NEW s \in Sectors, NEW last \in Sectors, s <= last,
           answer' = DataOf(s, [i \in 1 .. last - s + 1 |-> Holds(io, active, s + i - 1)])
    PROVE  Safety' /\ Store!Read(active, s, last)
<1>1. BusyRule' BY DEF Safety, BusyRule, SamePlace
<1>2. answer'.kind = "data" BY DEF DataOf
<1>3. SavedRule' BY <1>2 DEF SavedRule
<1>4. Stored' = Stored BY StoredSame
<1>5. Good(io, active)' OBVIOUS
<1>6. Safety' BY <1>1, <1>2, <1>3, <1>5 DEF Safety
<1>7. \A i \in 1 .. last - s + 1 : Stored[active][s + i - 1] = Holds(io, active, s + i - 1)
  <2> TAKE i \in 1 .. last - s + 1
  <2>1. s + i - 1 \in Sectors BY SectorCacheAssumption DEF Sectors
  <2>2. active \in Drives BY DEF Safety
  <2> QED BY <2>1, <2>2, StoredIs
<1>8. Store!Contents(active, s, last)
         = [i \in 1 .. last - s + 1 |-> Holds(io, active, s + i - 1)]
  BY <1>7 DEF Store!Contents
<1>9. answer' = [kind |-> "data", drive |-> active, first |-> s,
                 data |-> Store!Contents(active, s, last)]
  BY <1>8 DEF DataOf
<1> QED BY <1>4, <1>6, <1>9 DEF Store!Read

(* How a write ends: some parts of a sector are the write's, whatever is   *)
(* answered.                                                               *)
LEMMA EndsWrite ==
    ASSUME Safety, UNCHANGED <<active, busy>>, writes < MaxWrites, writes' = writes + 1,
           NEW s \in Sectors, NEW ps \in SUBSET Parts, Good(io', active),
           \A d \in Drives, x \in Sectors :
              Holds(io', d, x) = IF d = active /\ x = s THEN Over(Holds(io, active, s), ps)
                                 ELSE Holds(io, d, x),
           call' \in {"none", call}, answer'.kind \in {"done", "failed"},
           SamePlace(io, io') \/ call = "write"
    PROVE  Safety' /\ Store!Write(active, s, ps, writes + 1)
<1>1. BusyRule' BY DEF Safety, BusyRule, SamePlace
<1>2. SavedRule' BY DEF SavedRule
<1>3. Good(io, active)' OBVIOUS
<1>4. writes' \in 0 .. MaxWrites BY SectorCacheAssumption DEF Safety
<1>5. Safety' BY <1>1, <1>2, <1>3, <1>4 DEF Safety
<1>6. Stored' = [d \in Drives |-> [x \in Sectors |-> Holds(io', d, x)]]
  BY DEF Stored, Holds, IsDirty, Dirty
<1> DEFINE New == [Stored EXCEPT ![active][s] = [p \in Parts |-> IF p \in ps THEN writes + 1 ELSE @[p]]]
<1>7. New = [d \in Drives |-> [x \in Sectors |-> Holds(io', d, x)]]
  <2>1. active \in Drives BY DEF Safety
  <2>2. Stored[active][s] = Holds(io, active, s) BY <2>1, StoredIs
  <2>3. [p \in Parts |-> IF p \in ps THEN writes + 1 ELSE Stored[active][s][p]]
           = Over(Holds(io, active, s), ps)
    BY <2>2 DEF Over
  <2> DEFINE o == Over(Holds(io, active, s), ps)
  <2>4. New = [Stored EXCEPT ![active][s] = o] BY <2>3
  <2>5. \A d \in Drives, x \in Sectors :
           Holds(io', d, x) = IF d = active /\ x = s THEN o ELSE Holds(io, d, x)
    OBVIOUS
  <2> HIDE DEF o, New
  <2>6. Stored = [d \in Drives |-> [x \in Sectors |-> Holds(io, d, x)]] BY StoredIs
  <2>7. [Stored EXCEPT ![active][s] = o]
           = [d \in Drives |-> [x \in Sectors |->
                IF d = active /\ x = s THEN o ELSE Holds(io, d, x)]]
    BY <2>1, <2>6
  <2> QED BY <2>4, <2>5, <2>7
<1>8. Stored' = New BY <1>6, <1>7
<1> HIDE DEF New
<1> QED BY <1>5, <1>8 DEF Store!Write, New

-----------------------------------------------------------------------------
(* Every step keeps Safety and is a step of the store *)

LEMMA EnterStep ==
    ASSUME Safety, NEW k \in {"write", "other"}, Enter(k)
    PROVE  Safety' /\ Store!Other
<1>1. /\ Good(io, active) /\ active \in Drives /\ writes \in 0 .. MaxWrites
      /\ active' = active /\ writes' = writes /\ call' = k
      /\ answer'.kind = "done"
  BY DEF Safety, Enter, Answer
<1>2. busy' = IF Dirty(io) THEN {<<io.wf.drive, io.wf.lba>>} ELSE {} BY DEF Enter
<1>3. io.wf.drive \in Drives /\ io.wf.lba \in Sectors BY <1>1 DEF Good, Caches, Written
<1>4. busy' \subseteq Drives \X Sectors BY <1>2, <1>3
<1>5. Good(io', active) /\ SameHeld(io, io')
      /\ (k = "other" /\ io'.wf.valid => <<io'.wf.drive, io'.wf.lba>> \in busy')
  <2>1. CASE k = "write"
    <3>1. io' = io BY <2>1 DEF Enter
    <3>2. Good(io', active) /\ SameHeld(io, io') BY <1>1, <3>1 DEF SameHeld
    <3> QED BY <2>1, <3>2
  <2>2. CASE k = "other"
    <3>1. PICK f \in Flushes(io) : io' = IF f.ok THEN [f.m EXCEPT !.wf = NoSector] ELSE f.m
      BY <2>2 DEF Enter
    <3>2. /\ f.ok \in BOOLEAN /\ Good(f.m, active) /\ SameHeld(io, f.m) /\ SamePlace(io, f.m)
          /\ f.ok => ~Dirty(f.m)
          /\ f.ok \/ Dirty(io)
      BY <1>1, FlushGood
    <3>3. CASE f.ok
      <4> DEFINE n == [f.m EXCEPT !.wf = NoSector]
      <4>1. io' = n BY <3>1, <3>3
      <4>2. Good(n, active) /\ SameHeld(f.m, n) /\ n.wf = NoSector
        BY <3>2, <3>3, ForgetGood
      <4> HIDE DEF n
      <4>3. SameHeld(io, n) BY <3>2, <4>2 DEF SameHeld
      <4>4. ~n.wf.valid BY <4>2, Blanks
      <4> QED BY <4>1, <4>2, <4>3, <4>4
    <3>4. CASE ~f.ok
      <4>1. io' = f.m /\ Dirty(io) BY <3>1, <3>2, <3>4
      <4>2. busy' = {<<io.wf.drive, io.wf.lba>>} BY <1>2, <4>1
      <4>3. io'.wf.drive = io.wf.drive /\ io'.wf.lba = io.wf.lba
        BY <3>2, <4>1 DEF SamePlace
      <4>4. <<io'.wf.drive, io'.wf.lba>> \in busy' BY <4>2, <4>3
      <4> QED BY <3>2, <4>1, <4>4
    <3> QED BY <3>3, <3>4
  <2> QED BY <2>1, <2>2
<1>6. Stored' = Stored BY <1>5, StoredSame
<1>7. Safety'
  <2>1. Good(io, active)' BY <1>1, <1>5
  <2>2. BusyRule' BY <1>1, <1>5 DEF BusyRule
  <2>3. SavedRule' BY <1>1 DEF SavedRule
  <2>4. call' \in {"none", "write", "other"} BY <1>1
  <2> QED BY <1>1, <1>4, <2>1, <2>2, <2>3, <2>4 DEF Safety
<1> QED BY <1>1, <1>6, <1>7 DEF Store!Other

LEMMA SwitchStep ==
    ASSUME Safety, NEW d \in Drives, Switch(d)
    PROVE  Safety' /\ Store!Other
<1>1. Good(io, active) /\ active \in Drives BY DEF Safety
<1>2. PICK f \in Flushes(io) :
         \/ Fails(f.m) /\ UNCHANGED active
         \/ f.ok /\ Fails(Invalidated(f.m)) /\ UNCHANGED active
         \/ f.ok /\ Succeeds(Invalidated(f.m), Answer("done")) /\ active' = d
  BY DEF Switch
<1>3. /\ Good(f.m, active) /\ SameHeld(io, f.m) /\ SamePlace(io, f.m)
      /\ f.ok => ~Dirty(f.m)
  BY <1>1, FlushGood
<1>4. UNCHANGED <<busy, writes>> BY DEF Switch
<1> DEFINE n == Invalidated(f.m)
<1>5. Good(n, active) /\ SameHeld(f.m, n) /\ n.wf = f.m.wf BY <1>3, InvalidatedGood
<1> HIDE DEF n
<1>6. SameHeld(io, n) /\ SamePlace(io, n) BY <1>3, <1>5 DEF SameHeld, SamePlace
<1>7. CASE Fails(f.m) /\ UNCHANGED active
  <2>1. io' = f.m /\ call' = "none" /\ answer'.kind = "failed" BY <1>7 DEF Fails, Answer
  <2> QED BY <1>1, <1>3, <1>4, <1>7, <2>1, EndsOther
<1>8. CASE f.ok /\ Fails(n) /\ UNCHANGED active
  <2>1. io' = n /\ call' = "none" /\ answer'.kind = "failed" BY <1>8 DEF Fails, Answer
  <2> QED BY <1>1, <1>5, <1>4, <1>6, <1>8, <2>1, EndsOther
<1>9. CASE f.ok /\ Succeeds(n, Answer("done")) /\ active' = d
  <2>1. io' = n /\ call' = call /\ answer'.kind = "done" BY <1>9 DEF Succeeds, Answer
  <2>2. ~Dirty(n) BY <1>3, <1>5, <1>9 DEF Dirty
  <2>3. Good(n, d) BY <1>5, <2>2, NothingUnsaved
  <2> QED BY <1>4, <1>6, <1>9, <2>1, <2>3, EndsOther
<1> QED BY <1>2, <1>7, <1>8, <1>9 DEF n

LEMMA ReadTableStep ==
    ASSUME Safety, ReadTable
    PROVE  Safety' /\ Store!Other
<1>1. Good(io, active) /\ active \in Drives BY DEF Safety
<1>2. PICK r \in Reads(io) : IF r.ok THEN Succeeds(r.m, Answer("done")) ELSE Fails(r.m)
  BY DEF ReadTable
<1>3. Good(r.m, active) /\ SameHeld(io, r.m) /\ SamePlace(io, r.m) BY <1>1, ReadsGood
<1>4. io' = r.m /\ call' \in {"none", call} /\ answer'.kind \in {"done", "failed"}
  BY <1>2 DEF Succeeds, Fails, Answer
<1>5. UNCHANGED <<active, busy, writes>> BY DEF ReadTable
<1> QED BY <1>1, <1>3, <1>4, <1>5, EndsOther

LEMMA WriteTableStep ==
    ASSUME Safety, WriteTable
    PROVE  Safety' /\ Store!Other
<1> DEFINE n == Invalidated(io)
<1>1. Good(io, active) /\ active \in Drives BY DEF Safety
<1>2. Good(n, active) /\ SameHeld(io, n) /\ n.wf = io.wf BY <1>1, InvalidatedGood
<1>3. io' = n /\ call' \in {"none", call} /\ answer'.kind \in {"done", "failed"}
  BY DEF WriteTable, Succeeds, Fails, Answer
<1>4. UNCHANGED <<active, busy, writes>> BY DEF WriteTable
<1> HIDE DEF n
<1>5. SamePlace(io, io') BY <1>2, <1>3 DEF SamePlace
<1> QED BY <1>1, <1>2, <1>3, <1>4, <1>5, EndsOther

LEMMA SeekStep ==
    ASSUME Safety, Seek
    PROVE  Safety' /\ Store!Other
<1> DEFINE n == [io EXCEPT !.rf = NoWindow]
<1>1. Good(io, active) /\ active \in Drives BY DEF Safety
<1>2. Good(n, active) /\ SameHeld(io, n) /\ n.wf = io.wf BY <1>1, DropWindowGood
<1>3. io' = n /\ call' = call /\ answer'.kind = "done" BY DEF Seek, Succeeds, Answer
<1>4. UNCHANGED <<active, busy, writes>> BY DEF Seek
<1> HIDE DEF n
<1>5. SamePlace(io, io') BY <1>2, <1>3 DEF SamePlace
<1> QED BY <1>1, <1>2, <1>3, <1>4, <1>5, EndsOther

LEMMA SaveStep ==
    ASSUME Safety, Save
    PROVE  Safety' /\ Store!Other
<1>1. Good(io, active) /\ active \in Drives BY DEF Safety
<1>2. PICK f \in Flushes(io) : IF f.ok THEN Succeeds(f.m, Answer("saved")) ELSE Fails(f.m)
  BY DEF Save
<1>3. /\ Good(f.m, active) /\ SameHeld(io, f.m) /\ SamePlace(io, f.m)
      /\ f.ok => ~Dirty(f.m)
  BY <1>1, FlushGood
<1>4. /\ io' = f.m /\ call' \in {"none", call} /\ answer'.kind \in {"saved", "failed"}
      /\ answer'.kind = "saved" => f.ok
  BY <1>2 DEF Succeeds, Fails, Answer
<1>5. UNCHANGED <<active, busy, writes>> BY DEF Save
<1>6. answer'.kind = "saved" => ~Dirty(io') BY <1>3, <1>4
<1> QED BY <1>1, <1>3, <1>4, <1>5, <1>6, EndsOther

LEMMA ResetDisksStep ==
    ASSUME Safety, ResetDisks
    PROVE  Safety' /\ Store!Other
<1>1. Good(io, active) /\ active \in Drives BY DEF Safety
<1>2. PICK f \in Flushes(io) :
         IF f.ok THEN Succeeds(Invalidated(f.m), Answer("saved")) ELSE Fails(f.m)
  BY DEF ResetDisks
<1>3. /\ Good(f.m, active) /\ SameHeld(io, f.m) /\ SamePlace(io, f.m)
      /\ f.ok => ~Dirty(f.m)
  BY <1>1, FlushGood
<1> DEFINE n == Invalidated(f.m)
<1>4. Good(n, active) /\ SameHeld(f.m, n) /\ n.wf = f.m.wf BY <1>3, InvalidatedGood
<1>5. UNCHANGED <<active, busy, writes>> BY DEF ResetDisks
<1>6. CASE f.ok
  <2>1. io' = n /\ call' = call /\ answer'.kind = "saved"
    BY <1>2, <1>6 DEF Succeeds, Answer
  <2> HIDE DEF n
  <2>2. SameHeld(io, n) /\ SamePlace(io, n) BY <1>3, <1>4 DEF SameHeld, SamePlace
  <2>3. ~Dirty(n) BY <1>3, <1>4, <1>6 DEF Dirty
  <2> QED BY <1>1, <1>4, <1>5, <2>1, <2>2, <2>3, EndsOther
<1>7. CASE ~f.ok
  <2>1. io' = f.m /\ call' = "none" /\ answer'.kind = "failed" BY <1>2, <1>7 DEF Fails, Answer
  <2> QED BY <1>1, <1>3, <1>5, <2>1, EndsOther
<1> QED BY <1>6, <1>7

(* A sector read by itself. *)
LEMMA OneRead ==
    ASSUME Safety, UNCHANGED <<active, call, busy, writes>>,
           Good(io', active), SameHeld(io, io'), SamePlace(io, io'),
           NEW s \in Sectors, NEW e, e = Holds(io, active, s), answer' = DataOf(s, <<e>>)
    PROVE  Safety' /\ Store!Read(active, s, s)
<1>1. s \in Nat BY DEF Sectors
<1> DEFINE q == [i \in 1 .. s - s + 1 |-> Holds(io, active, s + i - 1)]
<1>2. q = <<e>>
  <2>1. s - s + 1 = 1 /\ s + 1 - 1 = s BY <1>1
  <2>2. q = [i \in 1 .. 1 |-> Holds(io, active, s + i - 1)] BY <2>1
  <2>3. \A i \in 1 .. 1 : Holds(io, active, s + i - 1) = e
    <3> TAKE i \in 1 .. 1
    <3>1. i = 1 OBVIOUS
    <3> QED BY <2>1, <3>1
  <2>4. q = [i \in 1 .. 1 |-> e] BY <2>2, <2>3
  <2> HIDE DEF q
  <2> QED BY <2>4
<1> HIDE DEF q
<1>3. answer' = DataOf(s, q) BY <1>2
<1>4. s <= s BY <1>1
<1> QED BY <1>3, <1>4, EndsRead DEF q

(* Sectors that were transferred. *)
LEMMA OnDiskIs ==
    ASSUME NEW m, Good(m, active), ~Dirty(m), SameHeld(io, m), active \in Drives,
           NEW s \in Sectors, NEW n \in Nat \ {0}, s + n - 1 \in Sectors
    PROVE  /\ OnDisk(m, s, n) = [i \in 1 .. n |-> Holds(io, active, s + i - 1)]
           /\ OnDisk(m, s, n) = [i \in 1 .. n |-> Holds(m, active, s + i - 1)]
           /\ OnDisk(m, s, n) \in Seq(Content) /\ Len(OnDisk(m, s, n)) = n
<1>1. \A i \in 1 .. n : s + i - 1 \in Sectors BY SectorCacheAssumption DEF Sectors
<1>2. \A i \in 1 .. n : m.disk[active][s + i - 1] = Holds(m, active, s + i - 1)
  BY NothingUnsaved
<1>3. \A i \in 1 .. n : Holds(m, active, s + i - 1) = Holds(io, active, s + i - 1)
  BY <1>1 DEF SameHeld
<1>4. \A i \in 1 .. n : Holds(m, active, s + i - 1) \in Content
  BY <1>1, HeldIsContent DEF Good
<1>5. OnDisk(m, s, n) = [i \in 1 .. n |-> Holds(m, active, s + i - 1)] BY <1>2 DEF OnDisk
<1>6. OnDisk(m, s, n) = [i \in 1 .. n |-> Holds(io, active, s + i - 1)] BY <1>3, <1>5
<1> DEFINE q == OnDisk(m, s, n)
<1>7. q \in [1 .. n -> Content] BY <1>4, <1>5
<1> HIDE DEF q
<1>8. q \in Seq(Content) BY <1>7
<1>9. Len(q) = n BY <1>7, <1>8, LenProperties
<1> QED BY <1>5, <1>6, <1>8, <1>9 DEF q

LEMMA DirectReadStep ==
    ASSUME Safety, NEW s \in Sectors, NEW n \in 2 .. LastSector + 1, DirectRead(s, n)
    PROVE  Safety' /\ (Store!Other \/ \E last \in Sectors : Store!Read(active, s, last))
<1>1. Good(io, active) /\ active \in Drives BY DEF Safety
<1>2. PICK r \in Reads(io) :
         IF r.ok THEN Succeeds(r.m, DataOf(s, OnDisk(r.m, s, n))) ELSE Fails(r.m)
  BY DEF DirectRead
<1>3. /\ Good(r.m, active) /\ SameHeld(io, r.m) /\ SamePlace(io, r.m)
      /\ r.ok => ~Dirty(r.m)
  BY <1>1, ReadsGood
<1>4. UNCHANGED <<active, busy, writes>> BY DEF DirectRead
<1>5. CASE r.ok
  <2>1. io' = r.m /\ call' = call /\ answer' = DataOf(s, OnDisk(r.m, s, n))
    BY <1>2, <1>5 DEF Succeeds
  <2> DEFINE last == s + n - 1
  <2>2. n \in Nat \ {0} /\ s \in Nat BY SectorCacheAssumption DEF Sectors
  <2>3. last \in Sectors /\ s <= last /\ n = last - s + 1
    <3>1. last \in Sectors BY DEF DirectRead
    <3> QED BY <2>2, <3>1
  <2>4. OnDisk(r.m, s, n) = [i \in 1 .. n |-> Holds(io, active, s + i - 1)]
    BY <1>1, <1>3, <1>5, <2>2, <2>3, OnDiskIs
  <2> HIDE DEF last
  <2>5. answer' = DataOf(s, [i \in 1 .. last - s + 1 |-> Holds(io, active, s + i - 1)])
    BY <2>1, <2>3, <2>4
  <2> QED BY <1>3, <1>4, <2>1, <2>3, <2>5, EndsRead
<1>6. CASE ~r.ok
  <2>1. io' = r.m /\ call' = "none" /\ answer'.kind = "failed" BY <1>2, <1>6 DEF Fails, Answer
  <2> QED BY <1>1, <1>3, <1>4, <2>1, EndsOther
<1> QED BY <1>5, <1>6

(* A sector of a subdirectory, when it could be loaded. *)
LEMMA LoadsGood ==
    ASSUME Good(io, active), active \in Drives, NEW s \in Sectors, NEW l \in Loads(s)
    PROVE  /\ l.ok \in BOOLEAN /\ Good(l.m, active) /\ SameHeld(io, l.m) /\ SamePlace(io, l.m)
           /\ l.ok => l.buf = Holds(io, active, s) /\ ~Dirty(l.m)
<1>1. PICK f \in Flushes(io) :
         l \in IF ~f.ok THEN {[ok |-> FALSE, m |-> f.m, buf |-> Blank]}
               ELSE IF Hits(f.m, s) # {}
               THEN {[ok |-> TRUE, m |-> f.m, buf |-> f.m.sub[First(Hits(f.m, s))].buf]}
               ELSE {[ok |-> FALSE, m |-> f.m, buf |-> Blank],
                     [ok |-> TRUE, m |-> SlotFilled(f.m, s), buf |-> f.m.disk[active][s]]}
  BY DEF Loads
<1>2. /\ Good(f.m, active) /\ SameHeld(io, f.m) /\ SamePlace(io, f.m)
      /\ f.ok => ~Dirty(f.m)
  BY FlushGood
<1>3. CASE l = [ok |-> FALSE, m |-> f.m, buf |-> Blank]
  <2>1. l.m = f.m /\ l.ok = FALSE BY <1>3
  <2> QED BY <1>2, <2>1
<1>4. CASE f.ok /\ Hits(f.m, s) # {}
           /\ l = [ok |-> TRUE, m |-> f.m, buf |-> f.m.sub[First(Hits(f.m, s))].buf]
  <2> DEFINE i == First(Hits(f.m, s))
  <2>1. Hits(f.m, s) \subseteq Nat BY DEF Hits, Slots
  <2>2. \E j \in Hits(f.m, s) : \A k \in Hits(f.m, s) : j <= k
    <3> DEFINE H == Hits(f.m, s)
    <3>1. H \subseteq Nat /\ H # {} BY <1>4, <2>1
    <3> HIDE DEF H
    <3>2. PICK j \in H : \A k \in H : ~(<<k, j>> \in OpToRel(<, Nat))
      BY <3>1, NatLessThanWellFounded, WFMin
    <3>3. \A k \in H : ~(k < j) BY <3>1, <3>2 DEF OpToRel
    <3>4. \A k \in H : j <= k BY <3>1, <3>3
    <3> QED BY <3>4 DEF H
  <2>3. i \in Hits(f.m, s) BY <2>2 DEF First
  <2> HIDE DEF i
  <2>4. i \in Slots /\ f.m.sub[i].valid /\ f.m.sub[i].drive = active /\ f.m.sub[i].lba = s
    BY <2>3 DEF Hits, Names
  <2>5. f.m.sub[i].buf = Holds(f.m, active, s) BY <1>2, <2>4 DEF Good, Agrees
  <2>6. l.ok = TRUE /\ l.m = f.m /\ l.buf = f.m.sub[i].buf BY <1>4 DEF i
  <2> QED BY <1>2, <1>4, <2>5, <2>6 DEF SameHeld
<1>5. CASE f.ok /\ l = [ok |-> TRUE, m |-> SlotFilled(f.m, s), buf |-> f.m.disk[active][s]]
  <2> DEFINE n == SlotFilled(f.m, s)
  <2>1. Good(n, active) /\ SameHeld(f.m, n) /\ n.wf = f.m.wf BY <1>2, <1>5, SlotFilledGood
  <2>2. l.ok = TRUE /\ l.m = n /\ l.buf = f.m.disk[active][s] BY <1>5
  <2> HIDE DEF n
  <2>3. f.m.disk[active][s] = Holds(f.m, active, s) BY <1>2, <1>5, NothingUnsaved
  <2>4. SameHeld(io, n) /\ SamePlace(io, n) BY <1>2, <2>1 DEF SameHeld, SamePlace
  <2>5. Holds(f.m, active, s) = Holds(io, active, s) BY <1>2 DEF SameHeld
  <2>6. ~Dirty(n) BY <1>2, <1>5, <2>1 DEF Dirty
  <2> QED BY <2>1, <2>2, <2>3, <2>4, <2>5, <2>6
<1>6. \/ l = [ok |-> FALSE, m |-> f.m, buf |-> Blank]
      \/ f.ok /\ Hits(f.m, s) # {}
         /\ l = [ok |-> TRUE, m |-> f.m, buf |-> f.m.sub[First(Hits(f.m, s))].buf]
      \/ f.ok /\ l = [ok |-> TRUE, m |-> SlotFilled(f.m, s), buf |-> f.m.disk[active][s]]
  BY <1>1
<1> QED BY <1>3, <1>4, <1>5, <1>6

LEMMA LoadDirStep ==
    ASSUME Safety, NEW s \in Sectors, LoadDir(s)
    PROVE  Safety' /\ (Store!Other \/ Store!Read(active, s, s))
<1>1. Good(io, active) /\ active \in Drives BY DEF Safety
<1>2. PICK l \in Loads(s) : IF l.ok THEN Succeeds(l.m, DataOf(s, <<l.buf>>)) ELSE Fails(l.m)
  BY DEF LoadDir
<1>3. /\ Good(l.m, active) /\ SameHeld(io, l.m) /\ SamePlace(io, l.m)
      /\ l.ok => l.buf = Holds(io, active, s)
  BY <1>1, LoadsGood
<1>4. UNCHANGED <<active, busy, writes>> BY DEF LoadDir
<1>5. CASE l.ok
  <2>1. io' = l.m /\ call' = call /\ answer' = DataOf(s, <<l.buf>>)
    BY <1>2, <1>5 DEF Succeeds
  <2> QED BY <1>3, <1>4, <1>5, <2>1, OneRead
<1>6. CASE ~l.ok
  <2>1. io' = l.m /\ call' = "none" /\ answer'.kind = "failed" BY <1>2, <1>6 DEF Fails, Answer
  <2> QED BY <1>1, <1>3, <1>4, <2>1, EndsOther
<1> QED BY <1>5, <1>6

LEMMA ReadChunkStep ==
    ASSUME Safety, NEW s \in Sectors, ReadChunk(s)
    PROVE  Safety' /\ (Store!Other \/ Store!Read(active, s, s))
<1>1. Good(io, active) /\ active \in Drives BY DEF Safety
<1>2. UNCHANGED <<active, busy, writes>> BY DEF ReadChunk
<1>3. s \in Nat /\ LastSector \in Nat /\ s <= LastSector /\ READ_CACHE_SECTORS \in Nat \ {0}
  BY SectorCacheAssumption DEF Sectors
<1>4. CASE InWindow(s)
  <2> DEFINE e == io.rf.buf[s - io.rf.lba + 1]
  <2>1. io' = io /\ call' = call /\ answer' = DataOf(s, <<e>>)
    BY <1>4 DEF ReadChunk, Succeeds
  <2>2. io.rf.valid /\ io.rf.drive = active /\ s \in io.rf.lba .. io.rf.lba + Len(io.rf.buf) - 1
    BY <1>4 DEF InWindow
  <2>3. io.rf.lba \in Nat /\ Len(io.rf.buf) \in Nat
    BY <1>1 DEF Good, Caches, Windows, Sectors
  <2>4. /\ s - io.rf.lba + 1 \in 1 .. Len(io.rf.buf)
        /\ io.rf.lba + (s - io.rf.lba + 1) - 1 = s
    <3> DEFINE b == io.rf.lba
               k == Len(io.rf.buf)
    <3>1. b \in Nat /\ k \in Nat /\ s \in b .. b + k - 1 BY <2>2, <2>3
    <3> HIDE DEF b, k
    <3>2. s - b + 1 \in 1 .. k /\ b + (s - b + 1) - 1 = s BY <1>3, <3>1
    <3> QED BY <3>2 DEF b, k
  <2>5. e = Holds(io, active, s) BY <1>1, <2>2, <2>4 DEF Good, Agrees
  <2> HIDE DEF e
  <2>6. SameHeld(io, io') /\ SamePlace(io, io') BY <2>1 DEF SameHeld, SamePlace
  <2> QED BY <1>1, <1>2, <2>1, <2>5, <2>6, OneRead
<1>5. CASE ~InWindow(s)
  <2> DEFINE m == [io EXCEPT !.rf = NoWindow]
  <2>1. Good(m, active) /\ SameHeld(io, m) /\ m.wf = io.wf BY <1>1, DropWindowGood
  <2>2. PICK n \in Ahead(s) :
           IF Names(m.wf, s)
           THEN \E f \in Flushes(m) :
                   IF f.ok
                   THEN Succeeds([f.m EXCEPT !.rf = Window(s, <<f.m.wf.buf>>)],
                                 DataOf(s, <<f.m.wf.buf>>))
                   ELSE Fails(f.m)
           ELSE \E r \in Reads(m) :
                   IF r.ok
                   THEN Succeeds([r.m EXCEPT !.rf = Window(s, OnDisk(r.m, s, n))],
                                 DataOf(s, OnDisk(r.m, s, 1)))
                   ELSE Fails(r.m)
    BY <1>5 DEF ReadChunk
  <2> HIDE DEF m
  <2>3. n \in 1 .. READ_CACHE_SECTORS /\ s + n - 1 \in Sectors
    <3>1. 1 \in 1 .. READ_CACHE_SECTORS /\ s + 1 - 1 \in Sectors BY <1>3 DEF Sectors
    <3> QED BY <3>1 DEF Ahead
  <2>4. CASE Names(m.wf, s)
    <3>1. PICK f \in Flushes(m) :
             IF f.ok
             THEN Succeeds([f.m EXCEPT !.rf = Window(s, <<f.m.wf.buf>>)],
                           DataOf(s, <<f.m.wf.buf>>))
             ELSE Fails(f.m)
      BY <2>2, <2>4
    <3>2. Good(f.m, active) /\ SameHeld(m, f.m) /\ SamePlace(m, f.m)
      BY <1>1, <2>1, FlushGood
    <3>3. SameHeld(io, f.m) /\ SamePlace(io, f.m) BY <2>1, <3>2 DEF SameHeld, SamePlace
    <3>4. CASE f.ok
      <4> DEFINE e == f.m.wf.buf
                 n2 == [f.m EXCEPT !.rf = Window(s, <<e>>)]
      <4>1. io' = n2 /\ call' = call /\ answer' = DataOf(s, <<e>>)
        BY <3>1, <3>4 DEF Succeeds
      <4>2. f.m.wf.valid /\ f.m.wf.drive = active /\ f.m.wf.lba = s
        BY <2>4, <3>2 DEF Names, SamePlace
      <4>3. e = Holds(f.m, active, s) BY <3>2, <4>2 DEF Good, Agrees
      <4>4. e \in Content BY <3>2 DEF Good, Caches, Written
      <4> HIDE DEF e
      <4> DEFINE q == <<e>>
      <4>5. q \in Seq(Content) /\ Len(q) = 1 /\ q[1] = e BY <4>4
      <4>6. q = <<e>> OBVIOUS
      <4> HIDE DEF q
      <4>7. \A i \in 1 .. Len(q) : q[i] = Holds(f.m, active, s + i - 1)
        <5> TAKE i \in 1 .. Len(q)
        <5>1. i = 1 /\ s + i - 1 = s BY <1>3, <4>5
        <5> QED BY <4>3, <4>5, <5>1
      <4>8. s + Len(q) <= LastSector + 1 /\ Len(q) <= READ_CACHE_SECTORS BY <1>3, <4>5
      <4>9. Good(n2, active) /\ SameHeld(f.m, n2) /\ n2.wf = f.m.wf
        <5> DEFINE n3 == [f.m EXCEPT !.rf = Window(s, q)]
        <5>1. Good(n3, active) /\ SameHeld(f.m, n3) /\ n3.wf = f.m.wf
          BY <1>1, <3>2, <4>5, <4>7, <4>8, WindowGood
        <5>2. n2 = n3 BY <4>6
        <5> QED BY <5>1, <5>2
      <4> HIDE DEF n2
      <4>10. SameHeld(io, n2) /\ SamePlace(io, n2) BY <3>3, <4>9 DEF SameHeld, SamePlace
      <4>11. e = Holds(io, active, s) BY <1>1, <3>3, <4>3 DEF SameHeld
      <4> QED BY <1>2, <4>1, <4>9, <4>10, <4>11, OneRead
    <3>5. CASE ~f.ok
      <4>1. io' = f.m /\ call' = "none" /\ answer'.kind = "failed"
        BY <3>1, <3>5 DEF Fails, Answer
      <4> QED BY <1>1, <1>2, <3>2, <3>3, <4>1, EndsOther
    <3> QED BY <3>4, <3>5
  <2>5. CASE ~Names(m.wf, s)
    <3>1. PICK r \in Reads(m) :
             IF r.ok
             THEN Succeeds([r.m EXCEPT !.rf = Window(s, OnDisk(r.m, s, n))],
                           DataOf(s, OnDisk(r.m, s, 1)))
             ELSE Fails(r.m)
      BY <2>2, <2>5
    <3>2. /\ Good(r.m, active) /\ SameHeld(m, r.m) /\ SamePlace(m, r.m)
          /\ r.ok => ~Dirty(r.m)
      BY <1>1, <2>1, ReadsGood
    <3>3. SameHeld(io, r.m) /\ SamePlace(io, r.m) BY <2>1, <3>2 DEF SameHeld, SamePlace
    <3>4. CASE r.ok
      <4> DEFINE q == OnDisk(r.m, s, n)
                 n2 == [r.m EXCEPT !.rf = Window(s, q)]
      <4>1. io' = n2 /\ call' = call /\ answer' = DataOf(s, OnDisk(r.m, s, 1))
        BY <3>1, <3>4 DEF Succeeds
      <4>2. n \in Nat \ {0} BY <2>3
      <4>3. /\ q = [i \in 1 .. n |-> Holds(r.m, active, s + i - 1)]
            /\ q \in Seq(Content) /\ Len(q) = n
        BY <1>1, <2>3, <3>2, <3>3, <3>4, <4>2, OnDiskIs
      <4> HIDE DEF q
      <4>4. \A i \in 1 .. Len(q) : q[i] = Holds(r.m, active, s + i - 1) BY <4>3
      <4>5. s + Len(q) <= LastSector + 1 /\ Len(q) <= READ_CACHE_SECTORS
        BY <1>3, <2>3, <4>3 DEF Sectors
      <4>6. Good(n2, active) /\ SameHeld(r.m, n2) /\ n2.wf = r.m.wf
        <5>1. s \in Sectors /\ active \in Drives /\ Good(r.m, active) BY <1>1, <2>3, <3>2
        <5> QED BY <4>3, <4>4, <4>5, <5>1, WindowGood, Zenon
      <4> HIDE DEF n2
      <4>7. SameHeld(io, n2) /\ SamePlace(io, n2) BY <3>3, <4>6 DEF SameHeld, SamePlace
      <4>8. 1 \in Nat \ {0} /\ s + 1 - 1 \in Sectors /\ s - s + 1 = 1 /\ s <= s
        BY <1>3 DEF Sectors
      <4>9. OnDisk(r.m, s, 1) = [i \in 1 .. 1 |-> Holds(io, active, s + i - 1)]
        BY <1>1, <3>2, <3>3, <3>4, <4>8, OnDiskIs
      <4>10. answer' = DataOf(s, [i \in 1 .. s - s + 1 |-> Holds(io, active, s + i - 1)])
        BY <4>1, <4>8, <4>9
      <4> QED BY <1>2, <4>1, <4>6, <4>7, <4>8, <4>10, EndsRead
    <3>5. CASE ~r.ok
      <4>1. io' = r.m /\ call' = "none" /\ answer'.kind = "failed"
        BY <3>1, <3>5 DEF Fails, Answer
      <4> QED BY <1>1, <1>2, <3>2, <3>3, <4>1, EndsOther
    <3> QED BY <3>4, <3>5
  <2> QED BY <2>4, <2>5
<1> QED BY <1>4, <1>5

LEMMA OverIsContent ==
    ASSUME writes \in 0 .. MaxWrites, writes < MaxWrites, NEW old \in Content, NEW ps
    PROVE  Over(old, ps) \in Content
<1>1. writes + 1 \in Data BY SectorCacheAssumption DEF Data
<1>2. \A p \in Parts : old[p] \in Data BY DEF Content
<1> QED BY <1>1, <1>2 DEF Over, Content

(* A sector written whole does not depend on what it held. *)
LEMMA OverAll ==
    ASSUME NEW a, NEW b
    PROVE  Over(a, Parts) = Over(b, Parts)
BY DEF Over

(* A directory sector is written: it is not the one of an open file that   *)
(* could not be saved.                                                     *)
LEMMA DirWriteStep ==
    ASSUME Safety, call = "other", writes < MaxWrites, UNCHANGED <<active, busy>>,
           NEW s \in Sectors, MayBeDirectory(s), NEW ps \in SUBSET Parts,
           NEW m, Good(m, active), SameHeld(io, m), SamePlace(io, m),
           NEW data \in Content, data = Over(Holds(io, active, s), ps), DirWrite(m, s, data)
    PROVE  Safety' /\ (Store!Other \/ Store!Write(active, s, ps, writes + 1))
<1>1. active \in Drives BY DEF Safety
<1>2. ~(m.wf.valid /\ m.wf.drive = active /\ m.wf.lba = s)
  BY DEF Safety, BusyRule, SamePlace, MayBeDirectory
<1> DEFINE W(ok) == WriteSector(m, s, data, ok)
<1>3. \A ok \in BOOLEAN :
         /\ Good(W(ok), active) /\ W(ok).wf = m.wf
         /\ \A d \in Drives, x \in Sectors :
               Holds(W(ok), d, x) = IF ok /\ d = active /\ x = s THEN data ELSE Holds(m, d, x)
  BY <1>1, <1>2, WriteSectorGood
<1> HIDE DEF W
<1>4. CASE Fails(WriteSector(m, s, data, FALSE)) /\ UNCHANGED writes
  <2> DEFINE n == W(FALSE)
  <2>1. /\ Good(n, active) /\ n.wf = m.wf
        /\ \A d \in Drives, x \in Sectors :
              Holds(n, d, x) = IF FALSE /\ d = active /\ x = s THEN data ELSE Holds(m, d, x)
    BY <1>3
  <2>2. io' = n /\ call' = "none" /\ answer'.kind = "failed" BY <1>4 DEF Fails, Answer, W
  <2> HIDE DEF n
  <2>3. SameHeld(io, n) /\ SamePlace(io, n) BY <2>1 DEF SameHeld, SamePlace
  <2> QED BY <1>1, <1>4, <2>1, <2>2, <2>3, EndsOther
<1>5. CASE Succeeds(WriteSector(m, s, data, TRUE), Answer("done")) /\ writes' = writes + 1
  <2> DEFINE n == W(TRUE)
  <2>1. /\ Good(n, active) /\ n.wf = m.wf
        /\ \A d \in Drives, x \in Sectors :
              Holds(n, d, x) = IF TRUE /\ d = active /\ x = s THEN data ELSE Holds(m, d, x)
    BY <1>3
  <2>2. io' = n /\ call' = call /\ answer'.kind = "done" BY <1>5 DEF Succeeds, Answer, W
  <2> HIDE DEF n
  <2>3. SamePlace(io, n) BY <2>1 DEF SamePlace
  <2>4. \A d \in Drives, x \in Sectors :
           Holds(n, d, x) = IF d = active /\ x = s THEN Over(Holds(io, active, s), ps)
                            ELSE Holds(io, d, x)
    BY <2>1 DEF SameHeld
  <2> QED BY <1>5, <2>1, <2>2, <2>3, <2>4, EndsWrite
<1> QED BY <1>4, <1>5 DEF DirWrite

LEMMA UpdateDirStep ==
    ASSUME Safety, NEW s \in Sectors, NEW ps \in SUBSET Parts, UpdateDir(s, ps)
    PROVE  Safety' /\ (Store!Other \/ Store!Write(active, s, ps, writes + 1))
<1>1. Good(io, active) /\ active \in Drives /\ writes \in 0 .. MaxWrites BY DEF Safety
<1>2. call = "other" /\ writes < MaxWrites /\ MayBeDirectory(s) /\ UNCHANGED <<active, busy>>
  BY DEF UpdateDir
<1>3. PICK l \in Loads(s) :
         IF l.ok THEN DirWrite(l.m, s, Over(l.buf, ps)) ELSE Fails(l.m) /\ UNCHANGED writes
  BY DEF UpdateDir
<1>4. /\ Good(l.m, active) /\ SameHeld(io, l.m) /\ SamePlace(io, l.m)
      /\ l.ok => l.buf = Holds(io, active, s)
  BY <1>1, LoadsGood
<1>5. CASE l.ok
  <2>1. Over(l.buf, ps) = Over(Holds(io, active, s), ps) BY <1>4, <1>5
  <2>2. Holds(io, active, s) \in Content BY <1>1, HeldIsContent DEF Good
  <2>3. Over(l.buf, ps) \in Content BY <1>1, <1>2, <2>1, <2>2, OverIsContent
  <2>4. DirWrite(l.m, s, Over(l.buf, ps)) BY <1>3, <1>5
  <2> QED BY <1>2, <1>4, <2>1, <2>3, <2>4, DirWriteStep
<1>6. CASE ~l.ok
  <2>1. io' = l.m /\ call' = "none" /\ answer'.kind = "failed" /\ UNCHANGED writes
    BY <1>3, <1>6 DEF Fails, Answer
  <2> QED BY <1>1, <1>2, <1>4, <2>1, EndsOther
<1> QED BY <1>5, <1>6

LEMMA NewDirStep ==
    ASSUME Safety, NEW s \in Sectors, NewDir(s)
    PROVE  Safety' /\ (Store!Other \/ Store!Write(active, s, Parts, writes + 1))
<1>1. Good(io, active) /\ active \in Drives /\ writes \in 0 .. MaxWrites BY DEF Safety
<1>2. /\ call = "other" /\ writes < MaxWrites /\ MayBeDirectory(s) /\ UNCHANGED <<active, busy>>
      /\ DirWrite(io, s, Over(Blank, Parts))
  BY DEF NewDir
<1>3. Over(Blank, Parts) \in Content BY <1>1, <1>2, Blanks, OverIsContent
<1>4. Over(Blank, Parts) = Over(Holds(io, active, s), Parts) BY OverAll
<1>5. SameHeld(io, io) /\ SamePlace(io, io) BY DEF SameHeld, SamePlace
<1>6. Parts \in SUBSET Parts OBVIOUS
<1> QED BY <1>1, <1>2, <1>3, <1>4, <1>5, <1>6, DirWriteStep

(* A chunk is copied into the window, and on a floppy saved at once.       *)
LEMMA KeptStep ==
    ASSUME Safety, call = "write", writes < MaxWrites, writes' = writes + 1,
           UNCHANGED <<active, busy>>, NEW s \in Sectors, NEW ps \in SUBSET Parts,
           NEW m, Good(m, active), SameHeld(io, m), Dirty(m) => m.wf.lba = s,
           NEW old, Over(old, ps) = Over(Holds(io, active, s), ps), Kept(m, s, ps, old)
    PROVE  Safety' /\ Store!Write(active, s, ps, writes + 1)
<1>1. Good(io, active) /\ active \in Drives /\ writes \in 0 .. MaxWrites BY DEF Safety
<1> DEFINE data == Over(old, ps)
           n == Marked(m, s, data)
<1>2. data \in Content
  <2>1. Holds(io, active, s) \in Content BY <1>1, HeldIsContent DEF Good
  <2> QED BY <1>1, <2>1, OverIsContent
<1> HIDE DEF data
<1>3. /\ Good(n, active)
      /\ \A d \in Drives, x \in Sectors :
            Holds(n, d, x) = IF d = active /\ x = s THEN data ELSE Holds(m, d, x)
  BY <1>1, <1>2, MarkedGood
<1>4. IF active \in Floppies
      THEN \E f \in Flushes(n) : IF f.ok THEN Succeeds(f.m, Answer("done")) ELSE Fails(f.m)
      ELSE Succeeds(n, Answer("done"))
  BY DEF Kept, data
<1> HIDE DEF n
<1>5. \A d \in Drives, x \in Sectors :
         Holds(n, d, x) = IF d = active /\ x = s THEN Over(Holds(io, active, s), ps)
                          ELSE Holds(io, d, x)
  BY <1>3 DEF SameHeld, data
<1>6. Good(io', active) /\ SameHeld(n, io') /\ call' \in {"none", call}
      /\ answer'.kind \in {"done", "failed"}
  <2>1. CASE active \in Floppies
    <3>1. PICK f \in Flushes(n) : IF f.ok THEN Succeeds(f.m, Answer("done")) ELSE Fails(f.m)
      BY <1>4, <2>1
    <3>2. Good(f.m, active) /\ SameHeld(n, f.m) BY <1>1, <1>3, FlushGood
    <3>3. io' = f.m /\ call' \in {"none", call} /\ answer'.kind \in {"done", "failed"}
      BY <3>1 DEF Succeeds, Fails, Answer
    <3> QED BY <3>2, <3>3
  <2>2. CASE active \notin Floppies
    <3>1. io' = n /\ call' = call /\ answer'.kind = "done"
      BY <1>4, <2>2 DEF Succeeds, Answer
    <3> QED BY <1>3, <3>1 DEF SameHeld
  <2> QED BY <2>1, <2>2
<1>7. \A d \in Drives, x \in Sectors :
         Holds(io', d, x) = IF d = active /\ x = s THEN Over(Holds(io, active, s), ps)
                            ELSE Holds(io, d, x)
  BY <1>5, <1>6 DEF SameHeld
<1> QED BY <1>6, <1>7, EndsWrite

LEMMA WriteChunkStep ==
    ASSUME Safety, NEW s \in Sectors, NEW ps \in SUBSET Parts, WriteChunk(s, ps)
    PROVE  Safety' /\ (Store!Other \/ Store!Write(active, s, ps, writes + 1))
<1>1. Good(io, active) /\ active \in Drives /\ writes \in 0 .. MaxWrites BY DEF Safety
<1>2. call = "write" /\ writes < MaxWrites /\ UNCHANGED <<active, busy>> BY DEF WriteChunk
<1>3. PICK r \in Prepares(s) :
         IF ~r.ok THEN Fails(r.m) /\ UNCHANGED writes
         ELSE IF ps = Parts \/ r.m.wf.valid
         THEN Kept(r.m, s, ps, r.m.wf.buf) /\ writes' = writes + 1
         ELSE \/ Fails(r.m) /\ UNCHANGED writes
              \/ Kept(r.m, s, ps, io.disk[active][s]) /\ writes' = writes + 1
  BY DEF WriteChunk
<1>4. /\ r.ok \in BOOLEAN /\ Good(r.m, active) /\ SameHeld(io, r.m)
      /\ r.ok /\ r.m.wf.valid => Names(r.m.wf, s) /\ r.m.wf.buf = Holds(io, active, s)
      /\ r.ok /\ ~r.m.wf.valid => io.disk[active][s] = Holds(io, active, s)
  BY <1>1, PreparesGood
<1>5. CASE Fails(r.m) /\ UNCHANGED writes
  <2>1. io' = r.m /\ call' = "none" /\ answer'.kind = "failed" BY <1>5 DEF Fails, Answer
  <2> QED BY <1>1, <1>2, <1>4, <1>5, <2>1, EndsOther
<1>6. CASE r.ok /\ (ps = Parts \/ r.m.wf.valid)
           /\ Kept(r.m, s, ps, r.m.wf.buf) /\ writes' = writes + 1
  <2>1. Over(r.m.wf.buf, ps) = Over(Holds(io, active, s), ps)
    <3>1. CASE ps = Parts BY <3>1, OverAll
    <3>2. CASE r.m.wf.valid BY <1>4, <1>6, <3>2
    <3> QED BY <1>6, <3>1, <3>2
  <2>2. Dirty(r.m) => r.m.wf.lba = s BY <1>4, <1>6 DEF Dirty, Names
  <2> QED BY <1>2, <1>4, <1>6, <2>1, <2>2, KeptStep
<1>7. CASE r.ok /\ ~r.m.wf.valid
           /\ Kept(r.m, s, ps, io.disk[active][s]) /\ writes' = writes + 1
  <2>1. Over(io.disk[active][s], ps) = Over(Holds(io, active, s), ps) BY <1>4, <1>7
  <2>2. ~Dirty(r.m) BY <1>7 DEF Dirty
  <2> QED BY <1>2, <1>4, <1>7, <2>1, <2>2, KeptStep
<1> QED BY <1>3, <1>4, <1>5, <1>6, <1>7

-----------------------------------------------------------------------------
LEMMA InitIsSafe ==
    ASSUME Init
    PROVE  Safety /\ Store!Init
<1>1. /\ io = [disk |-> [d \in Drives |-> [s \in Sectors |-> Blank]],
               wf |-> NoSector, rf |-> NoWindow, sub |-> [i \in Slots |-> NoSlot], next |-> 0]
      /\ active \in Drives /\ call = "none" /\ busy = {} /\ answer = Answer("done")
      /\ writes = 0
  BY DEF Init
<1> DEFINE D == [d \in Drives |-> [s \in Sectors |-> Blank]]
           U == [i \in Slots |-> NoSlot]
<1>2. D \in Disks BY Blanks DEF Disks
<1>3. U \in [Slots -> SubSlots] /\ \A i \in Slots : U[i] = NoSlot BY Blanks
<1> HIDE DEF D, U
<1>4. /\ io.disk = D /\ io.wf = NoSector /\ io.rf = NoWindow /\ io.sub = U /\ io.next = 0
      /\ io \in Caches
  BY <1>1, <1>2, <1>3, Blanks DEF Caches, D, U
<1>5. Agrees(io, active) BY <1>3, <1>4, Blanks DEF Agrees, Dirty
<1>6. Good(io, active) BY <1>4, <1>5, Blanks DEF Good
<1>7. answer.kind = "done" BY <1>1 DEF Answer
<1>8. Safety
  <2>1. writes \in 0 .. MaxWrites BY <1>1, SectorCacheAssumption
  <2>2. BusyRule /\ SavedRule BY <1>1, <1>7 DEF BusyRule, SavedRule
  <2> QED BY <1>1, <1>6, <1>7, <2>1, <2>2 DEF Safety
<1>9. Stored \in [Drives -> [Sectors -> [Parts -> Data]]]
  <2>1. \A d \in Drives, s \in Sectors : Holds(io, d, s) \in Content BY <1>4, HeldIsContent
  <2> QED BY <2>1, StoredIs DEF Content
<1> QED BY <1>7, <1>8, <1>9 DEF Store!Init

LEMMA StepIsSafe ==
    ASSUME Safety, Next
    PROVE  Safety' /\ Store!Next
<1>1. ASSUME NEW k \in {"write", "other"}, Enter(k) PROVE Safety' /\ Store!Next
  BY <1>1, EnterStep DEF Store!Next
<1>2. ASSUME NEW d \in Drives, Switch(d) PROVE Safety' /\ Store!Next
  BY <1>2, SwitchStep DEF Store!Next
<1>3. CASE ReadTable BY <1>3, ReadTableStep DEF Store!Next
<1>4. CASE WriteTable BY <1>4, WriteTableStep DEF Store!Next
<1>5. active \in Drives BY DEF Safety
<1>6. ASSUME NEW s \in Sectors, NEW ps \in SUBSET Parts, writes < MaxWrites,
             Store!Write(active, s, ps, writes + 1)
      PROVE  Store!Next
  <2>1. writes + 1 \in Data BY <1>6, SectorCacheAssumption DEF Safety, Data
  <2> QED BY <1>5, <1>6, <2>1 DEF Store!Next
<1>7. ASSUME NEW s \in Sectors, NEW last \in Sectors, Store!Read(active, s, last)
      PROVE  Store!Next
  BY <1>5, <1>7 DEF Store!Next
<1>8. ASSUME NEW s \in Sectors, NEW ps \in SUBSET Parts, WriteChunk(s, ps)
      PROVE  Safety' /\ Store!Next
  <2>1. writes < MaxWrites BY <1>8 DEF WriteChunk
  <2>2. Safety' /\ (Store!Other \/ Store!Write(active, s, ps, writes + 1))
    BY <1>8, WriteChunkStep
  <2>3. Store!Other => Store!Next BY DEF Store!Next
  <2> QED BY <1>6, <2>1, <2>2, <2>3
<1>9. ASSUME NEW s \in Sectors, NEW ps \in SUBSET Parts, UpdateDir(s, ps)
      PROVE  Safety' /\ Store!Next
  <2>1. writes < MaxWrites BY <1>9 DEF UpdateDir
  <2>2. Safety' /\ (Store!Other \/ Store!Write(active, s, ps, writes + 1))
    BY <1>9, UpdateDirStep
  <2>3. Store!Other => Store!Next BY DEF Store!Next
  <2> QED BY <1>6, <2>1, <2>2, <2>3
<1>10. ASSUME NEW s \in Sectors, NewDir(s) PROVE Safety' /\ Store!Next
  <2>1. writes < MaxWrites BY <1>10 DEF NewDir
  <2>2. Safety' /\ (Store!Other \/ Store!Write(active, s, Parts, writes + 1))
    BY <1>10, NewDirStep
  <2>3. Store!Other => Store!Next BY DEF Store!Next
  <2>4. Parts \in SUBSET Parts OBVIOUS
  <2> QED BY <1>6, <2>1, <2>2, <2>3, <2>4
<1>11. ASSUME NEW s \in Sectors, ReadChunk(s) PROVE Safety' /\ Store!Next
  <2>1. Safety' /\ (Store!Other \/ Store!Read(active, s, s)) BY <1>11, ReadChunkStep
  <2>2. Store!Other => Store!Next BY DEF Store!Next
  <2> QED BY <1>7, <2>1, <2>2
<1>12. ASSUME NEW s \in Sectors, LoadDir(s) PROVE Safety' /\ Store!Next
  <2>1. Safety' /\ (Store!Other \/ Store!Read(active, s, s)) BY <1>12, LoadDirStep
  <2>2. Store!Other => Store!Next BY DEF Store!Next
  <2> QED BY <1>7, <2>1, <2>2
<1>13. ASSUME NEW s \in Sectors, NEW n \in 2 .. LastSector + 1, DirectRead(s, n)
       PROVE  Safety' /\ Store!Next
  <2>1. Safety' /\ (Store!Other \/ \E last \in Sectors : Store!Read(active, s, last))
    BY <1>13, DirectReadStep
  <2>2. Store!Other => Store!Next BY DEF Store!Next
  <2> QED BY <1>7, <2>1, <2>2
<1>14. CASE Seek BY <1>14, SeekStep DEF Store!Next
<1>15. CASE Save BY <1>15, SaveStep DEF Store!Next
<1>16. CASE ResetDisks BY <1>16, ResetDisksStep DEF Store!Next
<1> QED BY <1>1, <1>2, <1>3, <1>4, <1>8, <1>9, <1>10, <1>11, <1>12, <1>13, <1>14, <1>15, <1>16
        DEF Next

LEMMA Stutter ==
    ASSUME Safety, UNCHANGED vars
    PROVE  Safety' /\ UNCHANGED Store!vars
<1>1. UNCHANGED <<io, active, call, busy, answer, writes>> BY DEF vars
<1>2. SameHeld(io, io') BY <1>1 DEF SameHeld
<1>3. Stored' = Stored BY <1>2, StoredSame
<1>4. Good(io, active)' BY <1>1 DEF Safety
<1>5. BusyRule' /\ SavedRule' BY <1>1 DEF Safety, BusyRule, SavedRule
<1> QED BY <1>1, <1>3, <1>4, <1>5 DEF Safety, Store!vars

THEOREM Safe == Spec => []Safety
<1>1. Init => Safety BY InitIsSafe
<1>2. Safety /\ [Next]_vars => Safety' BY StepIsSafe, Stutter
<1> QED BY <1>1, <1>2, PTL DEF Spec

(* What a call is given, holds and answers stays in its range: the windows *)
(* name sectors of drives, and the read window stays on the drive and      *)
(* within its size (io_rw.inc, fat.inc).                                   *)
THEOREM TypeCorrect == Spec => []TypeOK
<1>1. Safety => TypeOK
  BY DEF Safety, TypeOK, Good, Caches, Written, Windows, SubSlots, Disks, WindowFits
<1> QED BY <1>1, Safe, PTL

(* Every valid window, of whatever drive, agrees with what was written     *)
(* last, and what is unsaved is of the active drive.                       *)
THEOREM WindowsAlwaysAgree == Spec => []WindowsAgree
<1>1. Safety => WindowsAgree
  <2> SUFFICES ASSUME Safety PROVE WindowsAgree OBVIOUS
  <2>1. Good(io, active) BY DEF Safety
  <2>2. io.wf \in Written /\ io.rf \in Windows /\ io.sub \in [Slots -> SubSlots]
    BY <2>1 DEF Good, Caches
  <2>3. io.wf.valid => io.wf.buf = Stored[io.wf.drive][io.wf.lba]
    BY <2>1, <2>2, StoredIs DEF Good, Agrees, Written
  <2>4. io.rf.valid => \A i \in DOMAIN io.rf.buf :
                          io.rf.buf[i] = Stored[io.rf.drive][io.rf.lba + i - 1]
    <3> SUFFICES ASSUME io.rf.valid, NEW i \in DOMAIN io.rf.buf
                 PROVE  io.rf.buf[i] = Stored[io.rf.drive][io.rf.lba + i - 1]
      OBVIOUS
    <3>1. io.rf.drive \in Drives /\ io.rf.lba \in Sectors /\ io.rf.buf \in Seq(Content)
      BY <2>2 DEF Windows
    <3>2. i \in 1 .. Len(io.rf.buf) /\ Len(io.rf.buf) \in Nat BY <3>1
    <3>3. io.rf.lba + Len(io.rf.buf) <= LastSector + 1 BY <2>1 DEF Good, WindowFits
    <3>4. io.rf.lba + i - 1 \in Sectors
      BY <3>1, <3>2, <3>3, SectorCacheAssumption DEF Sectors
    <3>5. io.rf.buf[i] = Holds(io, io.rf.drive, io.rf.lba + i - 1)
      BY <2>1, <3>2 DEF Good, Agrees
    <3> QED BY <3>1, <3>4, <3>5, StoredIs
  <2>5. \A i \in Slots : io.sub[i].valid =>
                          io.sub[i].buf = Stored[io.sub[i].drive][io.sub[i].lba]
    BY <2>1, <2>2, StoredIs DEF Good, Agrees, SubSlots
  <2>6. Dirty(io) => io.wf.drive = active BY <2>1 DEF Good, Agrees
  <2> QED BY <2>3, <2>4, <2>5, <2>6 DEF WindowsAgree
<1> QED BY <1>1, Safe, PTL

(* A close, commit or disk reset that answers success has left nothing     *)
(* unsaved.                                                                *)
THEOREM SavedIsAlwaysOnDisk == Spec => []SavedIsOnDisk
<1>1. Safety => SavedIsOnDisk
  <2> SUFFICES ASSUME Safety, answer.kind = "saved" PROVE Stored = io.disk
    BY DEF SavedIsOnDisk
  <2>1. ~Dirty(io) BY DEF Safety, SavedRule
  <2>2. Stored = [d \in Drives |-> [s \in Sectors |-> io.disk[d][s]]] BY <2>1 DEF Stored
  <2>3. io.disk \in [Drives -> [Sectors -> Content]] BY DEF Safety, Good, Caches, Disks
  <2> QED BY <2>2, <2>3
<1> QED BY <1>1, Safe, PTL

(* The windows and disks implement SectorStore: whatever is cached, saved  *)
(* late or fails, every read answers what was written last.                *)
THEOREM Implements == Spec => ImplementsStore
<1>1. Init => Store!Init BY InitIsSafe
<1>2. Safety /\ [Next]_vars => [Store!Next]_Store!vars BY StepIsSafe, Stutter
<1> QED BY <1>1, <1>2, Safe, PTL DEF Spec, ImplementsStore, Store!Spec
=============================================================================
