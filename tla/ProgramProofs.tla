--------------------------- MODULE ProgramProofs ----------------------------
(***************************************************************************)
(* What holds of the programs that EXEC puts inside one another: of their  *)
(* memory (ProcessMemory) for every size of the arena and any depth, and   *)
(* of their calls and their use of the kernel stack (Int21Entry) for any   *)
(* number of handlers, callbacks and calls.                                *)
(***************************************************************************)
EXTENDS ProcessMemory, Int21Entry, FiniteSetTheorems, SequenceTheorems,
        WellFoundedInduction, TLAPS

-----------------------------------------------------------------------------
(***************************************************************************)
(* ProcessMemory: the memory calls, EXEC and the two exits keep the arena  *)
(* sound and every process's block its own.                                *)
(*                                                                         *)
(* The first half is about the MCB chain alone: every operation maps a     *)
(* sound chain to a sound chain.  The three primitive rewrites (SetOwner,  *)
(* Carve, Absorb) are proved first; the kernel's operations are            *)
(* compositions of them.                                                   *)
(***************************************************************************)

(* A chain of well-formed headers that tiles the arena. *)
Sound(a) == IsArena(a) /\ Tiles(a)

-----------------------------------------------------------------------------
(* Extremal elements *)

(* Every nonempty set of naturals has a least element. *)
LEMMA NatHasMin ==
  ASSUME NEW S \in SUBSET Nat, S # {}
  PROVE  Min(S) \in S /\ \A n \in S : Min(S) <= n
<1> DEFINE R == {ss \in Nat \X Nat : ss[1] < ss[2]}
<1>1. IsWellFoundedOn(R, Nat)
  BY NatLessThanWellFounded DEF OpToRel
<1> HIDE DEF R
<1>2. PICK m \in S : \A n \in S : ~(<<n, m>> \in R)
  BY <1>1, WFMin
<1>3. \A n \in S : m <= n
  <2> TAKE n \in S
  <2>1. ~(<<n, m>> \in R) /\ n \in Nat /\ m \in Nat
    BY <1>2
  <2> QED BY <2>1 DEF R
<1> QED BY <1>3 DEF Min

(* Every nonempty bounded set of naturals has a greatest element. *)
LEMMA NatHasMax ==
  ASSUME NEW B \in Nat, NEW S \in SUBSET (0 .. B), S # {}
  PROVE  Max(S) \in S /\ \A n \in S : Max(S) >= n
<1> DEFINE T == {B - s : s \in S}
<1>1. T \in SUBSET Nat
  <2>1. \A s \in S : s \in Int /\ 0 <= s /\ s <= B
    OBVIOUS
  <2>2. \A s \in S : B - s \in Nat
    BY <2>1
  <2> QED BY <2>2
<1>2. T # {}
  OBVIOUS
<1> DEFINE m == Min(T)
<1>3. m \in T /\ \A n \in T : m <= n
  BY <1>1, <1>2, NatHasMin
<1>4. PICK s \in S : m = B - s
  BY <1>3
<1> HIDE DEF m
<1>5. \A n \in S : s >= n
  <2> TAKE n \in S
  <2>1. B - n \in T
    OBVIOUS
  <2>2. m <= B - n
    BY <2>1, <1>3
  <2> QED BY <2>2, <1>4
<1> QED BY <1>5 DEF Max

-----------------------------------------------------------------------------
(* The primitive rewrites *)

(* The boot arena is one sound block. *)
LEMMA BootArenaSound == Sound(BootArena)
BY ArenaAssumption DEF Sound, IsArena, Tiles, BootArena, Header, Following, FREE

(* What a sound chain says of one of its headers. *)
LEMMA SoundHeader ==
  ASSUME NEW a, Sound(a), NEW s \in DOMAIN a
  PROVE  /\ s \in Nat /\ MCB_START <= s /\ s < ARENA_TOP
         /\ a[s] \in Header
         /\ a[s].size \in Nat /\ a[s].owner \in Nat /\ a[s].sig \in {"M", "Z"}
         /\ Following(a, s) = s + 1 + a[s].size
         /\ Following(a, s) \in DOMAIN a \cup {ARENA_TOP}
         /\ Following(a, s) <= ARENA_TOP
         /\ a[s].sig = "Z" <=> Following(a, s) = ARENA_TOP
         /\ \A t \in DOMAIN a : ~(s < t /\ t < Following(a, s))
<1>1. s \in Nat /\ MCB_START <= s /\ s < ARENA_TOP
  BY ArenaAssumption DEF Sound, IsArena
<1>2. a[s] \in Header
  BY DEF Sound, IsArena
<1>3. /\ Following(a, s) \in DOMAIN a \cup {ARENA_TOP}
      /\ a[s].sig = "Z" <=> Following(a, s) = ARENA_TOP
      /\ \A t \in DOMAIN a : ~(s < t /\ t < Following(a, s))
  BY DEF Sound, Tiles
<1>4. Following(a, s) <= ARENA_TOP
  BY <1>3, ArenaAssumption DEF Sound, IsArena
<1> QED BY <1>1, <1>2, <1>3, <1>4 DEF Header, Following

(* Changing owners changes nothing else. *)
LEMMA SetOwnerSound ==
  ASSUME NEW a, Sound(a), NEW S, NEW o \in Nat
  PROVE  LET b == SetOwner(a, S, o) IN
         /\ Sound(b)
         /\ DOMAIN b = DOMAIN a
         /\ \A s \in DOMAIN a : /\ b[s].size = a[s].size
                                /\ b[s].sig = a[s].sig
                                /\ b[s].owner = IF s \in S THEN o ELSE a[s].owner
<1> DEFINE b == SetOwner(a, S, o)
<1>1. DOMAIN b = DOMAIN a
  BY DEF SetOwner
<1>2. ASSUME NEW s \in DOMAIN a
      PROVE  /\ b[s] \in Header
             /\ b[s].size = a[s].size
             /\ b[s].sig = a[s].sig
             /\ b[s].owner = IF s \in S THEN o ELSE a[s].owner
             /\ Following(b, s) = Following(a, s)
  BY SoundHeader DEF SetOwner, Header, Following
<1>3. b \in [DOMAIN b -> Header]
  BY <1>1, <1>2 DEF SetOwner
<1>4. IsArena(b)
  BY <1>1, <1>3 DEF IsArena, Sound
<1>5. Tiles(b)
  BY <1>1, <1>2 DEF Sound, Tiles
<1> QED BY <1>1, <1>2, <1>4, <1>5 DEF Sound

(* Splitting a block in two; the other blocks stay as they are.  The upper *)
(* part, at h, may be a bare header.                                       *)
Carved(a, b, s, h) ==
    /\ Sound(b)
    /\ h \notin DOMAIN a
    /\ DOMAIN b = DOMAIN a \cup {h}
    /\ \A t \in DOMAIN a \ {s} : b[t] = a[t]
    /\ b[s].owner = a[s].owner
    /\ b[h].owner = FREE

LEMMA CarveSound ==
  ASSUME NEW a, Sound(a), NEW s \in DOMAIN a, NEW n \in Nat, a[s].size > n
  PROVE  Carved(a, Carve(a, s, n), s, s + 1 + n)
<1> DEFINE b == Carve(a, s, n)
           h == s + 1 + n
           low  == [sig |-> "M", owner |-> a[s].owner, size |-> n]
           high == [sig |-> a[s].sig, owner |-> FREE, size |-> a[s].size - n - 1]
<1>1. /\ s \in Nat /\ MCB_START <= s
      /\ a[s] \in Header /\ a[s].size \in Nat /\ a[s].sig \in {"M", "Z"}
      /\ Following(a, s) = s + 1 + a[s].size
      /\ Following(a, s) <= ARENA_TOP
      /\ Following(a, s) \in DOMAIN a \cup {ARENA_TOP}
      /\ a[s].sig = "Z" <=> Following(a, s) = ARENA_TOP
      /\ \A t \in DOMAIN a : ~(s < t /\ t < Following(a, s))
  BY SoundHeader
<1>2. h \in Nat /\ s < h /\ h < Following(a, s) /\ h < ARENA_TOP /\ MCB_START <= h
  BY <1>1, ArenaAssumption
<1>3. h \notin DOMAIN a
  BY <1>1, <1>2
<1>4. DOMAIN b = DOMAIN a \cup {h}
  BY DEF Carve
<1>5. b[s] = low /\ b[h] = high /\ \A t \in DOMAIN a \ {s} : b[t] = a[t]
  BY <1>2, <1>3 DEF Carve
<1>6. /\ low \in Header /\ low.sig = "M" /\ low.owner = a[s].owner /\ low.size = n
      /\ high \in Header /\ high.sig = a[s].sig /\ high.owner = FREE
      /\ high.size = a[s].size - n - 1
  <2>1. a[s].size - n - 1 \in Nat /\ a[s].owner \in Nat
    BY <1>1 DEF Header
  <2> QED BY <2>1, <1>1 DEF Header, FREE
<1> HIDE DEF low, high, b, h
<1>7. \A t \in DOMAIN a : a[t] \in Header
  BY DEF Sound, IsArena
<1>8. \A t \in DOMAIN b : b[t] \in Header
  BY <1>4, <1>5, <1>6, <1>7
<1>9. b = [t \in DOMAIN b |-> b[t]]
  BY DEF b, Carve
<1>10. IsArena(b)
  <2>1. DOMAIN b \subseteq MCB_START .. (ARENA_TOP - 1)
    BY <1>2, <1>4, ArenaAssumption DEF Sound, IsArena
  <2>2. b \in [DOMAIN b -> Header]
    BY <1>8, <1>9
  <2> QED BY <2>1, <2>2 DEF IsArena
<1>11. /\ Following(b, s) = h
       /\ Following(b, h) = Following(a, s)
       /\ \A t \in DOMAIN a \ {s} : Following(b, t) = Following(a, t)
  <2>1. Following(b, s) = s + 1 + n
    BY <1>5, <1>6 DEF Following
  <2>2. Following(b, h) = h + 1 + (a[s].size - n - 1)
    BY <1>5, <1>6 DEF Following
  <2>3. Following(b, h) = Following(a, s)
    BY <2>2, <1>1 DEF h
  <2>4. \A t \in DOMAIN a \ {s} : Following(b, t) = Following(a, t)
    BY <1>5 DEF Following
  <2> QED BY <2>1, <2>3, <2>4 DEF h
<1>12. Tiles(b)
  <2>1. MCB_START \in DOMAIN b
    BY <1>4 DEF Sound, Tiles
  <2>2. ASSUME NEW t \in DOMAIN b
        PROVE  /\ Following(b, t) \in DOMAIN b \cup {ARENA_TOP}
               /\ b[t].sig = "Z" <=> Following(b, t) = ARENA_TOP
               /\ \A u \in DOMAIN b : ~(t < u /\ u < Following(b, t))
    <3>1. CASE t = s
      BY <3>1, <1>1, <1>2, <1>4, <1>5, <1>6, <1>11, SoundHeader
    <3>2. CASE t = h
      BY <3>2, <1>1, <1>2, <1>4, <1>5, <1>6, <1>11, SoundHeader
    <3>3. CASE t \in DOMAIN a \ {s}
      <4>1. /\ t \in Nat
            /\ Following(a, t) \in DOMAIN a \cup {ARENA_TOP}
            /\ Following(a, t) = t + 1 + a[t].size /\ a[t].size \in Nat
            /\ a[t].sig = "Z" <=> Following(a, t) = ARENA_TOP
            /\ \A u \in DOMAIN a : ~(t < u /\ u < Following(a, t))
        BY <3>3, SoundHeader
      <4>2. Following(b, t) = Following(a, t) /\ b[t] = a[t]
        BY <3>3, <1>5, <1>11
      <4>3. ~(t < h /\ h < Following(a, t))
        <5>1. ~(t < s /\ s < Following(a, t))
          BY <4>1
        <5>2. ~(s < t /\ t < Following(a, s))
          BY <3>3, <1>1
        <5> QED BY <5>1, <5>2, <4>1, <1>1, <1>2, <3>3
      <4> QED BY <4>1, <4>2, <4>3, <1>4
    <3> QED BY <3>1, <3>2, <3>3, <1>4
  <2> QED BY <2>1, <2>2 DEF Tiles
<1>13. Sound(b)
  BY <1>10, <1>12 DEF Sound
<1> QED BY <1>3, <1>4, <1>5, <1>6, <1>13 DEF Carved, b, h

(* The last header of the run that s absorbs. *)
LEMMA LastOfRun ==
  ASSUME NEW a, Sound(a), NEW gone, NEW s \in DOMAIN a \ gone
  PROVE  LET last == Max(Run(a, gone, s)) IN
         /\ last \in DOMAIN a /\ s <= last
         /\ \A u \in DOMAIN a : s < u /\ u <= last => u \in gone
         /\ \A t \in DOMAIN a :
               s <= t /\ (\A u \in DOMAIN a : s < u /\ u <= t => u \in gone) => t <= last
<1> DEFINE R == Run(a, gone, s)
           last == Max(R)
<1>1. s \in Nat /\ \A t \in DOMAIN a : t \in Nat /\ t < ARENA_TOP
  BY SoundHeader
<1>2. s \in R
  BY <1>1 DEF Run
<1>3. R \in SUBSET (0 .. ARENA_TOP)
  BY <1>1, ArenaAssumption DEF Run
<1>4. last \in R /\ \A n \in R : last >= n
  BY <1>2, <1>3, NatHasMax, ArenaAssumption
<1> HIDE DEF last
<1>5. /\ last \in DOMAIN a /\ s <= last
      /\ \A u \in DOMAIN a : s < u /\ u <= last => u \in gone
  BY <1>4 DEF Run
<1>6. ASSUME NEW t \in DOMAIN a, s <= t,
             \A u \in DOMAIN a : s < u /\ u <= t => u \in gone
      PROVE  t <= last
  <2>1. t \in R
    BY <1>6 DEF Run
  <2>2. last >= t
    BY <2>1, <1>4
  <2> QED BY <2>2, <1>1, <1>5
<1> QED BY <1>5, <1>6 DEF last

(* Absorbing headers into the blocks below them; the first header stays.   *)
Absorbed(a, b, gone) ==
    /\ Sound(b)
    /\ DOMAIN b = DOMAIN a \ gone
    /\ \A s \in DOMAIN b : /\ b[s].owner = a[s].owner
                           /\ Following(a, s) \notin gone => b[s].size = a[s].size

LEMMA AbsorbSound ==
  ASSUME NEW a, Sound(a), NEW gone \in SUBSET DOMAIN a, MCB_START \notin gone
  PROVE  Absorbed(a, Absorb(a, gone), gone)
<1> DEFINE b == Absorb(a, gone)
<1>1. DOMAIN b = DOMAIN a \ gone
  BY DEF Absorb
<1>2. \A t \in DOMAIN a : t \in Nat /\ t < ARENA_TOP
  BY SoundHeader
<1>3. ASSUME NEW s \in DOMAIN b
      PROVE  /\ b[s] \in Header
             /\ b[s].owner = a[s].owner
             /\ Following(a, s) \notin gone => b[s].size = a[s].size
             /\ Following(b, s) \in DOMAIN b \cup {ARENA_TOP}
             /\ b[s].sig = "Z" <=> Following(b, s) = ARENA_TOP
             /\ \A t \in DOMAIN b : ~(s < t /\ t < Following(b, s))
  <2> DEFINE last == Max(Run(a, gone, s))
             f    == Following(a, last)
  <2>1. b[s] = [sig |-> a[last].sig, owner |-> a[s].owner, size |-> f - s - 1]
    BY DEF Absorb
  <2>2. s \in DOMAIN a \ gone
    BY <1>1
  <2>3. /\ last \in DOMAIN a /\ s <= last
        /\ \A u \in DOMAIN a : s < u /\ u <= last => u \in gone
        /\ \A t \in DOMAIN a :
              s <= t /\ (\A u \in DOMAIN a : s < u /\ u <= t => u \in gone) => t <= last
    BY <2>2, LastOfRun
  <2> HIDE DEF last, b
  <2>4. /\ last \in Nat /\ a[last].size \in Nat /\ f = last + 1 + a[last].size
        /\ f \in DOMAIN a \cup {ARENA_TOP} /\ f <= ARENA_TOP
        /\ a[last].sig \in {"M", "Z"}
        /\ a[last].sig = "Z" <=> f = ARENA_TOP
        /\ \A t \in DOMAIN a : ~(last < t /\ t < f)
    BY <2>3, SoundHeader
  <2>5. /\ s \in Nat /\ a[s].owner \in Nat /\ a[s].size \in Nat
        /\ Following(a, s) = s + 1 + a[s].size
        /\ Following(a, s) \in DOMAIN a \cup {ARENA_TOP}
        /\ \A t \in DOMAIN a : ~(s < t /\ t < Following(a, s))
    BY <2>2, SoundHeader
  <2> HIDE DEF f
  <2>6. f \in Nat /\ last < f
    BY <2>4
  <2>7. f \notin gone
    <3>1. SUFFICES ASSUME f \in gone PROVE FALSE
      OBVIOUS
    <3>2. \A u \in DOMAIN a : s < u /\ u <= f => u \in gone
      <4>1. SUFFICES ASSUME NEW u \in DOMAIN a, s < u, u <= f, u # f, ~(u <= last)
                     PROVE  FALSE
        BY <2>3, <3>1
      <4> QED BY <4>1, <1>2, <2>4, <2>6
    <3>3. s <= f /\ f \in DOMAIN a
      BY <3>1, <2>3, <2>4, <2>5, <2>6
    <3>4. f <= last
      BY <3>2, <3>3, <2>3
    <3> QED BY <3>4, <2>4, <2>6
  <2>8. Following(b, s) = f
    BY <2>1, <2>5, <2>6 DEF Following
  <2>9. f - s - 1 \in Nat
    BY <2>3, <2>4, <2>5, <2>6
  <2>10. b[s] \in Header /\ b[s].owner = a[s].owner
    BY <2>1, <2>4, <2>5, <2>9 DEF Header
  <2>11. s < last => Following(a, s) <= last
    BY <2>3, <2>4, <2>5
  <2>13. Following(a, s) \notin gone => b[s].size = a[s].size
    <3>1. SUFFICES ASSUME s < last PROVE Following(a, s) \in gone
      <4>1. ~(s < last) => last = s
        BY <2>3, <2>4, <2>5
      <4>2. last = s => f - s - 1 = a[s].size
        BY <2>4, <2>5
      <4> QED BY <4>1, <4>2, <2>1
    <3>2. Following(a, s) \in DOMAIN a
      BY <3>1, <2>11, <2>5, <2>4, <2>6, ArenaAssumption
    <3> QED BY <3>1, <3>2, <2>3, <2>5, <2>11
  <2>14. f \in DOMAIN b \cup {ARENA_TOP}
    BY <1>1, <2>4, <2>7
  <2>15. b[s].sig = "Z" <=> f = ARENA_TOP
    BY <2>1, <2>4
  <2>16. \A t \in DOMAIN b : ~(s < t /\ t < f)
    <3>1. SUFFICES ASSUME NEW t \in DOMAIN b, s < t, t < f PROVE FALSE
      OBVIOUS
    <3>2. t \in DOMAIN a /\ t \notin gone /\ t \in Nat
      BY <1>1, <1>2
    <3>3. ~(t <= last)
      BY <3>1, <3>2, <2>3
    <3> QED BY <3>1, <3>2, <3>3, <2>4
  <2> QED BY <2>8, <2>10, <2>13, <2>14, <2>15, <2>16
<1> HIDE DEF b
<1>4. IsArena(b)
  <2>1. b = [t \in DOMAIN b |-> b[t]]
    BY DEF b, Absorb
  <2>2. DOMAIN b \subseteq MCB_START .. (ARENA_TOP - 1)
    BY <1>1 DEF Sound, IsArena
  <2> QED BY <1>3, <2>1, <2>2 DEF IsArena
<1>5. Tiles(b)
  BY <1>1, <1>3 DEF Tiles, Sound
<1> QED BY <1>1, <1>3, <1>4, <1>5 DEF Absorbed, Sound, b

-----------------------------------------------------------------------------
(* What an operation leaves alone *)

(* The blocks that were not free, but for those of S, keep owner and size. *)
Untouched(a, b, S) ==
    \A t \in DOMAIN a \ S :
        ~IsFree(a, t) => /\ t \in DOMAIN b
                         /\ b[t].owner = a[t].owner
                         /\ b[t].size = a[t].size

LEMMA UntouchedTrans ==
  ASSUME NEW a, NEW b, NEW c, NEW S, Untouched(a, b, S), Untouched(b, c, S)
  PROVE  Untouched(a, c, S)
BY DEF Untouched, IsFree

(* No header other than s ends where the header after s is. *)
LEMMA OnePredecessor ==
  ASSUME NEW a, Sound(a), NEW s \in DOMAIN a, NEW t \in DOMAIN a,
         Following(a, s) = Following(a, t)
  PROVE  s = t
<1>1. /\ s \in Nat /\ t \in Nat /\ s < Following(a, s) /\ t < Following(a, t)
      /\ ~(s < t /\ t < Following(a, s)) /\ ~(t < s /\ s < Following(a, t))
  BY SoundHeader
<1> QED BY <1>1

-----------------------------------------------------------------------------
(* The kernel's rewrites *)

LEMMA SplitLowSound ==
  ASSUME NEW a, Sound(a), NEW s \in DOMAIN a, NEW n \in Nat
  PROVE  LET b == SplitLow(a, s, n) IN
         /\ Sound(b)
         /\ Untouched(a, b, {s})
         /\ DOMAIN a \subseteq DOMAIN b
         /\ \A t \in DOMAIN a : b[t].owner = a[t].owner
         /\ \A t \in DOMAIN b \ DOMAIN a : b[t].owner = FREE
         /\ Splittable(a, s, n) => s + 1 + n \in DOMAIN b
<1>1. CASE Splittable(a, s, n)
  <2>1. a[s].size > n
    BY <1>1, SoundHeader DEF Splittable
  <2>2. Carved(a, SplitLow(a, s, n), s, s + 1 + n)
    BY <1>1, <2>1, CarveSound DEF SplitLow
  <2> QED BY <2>2 DEF Carved, Untouched
<1>2. CASE ~Splittable(a, s, n)
  BY <1>2 DEF SplitLow, Untouched
<1> QED BY <1>1, <1>2

LEMMA SplitHighSound ==
  ASSUME NEW a, Sound(a), NEW s \in DOMAIN a, NEW n \in Nat
  PROVE  LET b == SplitHigh(a, s, n) IN
         /\ Sound(b)
         /\ Untouched(a, b, {s})
         /\ DOMAIN a \subseteq DOMAIN b
         /\ \A t \in DOMAIN a : b[t].owner = a[t].owner
         /\ \A t \in DOMAIN b \ DOMAIN a : b[t].owner = FREE
         /\ HighHead(a, s, n) \in DOMAIN b
         /\ HighHead(a, s, n) = s \/ HighHead(a, s, n) \notin DOMAIN a
<1>1. CASE Splittable(a, s, n)
  <2> DEFINE m == a[s].size - n - 1
  <2>1. /\ s \in Nat /\ a[s].size \in Nat
        /\ m \in Nat /\ a[s].size > m /\ s + 1 + m = s + a[s].size - n
    BY <1>1, SoundHeader DEF Splittable
  <2> HIDE DEF m
  <2>2. Carved(a, Carve(a, s, m), s, s + 1 + m)
    BY <2>1, CarveSound
  <2>3. SplitHigh(a, s, n) = Carve(a, s, m) /\ HighHead(a, s, n) = s + 1 + m
    BY <1>1, <2>1 DEF SplitHigh, HighHead, m
  <2> QED BY <2>2, <2>3 DEF Carved, Untouched
<1>2. CASE ~Splittable(a, s, n)
  BY <1>2 DEF SplitHigh, HighHead, Untouched
<1> QED BY <1>1, <1>2

LEMMA MergeFreeForwardSound ==
  ASSUME NEW a, Sound(a), NEW s \in DOMAIN a
  PROVE  LET b == MergeFreeForward(a, s) IN
         /\ Sound(b)
         /\ Untouched(a, b, {s})
         /\ s \in DOMAIN b
         /\ DOMAIN b \subseteq DOMAIN a
         /\ \A t \in DOMAIN b : b[t].owner = a[t].owner
<1> DEFINE gone == FreeRunAfter(a, s)
           b    == MergeFreeForward(a, s)
<1>1. \A t \in DOMAIN a : t \in Nat /\ MCB_START <= t
  BY SoundHeader
<1>2. /\ gone \in SUBSET DOMAIN a
      /\ \A t \in gone : s < t /\ IsFree(a, t)
  BY <1>1 DEF FreeRunAfter
<1>3. MCB_START \notin gone
  BY <1>1, <1>2, ArenaAssumption
<1>4. /\ Sound(b)
      /\ DOMAIN b = DOMAIN a \ gone
      /\ \A t \in DOMAIN b : /\ b[t].owner = a[t].owner
                             /\ Following(a, t) \notin gone => b[t].size = a[t].size
  BY <1>2, <1>3, AbsorbSound DEF MergeFreeForward, Absorbed
<1>5. ASSUME NEW t \in DOMAIN a, t # s, ~IsFree(a, t)
      PROVE  Following(a, t) \notin gone
  <2>1. SUFFICES ASSUME Following(a, t) \in gone PROVE FALSE
    OBVIOUS
  <2>2. /\ t < Following(a, t) /\ ~(t < s /\ s < Following(a, t))
        /\ s < Following(a, t)
    BY <2>1, <1>2, SoundHeader
  <2>3. \A u \in DOMAIN a : s < u /\ u <= Following(a, t) => IsFree(a, u)
    BY <2>1 DEF FreeRunAfter
  <2>4. t \in Nat /\ s \in Nat /\ Following(a, t) \in Nat
    BY <1>1, <1>2, <2>1
  <2>5. ~(s < t)
    BY <2>2, <2>3, <2>4, <1>5
  <2> QED BY <2>2, <2>4, <2>5, <1>5
<1>6. s \notin gone
  BY <1>1, <1>2
<1>7. Untouched(a, b, {s})
  BY <1>2, <1>4, <1>5 DEF Untouched
<1> QED BY <1>4, <1>6, <1>7

LEMMA ReleaseSound ==
  ASSUME NEW a, Sound(a), NEW s \in DOMAIN a
  PROVE  LET b == Release(a, s) IN
         /\ Sound(b)
         /\ Untouched(a, b, {s})
         /\ \A t \in DOMAIN b : t \in DOMAIN a /\ (t # s => b[t].owner = a[t].owner)
<1> DEFINE c == SetOwner(a, {s}, FREE)
           b == MergeFreeForward(c, s)
<1>1. /\ Sound(c) /\ DOMAIN c = DOMAIN a
      /\ \A t \in DOMAIN a : /\ c[t].size = a[t].size
                             /\ c[t].owner = IF t \in {s} THEN FREE ELSE a[t].owner
  BY SetOwnerSound DEF FREE
<1> HIDE DEF c
<1>2. Untouched(a, c, {s})
  BY <1>1 DEF Untouched
<1>3. /\ Sound(b) /\ Untouched(c, b, {s}) /\ DOMAIN b \subseteq DOMAIN c
      /\ \A t \in DOMAIN b : b[t].owner = c[t].owner
  <2>1. Sound(c) /\ s \in DOMAIN c
    BY <1>1
  <2> QED BY <2>1, MergeFreeForwardSound
<1>4. Untouched(a, b, {s})
  BY <1>2, <1>3, UntouchedTrans
<1> QED BY <1>1, <1>3, <1>4 DEF Release, c

LEMMA SweepSound ==
  ASSUME NEW a, Sound(a), NEW freed \in SUBSET DOMAIN a
  PROVE  LET b == Sweep(a, freed) IN
         /\ Sound(b)
         /\ Untouched(a, b, freed)
<1> DEFINE Follows(t) == \E s \in DOMAIN a : /\ Following(a, s) = t
                                             /\ IsFree(a, s) \/ s \in freed
           Merged(t)  == t \in DOMAIN a /\ IsFree(a, t) /\ Follows(t)
           Stops(u)   == ~Merged(u) /\ a[u].size = 0 /\ ~Merged(Following(a, u))
           Reached(s) == \A u \in DOMAIN a : u < s => ~Stops(u)
           S    == {s \in freed : Reached(s)}
           gone == {t \in DOMAIN a : Merged(t) /\ Reached(t)}
           c    == SetOwner(a, S, FREE)
           b    == Absorb(c, gone)
<1>1. b = Sweep(a, freed)
  BY DEF Sweep
<1>2. gone \in SUBSET DOMAIN a /\ S \subseteq freed
  OBVIOUS
<1>3. \A g \in gone : /\ IsFree(a, g)
                      /\ \E s \in DOMAIN a : /\ Following(a, s) = g
                                             /\ IsFree(a, s) \/ s \in freed
  OBVIOUS
<1> HIDE DEF Follows, Merged, Stops, Reached, S, gone
<1>4. MCB_START \notin gone
  <2>1. SUFFICES ASSUME MCB_START \in gone PROVE FALSE
    OBVIOUS
  <2>2. PICK s \in DOMAIN a : Following(a, s) = MCB_START
    BY <2>1, <1>3
  <2>3. s \in Nat /\ MCB_START <= s /\ a[s].size \in Nat /\ Following(a, s) = s + 1 + a[s].size
    BY SoundHeader
  <2> QED BY <2>2, <2>3, ArenaAssumption
<1>5. /\ Sound(c) /\ DOMAIN c = DOMAIN a
      /\ \A t \in DOMAIN a : /\ c[t].size = a[t].size
                             /\ c[t].owner = IF t \in S THEN FREE ELSE a[t].owner
  BY SetOwnerSound DEF FREE
<1> HIDE DEF c
<1>6. \A t \in DOMAIN a : Following(c, t) = Following(a, t)
  BY <1>5 DEF Following
<1>7. Absorbed(c, b, gone)
  <2>1. Sound(c) /\ gone \in SUBSET DOMAIN c
    BY <1>2, <1>5
  <2> QED BY <2>1, <1>4, AbsorbSound
<1> HIDE DEF b
<1>8. ASSUME NEW t \in DOMAIN a \ freed, ~IsFree(a, t)
      PROVE  Following(a, t) \notin gone
  BY <1>3, <1>8, OnePredecessor
<1>9. Untouched(a, b, freed)
  BY <1>2, <1>3, <1>5, <1>6, <1>7, <1>8 DEF Untouched, Absorbed
<1> QED BY <1>1, <1>7, <1>9 DEF Absorbed

-----------------------------------------------------------------------------
(* Allocation and resize *)

(* Each strategy picks one of the blocks that fit. *)
LEMMA PicksFit ==
  ASSUME NEW a, Sound(a), NEW n \in Nat, Fits(a, n) # {}
  PROVE  /\ Fits(a, n) \subseteq DOMAIN a
         /\ \A s \in Fits(a, n) : IsFree(a, s)
         /\ FirstFit(a, n) \in Fits(a, n)
         /\ BestFit(a, n) \in Fits(a, n)
         /\ LastFit(a, n) \in Fits(a, n)
<1> DEFINE F     == Fits(a, n)
           sizes == {a[s].size : s \in F}
           least == Min(sizes)
           best  == {s \in F : a[s].size = least}
<1>1. F \subseteq DOMAIN a /\ \A s \in F : IsFree(a, s)
  BY DEF Fits, Walked
<1>2. F \in SUBSET (0 .. ARENA_TOP) /\ F \in SUBSET Nat
  BY <1>1, SoundHeader, ArenaAssumption
<1>3. FirstFit(a, n) \in F
  BY <1>2, NatHasMin DEF FirstFit
<1>4. LastFit(a, n) \in F
  BY <1>2, NatHasMax, ArenaAssumption DEF LastFit
<1>5. BestFit(a, n) \in F
  <2>1. sizes \in SUBSET Nat
    BY <1>1, SoundHeader
  <2>2. sizes # {}
    OBVIOUS
  <2>3. least \in sizes
    BY <2>1, <2>2, NatHasMin
  <2> HIDE DEF least
  <2>4. best # {} /\ best \in SUBSET Nat
    BY <2>3, <1>2
  <2>5. Min(best) \in best
    BY <2>4, NatHasMin
  <2> QED BY <2>5 DEF BestFit, least
<1> QED BY <1>1, <1>3, <1>4, <1>5

(* An allocation grants a block that was free to o and leaves all others.  *)
Granted(a, b, g, o) ==
    /\ Sound(b)
    /\ Untouched(a, b, {})
    /\ g \in DOMAIN b /\ b[g].owner = o
    /\ g \in DOMAIN a => IsFree(a, g)
    /\ \A t \in DOMAIN b \ {g} :
          IsFree(b, t) \/ (t \in DOMAIN a /\ b[t].owner = a[t].owner)

(* The split before a grant. *)
LEMMA GrantAfterSplit ==
  ASSUME NEW a, Sound(a), NEW s \in DOMAIN a, IsFree(a, s),
         NEW c, Sound(c), Untouched(a, c, {s}), NEW g \in DOMAIN c,
         g = s \/ g \notin DOMAIN a,
         \A t \in DOMAIN a : t \in DOMAIN c /\ c[t].owner = a[t].owner,
         \A t \in DOMAIN c \ DOMAIN a : c[t].owner = FREE,
         NEW o \in Nat
  PROVE  Granted(a, SetOwner(c, {g}, o), g, o)
<1> DEFINE b == SetOwner(c, {g}, o)
<1>1. /\ Sound(b)
      /\ DOMAIN b = DOMAIN c
      /\ \A t \in DOMAIN c : /\ b[t].size = c[t].size
                             /\ b[t].owner = IF t \in {g} THEN o ELSE c[t].owner
  BY SetOwnerSound
<1> HIDE DEF b
<1>2. Untouched(a, b, {})
  BY <1>1 DEF Untouched, IsFree
<1>3. \A t \in DOMAIN b \ {g} :
          IsFree(b, t) \/ (t \in DOMAIN a /\ b[t].owner = a[t].owner)
  BY <1>1 DEF IsFree
<1> QED BY <1>1, <1>2, <1>3 DEF Granted, b

LEMMA AllocSound ==
  ASSUME NEW a, Sound(a), NEW strat \in 0 .. 2, NEW n \in Nat, NEW o \in Nat,
         CanAlloc(a, strat, n)
  PROVE  Granted(a, Alloc(a, strat, n, o), GrantedHead(a, strat, n), o)
<1>1. Fits(a, n) # {}
  BY DEF CanAlloc
<1>2. ASSUME NEW s \in Fits(a, n)
      PROVE  /\ Granted(a, SetOwner(SplitLow(a, s, n), {s}, o), s, o)
             /\ Granted(a, SetOwner(SplitHigh(a, s, n), {HighHead(a, s, n)}, o),
                        HighHead(a, s, n), o)
  <2>1. s \in DOMAIN a /\ IsFree(a, s)
    BY <1>1, PicksFit
  <2>2. Granted(a, SetOwner(SplitLow(a, s, n), {s}, o), s, o)
    <3> DEFINE c == SplitLow(a, s, n)
    <3>1. /\ Sound(c) /\ Untouched(a, c, {s}) /\ s \in DOMAIN c
          /\ \A t \in DOMAIN a : t \in DOMAIN c /\ c[t].owner = a[t].owner
          /\ \A t \in DOMAIN c \ DOMAIN a : c[t].owner = FREE
      BY <2>1, SplitLowSound
    <3> HIDE DEF c
    <3> QED BY <2>1, <3>1, GrantAfterSplit DEF c
  <2>3. Granted(a, SetOwner(SplitHigh(a, s, n), {HighHead(a, s, n)}, o),
                HighHead(a, s, n), o)
    <3> DEFINE c == SplitHigh(a, s, n)
               g == HighHead(a, s, n)
    <3>1. /\ Sound(c) /\ Untouched(a, c, {s}) /\ g \in DOMAIN c
          /\ g = s \/ g \notin DOMAIN a
          /\ \A t \in DOMAIN a : t \in DOMAIN c /\ c[t].owner = a[t].owner
          /\ \A t \in DOMAIN c \ DOMAIN a : c[t].owner = FREE
      BY <2>1, SplitHighSound
    <3>2. ASSUME NEW d, d = c, NEW h, h = g
          PROVE  Granted(a, SetOwner(d, {h}, o), h, o)
      <4>1. /\ Sound(d) /\ Untouched(a, d, {s}) /\ h \in DOMAIN d
            /\ h = s \/ h \notin DOMAIN a
            /\ \A t \in DOMAIN a : t \in DOMAIN d /\ d[t].owner = a[t].owner
            /\ \A t \in DOMAIN d \ DOMAIN a : d[t].owner = FREE
        BY <3>1, <3>2, Zenon
      <4> QED BY ONLY <2>1, <4>1, Sound(a), o \in Nat, GrantAfterSplit
    <3> QED BY <3>2, Zenon
  <2> QED BY <2>2, <2>3
<1>3. /\ FirstFit(a, n) \in Fits(a, n)
      /\ BestFit(a, n) \in Fits(a, n)
      /\ LastFit(a, n) \in Fits(a, n)
  BY <1>1, PicksFit
<1>4. CASE strat = 0
  <2>1. GrantedHead(a, strat, n) = FirstFit(a, n)
    BY <1>4 DEF GrantedHead
  <2>2. Alloc(a, strat, n, o) = SetOwner(SplitLow(a, FirstFit(a, n), n), {FirstFit(a, n)}, o)
    BY <1>4, <2>1 DEF Alloc
  <2> QED BY <1>2, <1>3, <2>1, <2>2
<1>5. CASE strat = 1
  <2>1. GrantedHead(a, strat, n) = BestFit(a, n)
    BY <1>5 DEF GrantedHead
  <2>2. Alloc(a, strat, n, o) = SetOwner(SplitLow(a, BestFit(a, n), n), {BestFit(a, n)}, o)
    BY <1>5, <2>1 DEF Alloc
  <2> QED BY <1>2, <1>3, <2>1, <2>2
<1>6. CASE strat = 2
  <2>1. GrantedHead(a, strat, n) = HighHead(a, LastFit(a, n), n)
    BY <1>6 DEF GrantedHead
  <2>2. Alloc(a, strat, n, o) = SetOwner(SplitHigh(a, LastFit(a, n), n), {HighHead(a, LastFit(a, n), n)}, o)
    BY <1>6, <2>1 DEF Alloc
  <2> QED BY <1>2, <1>3, <2>1, <2>2
<1> QED BY <1>4, <1>5, <1>6

(* A resize within the limit keeps the block and touches no other that is  *)
(* owned.                                                                  *)
LEMMA ResizeSound ==
  ASSUME NEW a, Sound(a), NEW s \in DOMAIN a, ~IsFree(a, s), NEW n \in Nat,
         n <= ResizeLimit(a, s)
  PROVE  LET b == Resize(a, s, n) IN
         /\ Sound(b)
         /\ Untouched(a, b, {s})
         /\ s \in DOMAIN b /\ b[s].owner = a[s].owner
<1>1. s \in Nat /\ a[s].size \in Nat
  BY SoundHeader
<1>2. CASE n <= a[s].size /\ Splittable(a, s, n)
  <2> DEFINE c == SplitLow(a, s, n)
             h == s + 1 + n
             b == MergeFreeForward(c, h)
  <2>1. a[s].size > n /\ h # s
    BY <1>1, <1>2 DEF Splittable
  <2>2. Carved(a, c, s, h)
    BY <1>2, <2>1, CarveSound DEF SplitLow
  <2> HIDE DEF c, h
  <2>3. Sound(c) /\ h \in DOMAIN c /\ s \in DOMAIN c /\ ~IsFree(c, s)
    BY <2>2 DEF Carved, IsFree
  <2>4. Sound(b) /\ Untouched(c, b, {h})
    BY <2>3, MergeFreeForwardSound
  <2>5. Resize(a, s, n) = b
    BY <1>2 DEF Resize, c, h
  <2> HIDE DEF b
  <2>6. Untouched(a, b, {s})
    BY <2>2, <2>4 DEF Carved, Untouched, IsFree
  <2>7. s \in DOMAIN b /\ b[s].owner = a[s].owner
    BY <2>1, <2>2, <2>3, <2>4 DEF Carved, Untouched
  <2> QED BY <2>4, <2>5, <2>6, <2>7
<1>3. CASE n <= a[s].size /\ ~Splittable(a, s, n)
  BY <1>3 DEF Resize, Untouched
<1>4. CASE ~(n <= a[s].size)
  <2> DEFINE next == Following(a, s)
             c == Absorb(a, {next})
             b == SplitLow(c, s, n)
  <2>1. next \in DOMAIN a /\ IsFree(a, next)
    BY <1>4 DEF ResizeLimit
  <2>2. next # MCB_START /\ next # s
    BY <2>1, SoundHeader, ArenaAssumption
  <2>3. Absorbed(a, c, {next})
    BY <2>1, <2>2, AbsorbSound
  <2>4. \A t \in DOMAIN a : Following(a, t) = next => t = s
    BY OnePredecessor
  <2> HIDE DEF next, c
  <2>5. Sound(c) /\ s \in DOMAIN c /\ c[s].owner = a[s].owner
    BY <2>2, <2>3 DEF Absorbed
  <2>6. Untouched(a, c, {s})
    BY <2>1, <2>3, <2>4 DEF Absorbed, Untouched
  <2>7. /\ Sound(b) /\ Untouched(c, b, {s})
        /\ s \in DOMAIN b /\ b[s].owner = c[s].owner
    BY <2>5, SplitLowSound
  <2>8. Resize(a, s, n) = b
    BY <1>4 DEF Resize, c, next
  <2> HIDE DEF b
  <2>9. Untouched(a, b, {s})
    BY <2>6, <2>7, UntouchedTrans
  <2> QED BY <2>5, <2>7, <2>8, <2>9
<1> QED BY <1>2, <1>3, <1>4

-----------------------------------------------------------------------------
(* Chains without blocks of zero paragraphs *)

(* No block is empty: no walk ends before the 'Z'. *)
Positive(a) == \A s \in DOMAIN a : a[s].size > 0

(* What is owned in b, but for the blocks of S, had its owner in a. *)
OwnedBefore(a, b, S) ==
    \A t \in DOMAIN b \ S : IsFree(b, t) \/ (t \in DOMAIN a /\ b[t].owner = a[t].owner)

(* Blocks only grow when headers only disappear. *)
LEMMA BlocksGrow ==
  ASSUME NEW a, Sound(a), NEW b, Sound(b), DOMAIN b \subseteq DOMAIN a, NEW s \in DOMAIN b
  PROVE  Following(a, s) <= Following(b, s)
<1>1. /\ s \in Nat /\ Following(b, s) \in DOMAIN b \cup {ARENA_TOP}
      /\ s < Following(b, s) /\ Following(b, s) \in Nat
  BY SoundHeader, ArenaAssumption
<1>2. /\ Following(a, s) <= ARENA_TOP /\ Following(a, s) \in Nat
      /\ \A t \in DOMAIN a : ~(s < t /\ t < Following(a, s))
  BY SoundHeader, ArenaAssumption
<1>3. CASE Following(b, s) \in DOMAIN b
  BY <1>1, <1>2, <1>3
<1>4. CASE Following(b, s) = ARENA_TOP
  BY <1>1, <1>2, <1>4
<1> QED BY <1>1, <1>3, <1>4

LEMMA StaysPositive ==
  ASSUME NEW a, Sound(a), Positive(a), NEW b, Sound(b), DOMAIN b \subseteq DOMAIN a
  PROVE  Positive(b)
<1> SUFFICES ASSUME NEW s \in DOMAIN b PROVE b[s].size > 0
  BY DEF Positive
<1>1. Following(a, s) <= Following(b, s)
  BY BlocksGrow
<1>2. /\ s \in Nat /\ b[s].size \in Nat /\ a[s].size \in Nat /\ a[s].size > 0
      /\ Following(a, s) = s + 1 + a[s].size /\ Following(b, s) = s + 1 + b[s].size
  BY SoundHeader DEF Positive
<1> QED BY <1>1, <1>2

LEMMA CarvePositive ==
  ASSUME NEW a, Sound(a), Positive(a), NEW s \in DOMAIN a, NEW n \in Nat, n > 0,
         a[s].size > n + 1
  PROVE  Positive(Carve(a, s, n))
<1> DEFINE b == Carve(a, s, n)
           h == s + 1 + n
<1>1. s \in Nat /\ a[s].size \in Nat /\ h # s
  BY SoundHeader
<1>2. DOMAIN b = DOMAIN a \cup {h}
  BY DEF Carve
<1>3. b[s].size = n
  <2>1. b[s] = [sig |-> "M", owner |-> a[s].owner, size |-> n]
    BY <1>1 DEF Carve
  <2> QED BY <2>1
<1>4. b[h].size = a[s].size - n - 1
  BY <1>1 DEF Carve
<1>5. \A t \in DOMAIN a : t # s /\ t # h => b[t] = a[t]
  BY DEF Carve
<1> HIDE DEF b, h
<1>6. \A t \in DOMAIN b : b[t].size > 0
  <2> TAKE t \in DOMAIN b
  <2>1. CASE t = s
    BY <1>3, <2>1
  <2>2. CASE t = h
    BY <1>1, <1>4, <2>2
  <2>3. CASE t # s /\ t # h
    BY <1>2, <1>5, <2>3 DEF Positive
  <2> QED BY <2>1, <2>2, <2>3
<1> QED BY <1>6 DEF Positive, b

LEMMA SplitPositive ==
  ASSUME NEW a, Sound(a), Positive(a), NEW s \in DOMAIN a, NEW n \in Nat, n > 0
  PROVE  Positive(SplitLow(a, s, n)) /\ Positive(SplitHigh(a, s, n))
<1>1. CASE Splittable(a, s, n)
  <2> DEFINE m == a[s].size - n - 1
  <2>1. /\ a[s].size \in Nat /\ a[s].size > n + 1
        /\ m \in Nat /\ m > 0 /\ a[s].size > m + 1
    <3>1. a[s].size \in Nat /\ a[s].size - n >= 2
      BY <1>1, SoundHeader DEF Splittable
    <3> QED BY <3>1
  <2> HIDE DEF m
  <2>2. Positive(Carve(a, s, n)) /\ Positive(Carve(a, s, m))
    BY <2>1, CarvePositive
  <2> QED BY <1>1, <2>2 DEF SplitLow, SplitHigh, m
<1>2. CASE ~Splittable(a, s, n)
  BY <1>2 DEF SplitLow, SplitHigh
<1> QED BY <1>1, <1>2

LEMMA AllocPositive ==
  ASSUME NEW a, Sound(a), Positive(a), NEW strat \in 0 .. 2, NEW n \in Nat, n > 0,
         NEW o \in Nat, CanAlloc(a, strat, n)
  PROVE  Positive(Alloc(a, strat, n, o))
<1>1. ASSUME NEW c, Sound(c), Positive(c), NEW S
      PROVE  Positive(SetOwner(c, S, o))
  <2>1. Sound(SetOwner(c, S, o)) /\ DOMAIN SetOwner(c, S, o) = DOMAIN c
    BY <1>1, SetOwnerSound
  <2> QED BY <1>1, <2>1, StaysPositive
<1>2. ASSUME NEW s \in Fits(a, n)
      PROVE  /\ Sound(SplitLow(a, s, n)) /\ Positive(SplitLow(a, s, n))
             /\ Sound(SplitHigh(a, s, n)) /\ Positive(SplitHigh(a, s, n))
  <2>1. s \in DOMAIN a
    BY <1>2, PicksFit
  <2> QED BY <2>1, SplitPositive, SplitLowSound, SplitHighSound
<1>3. /\ FirstFit(a, n) \in Fits(a, n)
      /\ BestFit(a, n) \in Fits(a, n)
      /\ LastFit(a, n) \in Fits(a, n)
  BY PicksFit DEF CanAlloc
<1>4. CASE strat = 0
  BY <1>1, <1>2, <1>3, <1>4 DEF Alloc
<1>5. CASE strat = 1
  BY <1>1, <1>2, <1>3, <1>5 DEF Alloc
<1>6. CASE strat = 2
  BY <1>1, <1>2, <1>3, <1>6 DEF Alloc
<1> QED BY <1>4, <1>5, <1>6

LEMMA ResizePositive ==
  ASSUME NEW a, Sound(a), Positive(a), NEW s \in DOMAIN a, NEW n \in Nat, n > 0,
         n <= ResizeLimit(a, s)
  PROVE  LET b == Resize(a, s, n) IN Positive(b) /\ OwnedBefore(a, b, {})
<1>1. s \in Nat /\ a[s].size \in Nat
  BY SoundHeader
<1>2. CASE n <= a[s].size /\ Splittable(a, s, n)
  <2> DEFINE c == SplitLow(a, s, n)
             h == s + 1 + n
             b == MergeFreeForward(c, h)
  <2>1. /\ Sound(c) /\ Positive(c) /\ h \in DOMAIN c
        /\ \A t \in DOMAIN a : c[t].owner = a[t].owner
        /\ \A t \in DOMAIN c \ DOMAIN a : c[t].owner = FREE
    BY <1>2, SplitLowSound, SplitPositive
  <2>2. Resize(a, s, n) = b
    BY <1>2 DEF Resize
  <2> HIDE DEF c, h
  <2>3. Sound(b) /\ DOMAIN b \subseteq DOMAIN c /\ \A t \in DOMAIN b : b[t].owner = c[t].owner
    BY <2>1, MergeFreeForwardSound
  <2> HIDE DEF b
  <2> QED BY <2>1, <2>2, <2>3, StaysPositive DEF OwnedBefore, IsFree
<1>3. CASE n <= a[s].size /\ ~Splittable(a, s, n)
  BY <1>3 DEF Resize, OwnedBefore
<1>4. CASE ~(n <= a[s].size)
  <2> DEFINE next == Following(a, s)
             c == Absorb(a, {next})
             b == SplitLow(c, s, n)
  <2>1. next \in DOMAIN a
    BY <1>4 DEF ResizeLimit
  <2>2. next # MCB_START /\ next # s
    BY <2>1, SoundHeader, ArenaAssumption
  <2>3. Absorbed(a, c, {next})
    BY <2>1, <2>2, AbsorbSound
  <2>4. Resize(a, s, n) = b
    BY <1>4 DEF Resize
  <2> HIDE DEF next, c
  <2>5. /\ Sound(c) /\ s \in DOMAIN c /\ DOMAIN c \subseteq DOMAIN a
        /\ \A t \in DOMAIN c : c[t].owner = a[t].owner
    BY <2>2, <2>3 DEF Absorbed
  <2>6. Positive(c)
    BY <2>5, StaysPositive
  <2>7. /\ Positive(b)
        /\ \A t \in DOMAIN c : b[t].owner = c[t].owner
        /\ \A t \in DOMAIN b \ DOMAIN c : b[t].owner = FREE
    BY <2>5, <2>6, SplitLowSound, SplitPositive
  <2> HIDE DEF b
  <2> QED BY <2>4, <2>5, <2>7 DEF OwnedBefore, IsFree
<1> QED BY <1>2, <1>3, <1>4

LEMMA ReleasePositive ==
  ASSUME NEW a, Sound(a), Positive(a), NEW s \in DOMAIN a
  PROVE  Positive(Release(a, s)) /\ OwnedBefore(a, Release(a, s), {s})
<1>1. /\ Sound(Release(a, s))
      /\ \A t \in DOMAIN Release(a, s) : /\ t \in DOMAIN a
                                         /\ t # s => Release(a, s)[t].owner = a[t].owner
  BY ReleaseSound
<1> QED BY <1>1, StaysPositive DEF OwnedBefore

(* A walk meets every header. *)
LEMMA WalkedAll ==
  ASSUME NEW a, Sound(a), Positive(a)
  PROVE  Walked(a) = DOMAIN a /\ WalkEndsAtZ(a)
<1>1. ASSUME NEW s \in DOMAIN a, NEW t \in DOMAIN a, t < s
      PROVE  a[t].sig = "M" /\ a[t].size > 0
  <2>1. /\ s < ARENA_TOP /\ s \in Nat /\ t \in Nat
        /\ ~(t < s /\ s < Following(a, t))
        /\ a[t].sig \in {"M", "Z"}
        /\ a[t].sig = "Z" <=> Following(a, t) = ARENA_TOP
    BY SoundHeader
  <2>2. Following(a, t) # ARENA_TOP
    BY <1>1, <2>1, ArenaAssumption
  <2> QED BY <2>1, <2>2 DEF Positive
<1>2. Walked(a) = DOMAIN a
  BY <1>1 DEF Walked
<1> DEFINE last == Max(DOMAIN a)
<1>3. DOMAIN a \in SUBSET (0 .. ARENA_TOP) /\ DOMAIN a # {}
  <2>1. MCB_START \in DOMAIN a
    BY DEF Sound, Tiles
  <2> QED BY <2>1, SoundHeader, ArenaAssumption
<1>4. last \in DOMAIN a /\ \A t \in DOMAIN a : last >= t
  BY <1>3, NatHasMax, ArenaAssumption
<1> HIDE DEF last
<1>5. a[last].sig = "Z"
  <2>1. /\ last \in Nat /\ last < Following(a, last)
        /\ Following(a, last) \in DOMAIN a \cup {ARENA_TOP}
        /\ a[last].sig = "Z" <=> Following(a, last) = ARENA_TOP
    BY <1>4, SoundHeader
  <2>2. Following(a, last) \notin DOMAIN a
    BY <1>4, <2>1, SoundHeader
  <2> QED BY <2>1, <2>2
<1> QED BY <1>2, <1>4, <1>5 DEF WalkEndsAtZ

(* The pass of an exit frees all it is to free, and one that frees nothing *)
(* leaves no two free blocks side by side.                                 *)
LEMMA SweepPositive ==
  ASSUME NEW a, Sound(a), Positive(a), NEW freed \in SUBSET DOMAIN a
  PROVE  LET b == Sweep(a, freed) IN
         /\ Positive(b) /\ DOMAIN b \subseteq DOMAIN a
         /\ \A t \in DOMAIN b : b[t].owner = IF t \in freed THEN FREE ELSE a[t].owner
         /\ \A t \in DOMAIN a \ DOMAIN b : IsFree(a, t)
         /\ \A t \in DOMAIN b \ freed : 
               IsFree(a, t) => \A s \in DOMAIN a : Following(a, s) = t => ~IsFree(a, s)
<1> DEFINE Follows(t) == \E s \in DOMAIN a : /\ Following(a, s) = t
                                             /\ IsFree(a, s) \/ s \in freed
           Merged(t)  == t \in DOMAIN a /\ IsFree(a, t) /\ Follows(t)
           Stops(u)   == ~Merged(u) /\ a[u].size = 0 /\ ~Merged(Following(a, u))
           Reached(s) == \A u \in DOMAIN a : u < s => ~Stops(u)
           S    == {s \in freed : Reached(s)}
           gone == {t \in DOMAIN a : Merged(t) /\ Reached(t)}
           c    == SetOwner(a, S, FREE)
           b    == Absorb(c, gone)
<1>1. b = Sweep(a, freed)
  BY DEF Sweep
<1>2. \A u \in DOMAIN a : a[u].size # 0
  BY SoundHeader DEF Positive
<1>3. \A s : Reached(s)
  BY <1>2
<1>4. S = freed
  BY <1>3
<1>5. gone = {t \in DOMAIN a : IsFree(a, t) /\ Follows(t)}
  BY <1>3
<1> HIDE DEF Merged, Stops, Reached, S, gone
<1>6. MCB_START \notin gone
  <2>1. SUFFICES ASSUME MCB_START \in gone PROVE FALSE
    OBVIOUS
  <2>2. PICK s \in DOMAIN a : Following(a, s) = MCB_START
    BY <2>1, <1>5
  <2>3. s \in Nat /\ MCB_START <= s /\ a[s].size \in Nat /\ Following(a, s) = s + 1 + a[s].size
    BY SoundHeader
  <2> QED BY <2>2, <2>3, ArenaAssumption
<1>7. /\ Sound(c) /\ DOMAIN c = DOMAIN a
      /\ \A t \in DOMAIN a : /\ c[t].size = a[t].size
                             /\ c[t].owner = IF t \in freed THEN FREE ELSE a[t].owner
  BY <1>4, SetOwnerSound DEF FREE
<1> HIDE DEF c
<1>8. Absorbed(c, b, gone)
  <2>1. gone \in SUBSET DOMAIN c
    BY <1>5, <1>7
  <2> QED BY <2>1, <1>6, <1>7, AbsorbSound
<1> HIDE DEF b
<1>9. /\ Sound(b) /\ DOMAIN b = DOMAIN a \ gone
      /\ \A t \in DOMAIN b : b[t].owner = IF t \in freed THEN FREE ELSE a[t].owner
  BY <1>7, <1>8 DEF Absorbed
<1>10. Positive(b)
  BY <1>9, StaysPositive
<1>11. \A t \in DOMAIN a \ DOMAIN b : IsFree(a, t)
  BY <1>5, <1>9
<1>12. \A t \in DOMAIN b \ freed :
          IsFree(a, t) => \A s \in DOMAIN a : Following(a, s) = t => ~IsFree(a, s)
  BY <1>5, <1>9
<1> QED BY <1>1, <1>9, <1>10, <1>11, <1>12

(* What find_largest_free_block finds. *)
LEMMA LargestFreeIs ==
  ASSUME NEW a, Sound(a)
  PROVE  /\ LargestFree(a) \in Nat
         /\ LargestFree(a) > 0 =>
               \E s \in Walked(a) : IsFree(a, s) /\ a[s].size = LargestFree(a)
         /\ \A s \in Walked(a) : IsFree(a, s) => a[s].size <= LargestFree(a)
<1> DEFINE free  == {t \in Walked(a) : IsFree(a, t)}
           sizes == {0} \cup {a[s].size : s \in free}
           most  == Max(sizes)
<1>1. \A s \in free : a[s].size \in 0 .. ARENA_TOP
  <2> TAKE s \in free
  <2>1. s \in DOMAIN a
    BY DEF Walked
  <2> QED BY <2>1, SoundHeader, ArenaAssumption
<1>2. sizes \in SUBSET (0 .. ARENA_TOP)
  BY <1>1, ArenaAssumption
<1>3. most \in sizes /\ \A n \in sizes : most >= n
  BY <1>2, NatHasMax, ArenaAssumption
<1>4. LargestFree(a) = most
  BY DEF LargestFree
<1> HIDE DEF most
<1>5. most \in Nat
  BY <1>2, <1>3, ArenaAssumption
<1>6. most > 0 => \E s \in free : a[s].size = most
  BY <1>3
<1>7. \A s \in free : a[s].size <= most
  BY <1>1, <1>3, <1>5, ArenaAssumption
<1> QED BY <1>4, <1>5, <1>6, <1>7

(* Every header but the first ends a block. *)
LEMMA HasPredecessor ==
  ASSUME NEW a, Sound(a), NEW s \in DOMAIN a, NEW t \in DOMAIN a, s < t
  PROVE  \E p \in DOMAIN a : s <= p /\ p < t /\ Following(a, p) = t
<1> DEFINE B == {u \in DOMAIN a : u < t}
           p == Max(B)
<1>1. \A u \in DOMAIN a : u \in Nat /\ u < ARENA_TOP
  BY SoundHeader
<1>2. B \in SUBSET (0 .. ARENA_TOP) /\ s \in B
  BY <1>1, ArenaAssumption
<1>3. p \in B /\ \A u \in B : p >= u
  BY <1>2, NatHasMax, ArenaAssumption
<1> HIDE DEF p
<1>4. /\ p \in DOMAIN a /\ p \in Nat /\ p < t /\ t \in Nat /\ s \in Nat /\ s <= p
      /\ p < Following(a, p) /\ Following(a, p) \in Nat
      /\ Following(a, p) \in DOMAIN a \cup {ARENA_TOP}
      /\ ~(p < t /\ t < Following(a, p)) /\ t < ARENA_TOP
  BY <1>1, <1>2, <1>3, SoundHeader, ArenaAssumption
<1>5. Following(a, p) = t
  <2>1. Following(a, p) <= t
    BY <1>4
  <2>2. Following(a, p) # ARENA_TOP
    BY <1>4, <2>1, ArenaAssumption
  <2>3. Following(a, p) \notin B
    BY <1>3, <1>4
  <2> QED BY <1>4, <2>1, <2>2, <2>3
<1> QED BY <1>4, <1>5

-----------------------------------------------------------------------------
(* Taking a block and giving it back *)

(* Some free block of b holds all that the free block s of a held. *)
Covers(a, b, s) ==
    \E t \in DOMAIN b : IsFree(b, t) /\ t <= s /\ Following(a, s) <= Following(b, t)

(* Every free block of a is covered by a free block of b. *)
Roomier(a, b) == \A s \in DOMAIN a : IsFree(a, s) => Covers(a, b, s)

(* The same, except that g was taken out of a free block of a, and stands  *)
(* in b where that block began, with free blocks up to its end.            *)
Taken(a, b, g) ==
    \A s \in DOMAIN a : IsFree(a, s) =>
        \/ Covers(a, b, s)
        \/ s = g /\ \A u \in DOMAIN b : g < u /\ u < Following(a, g) => IsFree(b, u)

(* A first fit is taken out of one free block, from its beginning. *)
LEMMA FirstFitTakes ==
  ASSUME NEW a, Sound(a), NEW n \in Nat, NEW o \in Nat, CanAlloc(a, 0, n)
  PROVE  Taken(a, Alloc(a, 0, n, o), FirstFit(a, n))
<1> DEFINE g == FirstFit(a, n)
           c == SplitLow(a, g, n)
           b == Alloc(a, 0, n, o)
<1>1. g \in DOMAIN a
  BY PicksFit DEF CanAlloc
<1>2. b = SetOwner(c, {g}, o)
  BY DEF Alloc, GrantedHead
<1> HIDE DEF g
<1>3. /\ Sound(c) /\ DOMAIN a \subseteq DOMAIN c
      /\ \A t \in DOMAIN a : c[t].owner = a[t].owner
      /\ \A t \in DOMAIN c \ DOMAIN a : c[t].owner = FREE
  BY <1>1, SplitLowSound
<1>4. \A t \in DOMAIN a : t # g => c[t].size = a[t].size
  <2>1. CASE Splittable(a, g, n)
    <3>1. a[g].size > n
      BY <1>1, <2>1, SoundHeader DEF Splittable
    <3>2. Carved(a, c, g, g + 1 + n)
      BY <1>1, <2>1, <3>1, CarveSound DEF SplitLow
    <3> QED BY <3>2 DEF Carved
  <2> QED BY <2>1 DEF SplitLow
<1> HIDE DEF b, c
<1>5. /\ DOMAIN b = DOMAIN c
      /\ \A t \in DOMAIN c : /\ b[t].size = c[t].size
                             /\ b[t].owner = IF t \in {g} THEN o ELSE c[t].owner
  BY <1>2, <1>3, SetOwnerSound
<1>6. ASSUME NEW s \in DOMAIN a, IsFree(a, s), s # g PROVE Covers(a, b, s)
  <2>1. s \in DOMAIN b /\ IsFree(b, s) /\ b[s].size = a[s].size
    BY <1>3, <1>4, <1>5, <1>6 DEF IsFree
  <2>2. s <= s /\ Following(a, s) <= Following(b, s)
    BY <2>1, SoundHeader DEF Following
  <2> QED BY <2>1, <2>2 DEF Covers
<1>7. ASSUME NEW u \in DOMAIN b, g < u /\ u < Following(a, g) PROVE IsFree(b, u)
  <2>1. u \notin DOMAIN a
    BY <1>1, <1>7, SoundHeader
  <2> QED BY <1>1, <1>3, <1>5, <2>1 DEF IsFree
<1> QED BY <1>6, <1>7 DEF Taken, b, g

(* Freeing what was taken gives its room back. *)
LEMMA ReleaseRestores ==
  ASSUME NEW a, Sound(a), NEW c, Sound(c), NEW g \in DOMAIN c, Taken(a, c, g)
  PROVE  Roomier(a, Release(c, g))
<1> DEFINE d    == SetOwner(c, {g}, FREE)
           gone == FreeRunAfter(d, g)
           b    == Release(c, g)
<1>1. /\ Sound(d) /\ DOMAIN d = DOMAIN c
      /\ \A t \in DOMAIN c : /\ d[t].size = c[t].size
                             /\ d[t].owner = IF t \in {g} THEN FREE ELSE c[t].owner
  BY SetOwnerSound DEF FREE
<1>2. b = MergeFreeForward(d, g) /\ DOMAIN b = DOMAIN d \ gone
  BY DEF Release, MergeFreeForward, Absorb
<1>3. gone = {t \in DOMAIN d : g < t /\ \A u \in DOMAIN d : g < u /\ u <= t => IsFree(d, u)}
  BY DEF FreeRunAfter
<1> HIDE DEF d, gone, b
<1>4. /\ Sound(b) /\ g \in DOMAIN b
      /\ \A t \in DOMAIN b : b[t].owner = d[t].owner
  <2>1. Sound(d) /\ g \in DOMAIN d
    BY <1>1
  <2> QED BY <1>2, <2>1, MergeFreeForwardSound
<1>5. IsFree(b, g) /\ \A t \in DOMAIN c : IsFree(c, t) => IsFree(d, t)
  BY <1>1, <1>4 DEF IsFree
<1> DEFINE e == Following(b, g)
<1>6. /\ g \in Nat /\ g < e /\ e \in Nat /\ e \in DOMAIN b \cup {ARENA_TOP}
      /\ \A t \in DOMAIN b : ~(g < t /\ t < e)
  BY <1>4, SoundHeader, ArenaAssumption
<1> HIDE DEF e
<1>7. ASSUME NEW x \in Nat, x <= ARENA_TOP,
             \A u \in DOMAIN d : g < u /\ u < x => IsFree(d, u)
      PROVE  x <= e
  <2>1. SUFFICES ASSUME e < x PROVE FALSE
    BY <1>6, <1>7
  <2>2. e \in DOMAIN b
    BY <1>6, <1>7, <2>1, ArenaAssumption
  <2>3. \A u \in DOMAIN d : u \in Nat
    BY <1>1, SoundHeader
  <2>4. \A u \in DOMAIN d : g < u /\ u <= e => IsFree(d, u)
    BY <1>6, <1>7, <2>1, <2>3
  <2> QED BY <1>2, <1>3, <1>6, <2>2, <2>4
<1>8. ASSUME NEW t \in DOMAIN c, IsFree(c, t)
      PROVE  \E r \in DOMAIN b : IsFree(b, r) /\ r <= t /\ Following(c, t) <= Following(b, r)
  <2>1. t \in Nat /\ Following(c, t) = Following(d, t)
    BY <1>1, SoundHeader DEF Following
  <2>2. CASE t \in DOMAIN b
    <3>1. IsFree(b, t)
      BY <1>4, <1>5, <1>8, <2>2 DEF IsFree
    <3>2. Following(d, t) <= Following(b, t)
      BY <1>1, <1>2, <1>4, <2>2, BlocksGrow
    <3> QED BY <2>1, <2>2, <3>1, <3>2
  <2>3. CASE t \notin DOMAIN b
    <3>1. t \in gone
      BY <1>1, <1>2, <2>3
    <3>2. g < t /\ \A u \in DOMAIN d : g < u /\ u <= t => IsFree(d, u)
      BY <1>3, <3>1
    <3>3. /\ Following(d, t) \in Nat /\ Following(d, t) <= ARENA_TOP
          /\ \A u \in DOMAIN d : u \in Nat /\ ~(t < u /\ u < Following(d, t))
      BY <1>1, SoundHeader, ArenaAssumption
    <3>4. \A u \in DOMAIN d : g < u /\ u < Following(d, t) => IsFree(d, u)
      BY <2>1, <3>2, <3>3
    <3>5. Following(d, t) <= e
      BY <1>7, <3>3, <3>4
    <3> QED BY <1>4, <1>5, <1>6, <2>1, <3>2, <3>5 DEF e
  <2> QED BY <2>2, <2>3
<1>9. ASSUME NEW s \in DOMAIN a, IsFree(a, s) PROVE Covers(a, b, s)
  <2>1. s \in Nat /\ Following(a, s) \in Nat /\ Following(a, s) <= ARENA_TOP
    BY SoundHeader, ArenaAssumption
  <2>2. CASE Covers(a, c, s)
    <3>1. PICK t \in DOMAIN c : IsFree(c, t) /\ t <= s /\ Following(a, s) <= Following(c, t)
      BY <2>2 DEF Covers
    <3>2. PICK r \in DOMAIN b : IsFree(b, r) /\ r <= t /\ Following(c, t) <= Following(b, r)
      BY <1>8, <3>1
    <3>3. t \in Nat /\ r \in Nat /\ Following(c, t) \in Nat /\ Following(b, r) \in Nat
      BY <1>4, SoundHeader, ArenaAssumption
    <3> QED BY <2>1, <3>1, <3>2, <3>3 DEF Covers
  <2>3. CASE s = g /\ \A u \in DOMAIN c : g < u /\ u < Following(a, g) => IsFree(c, u)
    <3>1. \A u \in DOMAIN d : g < u /\ u < Following(a, g) => IsFree(d, u)
      BY <1>1, <1>5, <2>3
    <3>2. Following(a, g) <= e
      BY <1>7, <2>1, <2>3, <3>1
    <3> QED BY <1>4, <1>5, <1>6, <2>3, <3>2 DEF Covers, e
  <2> QED BY <1>9, <2>2, <2>3 DEF Taken
<1> QED BY <1>9 DEF Roomier, b

(* What was taken from a stays so when more room appears and nothing new   *)
(* is owned.                                                               *)
LEMMA TakenThenRoomier ==
  ASSUME NEW a, Sound(a), NEW b, Sound(b), NEW c, Sound(c), NEW g \in Nat,
         Taken(a, b, g), Roomier(b, c), OwnedBefore(b, c, {})
  PROVE  Taken(a, c, g)
<1> SUFFICES ASSUME NEW s \in DOMAIN a, IsFree(a, s)
             PROVE  \/ Covers(a, c, s)
                    \/ s = g /\ \A u \in DOMAIN c :
                                   g < u /\ u < Following(a, g) => IsFree(c, u)
  BY DEF Taken
<1>1. CASE Covers(a, b, s)
  <2>1. PICK t \in DOMAIN b : IsFree(b, t) /\ t <= s /\ Following(a, s) <= Following(b, t)
    BY <1>1 DEF Covers
  <2>2. PICK r \in DOMAIN c : IsFree(c, r) /\ r <= t /\ Following(b, t) <= Following(c, r)
    BY <2>1 DEF Roomier, Covers
  <2>3. /\ s \in Nat /\ t \in Nat /\ r \in Nat
        /\ Following(a, s) \in Nat /\ Following(b, t) \in Nat /\ Following(c, r) \in Nat
    BY SoundHeader, ArenaAssumption
  <2> QED BY <2>1, <2>2, <2>3 DEF Covers
<1>2. CASE s = g /\ \A u \in DOMAIN b : g < u /\ u < Following(a, g) => IsFree(b, u)
  BY <1>2 DEF OwnedBefore, IsFree
<1> QED BY <1>1, <1>2 DEF Taken

(* Roomier arenas offer at least as large a block. *)
LEMMA RoomierLargest ==
  ASSUME NEW a, Sound(a), NEW b, Sound(b), Positive(b), Roomier(a, b)
  PROVE  LargestFree(b) >= LargestFree(a)
<1>1. LargestFree(a) \in Nat /\ LargestFree(b) \in Nat
  BY LargestFreeIs
<1>2. CASE LargestFree(a) > 0
  <2>1. PICK s \in Walked(a) : IsFree(a, s) /\ a[s].size = LargestFree(a)
    BY <1>2, LargestFreeIs
  <2>2. s \in DOMAIN a
    BY DEF Walked
  <2>3. PICK t \in DOMAIN b : IsFree(b, t) /\ t <= s /\ Following(a, s) <= Following(b, t)
    BY <2>1, <2>2 DEF Roomier, Covers
  <2>4. b[t].size <= LargestFree(b)
    BY <2>3, LargestFreeIs, WalkedAll
  <2>5. /\ s \in Nat /\ a[s].size \in Nat /\ Following(a, s) = s + 1 + a[s].size
        /\ t \in Nat /\ b[t].size \in Nat /\ Following(b, t) = t + 1 + b[t].size
    BY <2>2, SoundHeader
  <2> QED BY <1>1, <2>1, <2>3, <2>4, <2>5
<1> QED BY <1>1, <1>2

-----------------------------------------------------------------------------
(* Processes *)

(* The inductive invariant.  ExecsNest gives termination a frame to resume *)
(* and Sound gives every walk a chain; a resident program is no longer a   *)
(* process, so no exit frees what it keeps.                                *)
IInv ==
    /\ TypeOK
    /\ ChainTiles
    /\ ProcessesHoldTheirBlocks
    /\ ResidentsStay
    /\ ExecsNest
    /\ resident \cap DOMAIN psp = {}
    /\ phase = "boot" => cur_psp = 0 /\ DOMAIN psp = {}

-----------------------------------------------------------------------------
(* The blocks of processes and residents under an arena step *)

LEMMA IInvSound ==
  ASSUME IInv
  PROVE  /\ Sound(arena)
         /\ cur_psp \in Nat /\ alloc_strat \in 0 .. 2
         /\ \A p \in DOMAIN psp \cup resident :
               /\ p \in Nat /\ p # FREE
               /\ p - 1 \in DOMAIN arena
               /\ arena[p - 1].owner = p
<1>1. Sound(arena)
  BY DEF IInv, TypeOK, ChainTiles, Sound
<1>2. ASSUME NEW p \in Nat, p - 1 \in DOMAIN arena
      PROVE  p # FREE
  <2>1. p - 1 \in Nat
    BY <1>1, <1>2, SoundHeader
  <2> QED BY <2>1 DEF FREE
<1>3. \A p \in DOMAIN psp : p \in Nat /\ p - 1 \in DOMAIN arena /\ arena[p - 1].owner = p
  BY DEF IInv, TypeOK, ProcessesHoldTheirBlocks
<1>4. \A p \in resident : p \in Nat /\ p - 1 \in DOMAIN arena /\ arena[p - 1].owner = p
  BY DEF IInv, TypeOK, ResidentsStay
<1> QED BY <1>1, <1>2, <1>3, <1>4 DEF IInv, TypeOK

LEMMA Keeps ==
  ASSUME IInv, NEW S, Untouched(arena, arena', S)
  PROVE  \A p \in DOMAIN psp \cup resident :
            p - 1 \notin S => /\ p - 1 \in DOMAIN arena'
                              /\ arena'[p - 1].owner = p
                              /\ arena'[p - 1].size = arena[p - 1].size
BY IInvSound DEF Untouched, IsFree

LEMMA KeepsOthers ==
  ASSUME NEW S, Untouched(arena, arena', S),
         \A s \in S : s \in DOMAIN arena => arena[s].owner \in {FREE, cur_psp}
  PROVE  OthersKept
BY DEF Untouched, OthersKept, IsFree

(* A step of the running process that only rewrites the arena and leaves   *)
(* its PSP block alone.                                                    *)
LEMMA ArenaStep ==
  ASSUME IInv, phase # "boot", Sound(arena'),
         NEW S \in SUBSET Own(arena, cur_psp), cur_psp - 1 \notin S,
         Untouched(arena, arena', S),
         UNCHANGED <<alloc_strat, cur_psp, psp, frames, resident, phase>>
  PROVE  IInv' /\ OthersKept
<1>1. \A p \in DOMAIN psp \cup resident : p - 1 \notin S
  BY IInvSound DEF Own
<1>2. \A p \in DOMAIN psp \cup resident :
         /\ p - 1 \in DOMAIN arena'
         /\ arena'[p - 1].owner = p
         /\ arena'[p - 1].size = arena[p - 1].size
  BY <1>1, Keeps
<1>3. OthersKept
  BY KeepsOthers DEF Own
<1>4. TypeOK' /\ ChainTiles'
  BY DEF IInv, TypeOK, ChainTiles, Sound
<1>5. ProcessesHoldTheirBlocks' /\ ResidentsStay'
  BY <1>2 DEF IInv, ProcessesHoldTheirBlocks, ResidentsStay
<1>6. ExecsNest'
  BY DEF IInv, ExecsNest
<1> QED BY <1>3, <1>4, <1>5, <1>6 DEF IInv

-----------------------------------------------------------------------------
(* Memory calls *)

LEMMA AllocMemStep ==
  ASSUME IInv, NEW n \in Requests, AllocMem(n)
  PROVE  IInv' /\ OthersKept
<1> DEFINE g == GrantedHead(arena, alloc_strat, n)
<1>1. n \in Nat
  BY SizeAssumption
<1>2. Granted(arena, Alloc(arena, alloc_strat, n, cur_psp), g, cur_psp)
  BY <1>1, IInvSound, AllocSound DEF AllocMem
<1>3. Sound(arena') /\ Untouched(arena, arena', {})
  BY <1>2 DEF Granted, AllocMem
<1> QED BY <1>3, ArenaStep DEF AllocMem, Running

LEMMA FreeMemStep ==
  ASSUME IInv, NEW s \in Own(arena, cur_psp), FreeMem(s)
  PROVE  IInv' /\ OthersKept
<1>1. s \in DOMAIN arena
  BY DEF Own
<1>2. Sound(arena') /\ Untouched(arena, arena', {s})
  BY <1>1, IInvSound, ReleaseSound DEF FreeMem
<1> QED BY <1>2, ArenaStep DEF FreeMem, Running

LEMMA ResizeMemStep ==
  ASSUME IInv, NEW s \in Own(arena, cur_psp), NEW n \in Requests, ResizeMem(s, n)
  PROVE  IInv' /\ OthersKept
<1>1. /\ s \in DOMAIN arena /\ arena[s].owner = cur_psp
      /\ cur_psp \in DOMAIN psp
  BY DEF Own, ResizeMem, Running
<1>2. n \in Nat
  BY SizeAssumption
<1>3. ~IsFree(arena, s)
  BY <1>1, IInvSound DEF IsFree
<1>4. /\ Sound(arena') /\ Untouched(arena, arena', {s})
      /\ s \in DOMAIN arena' /\ arena'[s].owner = cur_psp
  BY <1>1, <1>2, <1>3, IInvSound, ResizeSound DEF ResizeMem
<1>5. \A p \in DOMAIN psp \cup resident :
         p - 1 # s => /\ p - 1 \in DOMAIN arena'
                      /\ arena'[p - 1].owner = p
                      /\ arena'[p - 1].size = arena[p - 1].size
  BY <1>4, Keeps
<1>6. OthersKept
  BY <1>1, <1>4, KeepsOthers
<1>7. s \in Nat /\ arena'[s].size \in Nat /\ cur_psp \in Nat
  BY <1>1, <1>4, IInvSound, SoundHeader
<1>8. CASE s + 1 = cur_psp
  <2>1. psp' = [psp EXCEPT ![cur_psp].top = s + 1 + arena'[s].size]
    BY <1>8 DEF ResizeMem
  <2>2. /\ DOMAIN psp' = DOMAIN psp
        /\ \A p \in DOMAIN psp \ {cur_psp} : psp'[p] = psp[p]
        /\ psp'[cur_psp].frame = psp[cur_psp].frame
        /\ psp'[cur_psp].top = s + 1 + arena'[s].size
        /\ psp'[cur_psp] \in PspFields
    <3>1. psp \in [DOMAIN psp -> PspFields] /\ s + 1 + arena'[s].size \in Nat
      BY <1>7 DEF IInv, TypeOK
    <3>2. psp[cur_psp] \in PspFields
      BY <3>1, <1>1
    <3>3. psp'[cur_psp] = [psp[cur_psp] EXCEPT !.top = s + 1 + arena'[s].size]
      BY <2>1, <3>1, <1>1
    <3>4. psp'[cur_psp] \in PspFields /\ psp'[cur_psp].frame = psp[cur_psp].frame
      BY <3>1, <3>2, <3>3 DEF PspFields
    <3> QED BY <2>1, <3>1, <3>2, <3>3, <3>4, <1>1 DEF PspFields
  <2>3. \A p \in DOMAIN psp : p - 1 = s => p = cur_psp
    BY <1>1, IInvSound
  <2>4. TypeOK'
    <3>1. psp' \in [DOMAIN psp' -> PspFields]
      BY <2>1, <2>2 DEF IInv, TypeOK
    <3> QED BY <3>1, <2>2, <1>4 DEF IInv, TypeOK, ResizeMem, Sound
  <2>5. ProcessesHoldTheirBlocks'
    <3>1. cur_psp - 1 = s
      BY <1>7, <1>8
    <3> QED BY <3>1, <1>4, <1>5, <2>2, <2>3, <1>8 DEF IInv, ProcessesHoldTheirBlocks
  <2>6. ResidentsStay'
    BY <1>4, <1>5, <1>1, IInvSound DEF ResidentsStay, ResizeMem
  <2>7. ExecsNest'
    BY <2>2 DEF IInv, ExecsNest, ResizeMem
  <2> QED BY <1>4, <1>6, <2>2, <2>4, <2>5, <2>6, <2>7
          DEF IInv, ChainTiles, Sound, ResizeMem, Running
<1>9. CASE s + 1 # cur_psp
  <2>1. psp' = psp
    BY <1>9 DEF ResizeMem
  <2>2. cur_psp - 1 \notin {s}
    BY <1>7, <1>9
  <2> QED BY <1>4, <2>1, <2>2, ArenaStep DEF ResizeMem, Running, Own
<1> QED BY <1>8, <1>9

LEMMA SetStrategyStep ==
  ASSUME IInv, NEW v \in 0 .. 2, SetStrategy(v)
  PROVE  IInv' /\ OthersKept
<1>1. arena' = arena /\ cur_psp' = cur_psp /\ psp' = psp /\ frames' = frames
      /\ resident' = resident /\ phase' = phase /\ alloc_strat' \in 0 .. 2
  BY DEF SetStrategy
<1>2. TypeOK' /\ ChainTiles' /\ ProcessesHoldTheirBlocks' /\ ResidentsStay' /\ ExecsNest'
  BY <1>1 DEF IInv, TypeOK, ChainTiles, ProcessesHoldTheirBlocks, ResidentsStay, ExecsNest
<1> QED BY <1>1, <1>2 DEF IInv, OthersKept

-----------------------------------------------------------------------------
(* EXEC *)

LEMMA ProgParNat ==
  ASSUME NEW a, Sound(a), NEW img \in Images
  PROVE  ProgPar(a, img) \in Nat
<1>1. img.need \in Nat /\ img.want \in Nat
  BY SizeAssumption
<1>2. LargestFree(a) \in Nat
  BY LargestFreeIs
<1>3. Min({img.want, LargestFree(a)}) \in Nat
  BY <1>1, <1>2, NatHasMin
<1> QED BY <1>1, <1>3 DEF ProgPar

(* Both allocations of an EXEC that finds room. *)
LEMMA LoadedSound ==
  ASSUME NEW a, Sound(a), NEW env \in EnvSizes, NEW img \in Images, Fit(a, env, img)
  PROVE  LET w  == WithEnv(a, env)
             l  == Loaded(a, env, img)
             eh == EnvHead(a, env)
             ph == ProgHead(a, env, img)
         IN  /\ Granted(a, w, eh, ENV_OWNER_TEMP)
             /\ Granted(w, l, ph, ph + 1)
             /\ ph \in Nat /\ eh \in Nat /\ eh # ph
<1> DEFINE w  == WithEnv(a, env)
           l  == Loaded(a, env, img)
           eh == EnvHead(a, env)
           ph == ProgHead(a, env, img)
           n  == ProgPar(w, img)
<1>1. env \in Nat /\ ENV_OWNER_TEMP \in Nat /\ ENV_OWNER_TEMP # FREE /\ 0 \in 0 .. 2
  BY SizeAssumption DEF ENV_OWNER_TEMP, FREE
<1>2. CanAlloc(a, 0, env) /\ CanAlloc(w, 0, n)
  BY DEF Fit
<1>3. \A b, m : GrantedHead(b, 0, m) = FirstFit(b, m)
  BY DEF GrantedHead
<1>4. Granted(a, w, eh, ENV_OWNER_TEMP)
  BY <1>1, <1>2, <1>3, AllocSound DEF WithEnv, EnvHead
<1> HIDE DEF w, n
<1>5. Sound(w) /\ eh \in DOMAIN w /\ ~IsFree(w, eh)
  BY <1>4, <1>1 DEF Granted, IsFree
<1>6. n \in Nat
  BY <1>5, ProgParNat DEF n
<1>7. ph = FirstFit(w, n) /\ ph \in DOMAIN w /\ IsFree(w, ph)
  BY <1>5, <1>6, <1>2, PicksFit DEF ProgHead, CanAlloc, w, n
<1>8. ph \in Nat /\ eh \in Nat
  BY <1>5, <1>7, SoundHeader
<1> HIDE DEF ph
<1>9. ph + 1 \in Nat
  BY <1>8
<1>10. Granted(w, Alloc(w, 0, n, ph + 1), ph, ph + 1)
  BY <1>1, <1>2, <1>3, <1>5, <1>6, <1>7, <1>9, AllocSound
<1>11. l = Alloc(w, 0, n, ph + 1)
  BY <1>7 DEF Loaded, WithProgram, w, n
<1> QED BY <1>4, <1>5, <1>7, <1>8, <1>10, <1>11 DEF w, ph

(* The process child is the current one, with the block before its PSP, a PSP in *)
(* the frame it was started in, and every other process as it was. *)
IsStarted(child, frame) ==
    /\ Sound(arena') /\ Untouched(arena, arena', {})
    /\ cur_psp' = child /\ child \in Nat /\ child \notin DOMAIN psp \cup resident
    /\ child - 1 \in DOMAIN arena' /\ arena'[child - 1].owner = child
    /\ DOMAIN psp' = DOMAIN psp \cup {child}
    /\ psp' \in [DOMAIN psp' -> PspFields]
    /\ psp'[child].frame = frame
    /\ psp'[child].top = child + arena'[child - 1].size
    /\ \A p \in DOMAIN psp : psp'[p] = psp[p]

(* A started program: its blocks are new, everyone else's stay. *)
LEMMA NewProcess ==
  ASSUME IInv, NEW env \in EnvSizes, NEW img \in Images, NEW frame \in Nat,
         Fit(arena, env, img), BuildPsp(env, img, frame)
  PROVE  IsStarted(ProgHead(arena, env, img) + 1, frame)
<1> DEFINE w  == WithEnv(arena, env)
           l  == Loaded(arena, env, img)
           eh == EnvHead(arena, env)
           ph == ProgHead(arena, env, img)
           child == ph + 1
<1>1. Sound(arena)
  BY IInvSound
<1>2. /\ Granted(arena, w, eh, ENV_OWNER_TEMP)
      /\ Granted(w, l, ph, child)
      /\ ph \in Nat /\ eh \in Nat /\ eh # ph
  BY <1>1, LoadedSound
<1>3. /\ arena' = SetOwner(l, {eh}, child)
      /\ psp' = [p \in DOMAIN psp \cup {child} |->
                   IF p = child
                   THEN [parent |-> cur_psp, env |-> eh + 1,
                         top |-> child + arena'[ph].size, frame |-> frame]
                   ELSE psp[p]]
      /\ cur_psp' = child
  BY DEF BuildPsp
<1> HIDE DEF w, l, eh, ph
<1>4. child \in Nat /\ child - 1 = ph
  BY <1>2
<1>5. ENV_OWNER_TEMP # FREE
  BY DEF ENV_OWNER_TEMP, FREE
<1>6. /\ Sound(l) /\ Untouched(arena, l, {})
      /\ eh \in DOMAIN l /\ l[eh].owner = ENV_OWNER_TEMP
      /\ ph \in DOMAIN l /\ l[ph].owner = child
      /\ ph \in DOMAIN arena => IsFree(arena, ph)
      /\ eh \in DOMAIN arena => IsFree(arena, eh)
  BY <1>2, <1>5, UntouchedTrans DEF Granted, Untouched, IsFree
<1>7. /\ Sound(arena') /\ DOMAIN arena' = DOMAIN l
      /\ \A t \in DOMAIN l : /\ arena'[t].size = l[t].size
                             /\ arena'[t].owner = IF t \in {eh} THEN child ELSE l[t].owner
  BY <1>3, <1>4, <1>6, SetOwnerSound
<1>8. Untouched(arena, arena', {})
  BY <1>6, <1>7 DEF Untouched, IsFree
<1>9. child \notin DOMAIN psp \cup resident
  BY <1>4, <1>6, IInvSound DEF IsFree
<1>10. /\ DOMAIN psp' = DOMAIN psp \cup {child}
       /\ psp'[child] = [parent |-> cur_psp, env |-> eh + 1,
                         top |-> child + arena'[ph].size, frame |-> frame]
       /\ \A p \in DOMAIN psp : psp'[p] = psp[p]
  BY <1>3, <1>9
<1>11. psp'[child] \in PspFields
  <2>1. arena'[ph].size \in Nat
    BY <1>6, <1>7, SoundHeader
  <2>2. cur_psp \in Nat /\ eh + 1 \in Nat /\ child + arena'[ph].size \in Nat
    BY <2>1, <1>2, <1>4, IInvSound
  <2> QED BY <2>2, <1>10 DEF PspFields
<1>12. psp' \in [DOMAIN psp' -> PspFields]
  <2>1. psp \in [DOMAIN psp -> PspFields]
    BY DEF IInv, TypeOK
  <2>2. \A p \in DOMAIN psp' : psp'[p] \in PspFields
    BY <2>1, <1>10, <1>11
  <2>3. psp' = [p \in DOMAIN psp' |-> psp'[p]]
    BY <1>3
  <2> QED BY <2>2, <2>3
<1> HIDE DEF child
<1>13. psp'[child].frame = frame /\ psp'[child].top = child + arena'[ph].size
  BY <1>10
<1>14. arena'[ph].owner = child /\ ph \in DOMAIN arena'
  BY <1>2, <1>6, <1>7
<1> QED BY <1>3, <1>4, <1>7, <1>8, <1>9, <1>10, <1>12, <1>13, <1>14 DEF child, ph, IsStarted

(* The new process among the others. *)
LEMMA StartStep ==
  ASSUME IInv, NEW env \in EnvSizes, NEW img \in Images, NEW frame \in Nat,
         Fit(arena, env, img), BuildPsp(env, img, frame),
         UNCHANGED <<alloc_strat, resident>>, phase' = "run",
         frames' \in Seq(Nat), frame = Len(frames'), frame >= 1,
         \A i \in 2 .. frame : frames'[i] \in DOMAIN psp /\ psp[frames'[i]].frame = i - 1
  PROVE  IInv' /\ OthersKept
<1> DEFINE child == ProgHead(arena, env, img) + 1
<1>1. /\ Sound(arena') /\ Untouched(arena, arena', {})
      /\ cur_psp' = child /\ child \in Nat /\ child \notin DOMAIN psp \cup resident
      /\ child - 1 \in DOMAIN arena' /\ arena'[child - 1].owner = child
      /\ DOMAIN psp' = DOMAIN psp \cup {child}
      /\ psp' \in [DOMAIN psp' -> PspFields]
      /\ psp'[child].frame = frame
      /\ psp'[child].top = child + arena'[child - 1].size
      /\ \A p \in DOMAIN psp : psp'[p] = psp[p]
  <2>1. IsStarted(child, frame)
    BY NewProcess
  <2> HIDE DEF child
  <2> QED BY <2>1 DEF IsStarted
<1> HIDE DEF child
<1>2. \A p \in DOMAIN psp \cup resident :
         /\ p - 1 \in DOMAIN arena'
         /\ arena'[p - 1].owner = p
         /\ arena'[p - 1].size = arena[p - 1].size
  BY <1>1, Keeps
<1>3. OthersKept
  BY <1>1, KeepsOthers
<1>4. TypeOK'
  BY <1>1 DEF IInv, TypeOK, Sound
<1>5. ProcessesHoldTheirBlocks'
  BY <1>1, <1>2 DEF IInv, ProcessesHoldTheirBlocks
<1>6. ResidentsStay'
  BY <1>2 DEF ResidentsStay
<1>7. ExecsNest'
  BY <1>1 DEF ExecsNest
<1> QED BY <1>1, <1>3, <1>4, <1>5, <1>6, <1>7 DEF IInv, ChainTiles, Sound

LEMMA BootStep ==
  ASSUME IInv, NEW img \in Images, Boot(img)
  PROVE  IInv' /\ OthersKept
<1>1. PICK env \in EnvSizes :
         IF Fit(arena, env, img)
         THEN /\ BuildPsp(env, img, 1)
              /\ frames' = <<cur_psp>>
              /\ phase' = "run"
              /\ UNCHANGED <<alloc_strat, resident>>
         ELSE /\ phase' = "halt"
              /\ UNCHANGED <<arena, alloc_strat, cur_psp, psp, frames, resident>>
  BY DEF Boot
<1>2. CASE Fit(arena, env, img)
  <2>1. cur_psp \in Nat
    BY IInvSound
  <2>2. /\ BuildPsp(env, img, 1) /\ frames' = <<cur_psp>> /\ phase' = "run"
        /\ UNCHANGED <<alloc_strat, resident>>
    BY <1>1, <1>2
  <2>3. frames' \in Seq(Nat) /\ Len(frames') = 1
    BY <2>1, <2>2
  <2> QED BY <1>2, <2>2, <2>3, StartStep
<1>3. CASE ~Fit(arena, env, img)
  <2>1. UNCHANGED <<arena, alloc_strat, cur_psp, psp, frames, resident>> /\ phase' = "halt"
    BY <1>1, <1>3
  <2>2. TypeOK' /\ ChainTiles' /\ ProcessesHoldTheirBlocks' /\ ResidentsStay' /\ ExecsNest'
    BY <2>1 DEF IInv, TypeOK, ChainTiles, ProcessesHoldTheirBlocks, ResidentsStay, ExecsNest
  <2> QED BY <2>1, <2>2 DEF IInv, OthersKept
<1> QED BY <1>2, <1>3

LEMMA ExecStep ==
  ASSUME IInv, NEW env \in EnvSizes, NEW img \in Images, Exec(env, img)
  PROVE  IInv' /\ OthersKept
<1> DEFINE frame == Len(frames) + 1
<1>1. /\ frames \in Seq(Nat) /\ cur_psp \in Nat /\ frame \in Nat
      /\ phase = "run" /\ cur_psp \in DOMAIN psp
  BY DEF IInv, TypeOK, Exec, Running
<1>2. /\ frames' \in Seq(Nat) /\ Len(frames') = frame /\ frame >= 1
      /\ frames'[frame] = cur_psp
      /\ \A i \in 1 .. Len(frames) : frames'[i] = frames[i]
  BY <1>1 DEF Exec
<1>3. ASSUME NEW i \in 2 .. frame
      PROVE  frames'[i] \in DOMAIN psp /\ psp[frames'[i]].frame = i - 1
  <2>1. CASE i = frame
    BY <1>1, <1>2, <2>1 DEF IInv, ExecsNest
  <2>2. CASE i # frame
    <3>1. i \in 2 .. Len(frames)
      BY <1>1, <2>2
    <3>2. frames[i] \in DOMAIN psp /\ psp[frames[i]].frame = i - 1
      BY <3>1, <1>1 DEF IInv, ExecsNest
    <3>3. frames'[i] = frames[i]
      BY <3>1, <1>1, <1>2
    <3> QED BY <3>2, <3>3
  <2> QED BY <2>1, <2>2
<1>4. /\ Fit(arena, env, img) /\ BuildPsp(env, img, frame)
      /\ UNCHANGED <<alloc_strat, resident>> /\ phase' = "run"
  BY <1>1 DEF Exec
<1> HIDE DEF frame
<1> QED BY <1>1, <1>2, <1>3, <1>4, StartStep

(* Freeing a block that was granted since a leaves what a held. *)
LEMMA ReleaseGranted ==
  ASSUME NEW a, NEW b, Sound(b), Untouched(a, b, {}), NEW s \in DOMAIN b,
         s \in DOMAIN a => IsFree(a, s)
  PROVE  Sound(Release(b, s)) /\ Untouched(a, Release(b, s), {})
<1>1. Sound(Release(b, s)) /\ Untouched(b, Release(b, s), {s})
  BY ReleaseSound
<1> QED BY <1>1 DEF Untouched, IsFree

LEMMA RolledBackSound ==
  ASSUME NEW a, Sound(a), NEW env \in EnvSizes, NEW img \in Images,
         CanAlloc(a, 0, env), NEW b \in RolledBack(a, env, img)
  PROVE  Sound(b) /\ Untouched(a, b, {})
<1> DEFINE w  == WithEnv(a, env)
           l  == Loaded(a, env, img)
           eh == EnvHead(a, env)
           ph == ProgHead(a, env, img)
<1>1. Granted(a, w, eh, ENV_OWNER_TEMP)
  <2>1. env \in Nat /\ ENV_OWNER_TEMP \in Nat /\ 0 \in 0 .. 2
    BY SizeAssumption DEF ENV_OWNER_TEMP
  <2>2. GrantedHead(a, 0, env) = eh
    BY DEF GrantedHead, EnvHead
  <2> QED BY <2>1, <2>2, AllocSound DEF WithEnv
<1>2. ENV_OWNER_TEMP # FREE
  BY DEF ENV_OWNER_TEMP, FREE
<1> HIDE DEF w, l, eh, ph
<1>3. CASE b = Release(w, eh)
  BY <1>1, <1>3, ReleaseGranted DEF Granted
<1>4. CASE Fit(a, env, img) /\ b = Release(Release(l, ph), eh)
  <2>1. Granted(w, l, ph, ph + 1) /\ eh # ph
    BY <1>4, LoadedSound DEF w, l, eh, ph
  <2>2. Sound(l) /\ Untouched(a, l, {}) /\ ph \in DOMAIN l
    BY <1>1, <2>1, UntouchedTrans DEF Granted
  <2>3. /\ eh \in DOMAIN l /\ ~IsFree(l, eh)
        /\ ph \in DOMAIN a => IsFree(a, ph)
        /\ eh \in DOMAIN a => IsFree(a, eh)
    BY <1>1, <1>2, <2>1 DEF Granted, Untouched, IsFree
  <2> DEFINE c == Release(l, ph)
  <2>4. Sound(c) /\ Untouched(a, c, {})
    BY <2>2, <2>3, ReleaseGranted
  <2>5. eh \in DOMAIN c
    <3>1. Untouched(l, c, {ph})
      BY <2>2, ReleaseSound
    <3> QED BY <3>1, <2>1, <2>3 DEF Untouched
  <2> HIDE DEF c
  <2> QED BY <1>4, <2>3, <2>4, <2>5, ReleaseGranted DEF c
<1> QED BY <1>3, <1>4 DEF RolledBack, w, l, eh, ph

LEMMA ExecFailsStep ==
  ASSUME IInv, NEW env \in EnvSizes, NEW img \in Images, ExecFails(env, img)
  PROVE  IInv' /\ OthersKept
<1>1. Sound(arena') /\ Untouched(arena, arena', {})
  BY IInvSound, RolledBackSound DEF ExecFails
<1> QED BY <1>1, ArenaStep DEF ExecFails, Running

-----------------------------------------------------------------------------
(* Exits *)

(* A process ends: S is what its exit may free. *)
LEMMA ExitStep ==
  ASSUME IInv, Running, ReturnToParent, UNCHANGED alloc_strat,
         Sound(arena'), NEW S \in SUBSET Own(arena, cur_psp),
         Untouched(arena, arena', S),
         resident' = resident \/
            /\ resident' = resident \cup {cur_psp}
            /\ cur_psp - 1 \in DOMAIN arena' /\ arena'[cur_psp - 1].owner = cur_psp
  PROVE  IInv' /\ OthersKept
<1> DEFINE f == psp[cur_psp].frame
<1>1. /\ frames \in Seq(Nat) /\ f = Len(frames) /\ f \in Nat /\ f >= 1
      /\ psp[cur_psp].frame = f
      /\ cur_psp \in DOMAIN psp
      /\ \A i \in 2 .. f : frames[i] \in DOMAIN psp /\ psp[frames[i]].frame = i - 1
  BY DEF IInv, TypeOK, ExecsNest, Running
<1>2. /\ cur_psp' = frames[f]
      /\ frames' = SubSeq(frames, 1, f - 1)
      /\ psp' = [p \in DOMAIN psp \ {cur_psp} |-> psp[p]]
      /\ phase' = IF f = 1 THEN "halt" ELSE "run"
  BY DEF ReturnToParent
<1> HIDE DEF f
<1>3. /\ DOMAIN psp' = DOMAIN psp \ {cur_psp}
      /\ \A p \in DOMAIN psp' : psp'[p] = psp[p]
  BY <1>2
<1>4. /\ frames' \in Seq(Nat) /\ Len(frames') = f - 1
      /\ \A i \in 1 .. (f - 1) : frames'[i] = frames[i]
      /\ cur_psp' \in Nat
  <2>1. f - 1 \in Nat /\ f - 1 <= Len(frames) /\ f \in 1 .. Len(frames)
    BY <1>1
  <2>2. cur_psp' \in Nat
    BY <1>1, <1>2, <2>1
  <2>3. /\ SubSeq(frames, 1, f - 1) \in Seq(Nat)
        /\ Len(SubSeq(frames, 1, f - 1)) = f - 1
        /\ \A i \in 1 .. (f - 1) : SubSeq(frames, 1, f - 1)[i] = frames[i]
    BY <1>1, <2>1, SubSeqProperties
  <2> QED BY <1>2, <2>2, <2>3
<1>5. \A p \in DOMAIN psp \cup resident : p # cur_psp => p - 1 \notin S
  BY IInvSound DEF Own
<1>6. \A p \in DOMAIN psp \cup resident :
         p - 1 \notin S => /\ p - 1 \in DOMAIN arena'
                           /\ arena'[p - 1].owner = p
                           /\ arena'[p - 1].size = arena[p - 1].size
  BY Keeps
<1>7. OthersKept
  BY KeepsOthers DEF Own
<1>8. TypeOK'
  <2>1. psp' \in [DOMAIN psp' -> PspFields]
    BY <1>2, <1>3 DEF IInv, TypeOK
  <2> QED BY <2>1, <1>1, <1>2, <1>3, <1>4 DEF IInv, TypeOK, Sound
<1>9. ProcessesHoldTheirBlocks'
  BY <1>3, <1>5, <1>6 DEF IInv, ProcessesHoldTheirBlocks
<1>10. cur_psp \notin resident
  BY <1>1 DEF IInv
<1>11. ResidentsStay'
  BY <1>1, <1>5, <1>6, <1>10 DEF ResidentsStay
<1>12. resident' \cap DOMAIN psp' = {}
  BY <1>3 DEF IInv
<1>13. ExecsNest'
  <2>1. SUFFICES ASSUME phase' = "run" PROVE ExecsNest'
    BY DEF ExecsNest
  <2>2. f >= 2
    <3>1. f # 1
      BY <1>2, <2>1
    <3> QED BY <1>1, <3>1
  <2>3. \A i \in 2 .. f : frames[i] # cur_psp
    <3> TAKE i \in 2 .. f
    <3>1. i - 1 # f
      BY <1>1
    <3>2. psp[frames[i]].frame = i - 1
      BY <1>1
    <3> QED BY <3>1, <3>2, <1>1
  <2>4. \A i \in 2 .. f : frames[i] \in DOMAIN psp' /\ psp'[frames[i]].frame = i - 1
    BY <1>1, <1>3, <2>3
  <2>5. cur_psp' \in DOMAIN psp' /\ psp'[cur_psp'].frame = f - 1
    <3>1. f \in 2 .. f
      BY <1>1, <2>2
    <3> QED BY <3>1, <1>2, <2>4
  <2>6. \A i \in 2 .. (f - 1) : /\ frames'[i] \in DOMAIN psp'
                                /\ psp'[frames'[i]].frame = i - 1
    <3> TAKE i \in 2 .. (f - 1)
    <3>1. i \in 1 .. (f - 1) /\ i \in 2 .. f
      BY <1>1
    <3> QED BY <3>1, <1>4, <2>4
  <2>7. Len(frames') >= 1
    BY <1>1, <1>4, <2>2
  <2> QED BY <1>4, <2>2, <2>5, <2>6, <2>7 DEF ExecsNest
<1>14. phase' # "boot"
  BY <1>2
<1> QED BY <1>7, <1>8, <1>9, <1>11, <1>12, <1>13, <1>14 DEF IInv, ChainTiles, Sound

LEMMA TerminateStep ==
  ASSUME IInv, Terminate
  PROVE  IInv' /\ OthersKept
<1> DEFINE S == Own(arena, cur_psp) \cap Walked(arena)
           c == SetOwner(arena, S, FREE)
<1>1. /\ Sound(c) /\ DOMAIN c = DOMAIN arena
      /\ \A t \in DOMAIN arena :
            /\ c[t].size = arena[t].size
            /\ c[t].owner = IF t \in S THEN FREE ELSE arena[t].owner
  <2>1. FREE \in Nat
    BY DEF FREE
  <2> QED BY <2>1, IInvSound, SetOwnerSound
<1>2. Untouched(arena, c, S)
  BY <1>1 DEF Untouched
<1>3. arena' = Sweep(c, {})
  BY DEF Terminate, CoalesceAllFree
<1>4. Sound(arena') /\ Untouched(c, arena', {})
  BY <1>1, <1>3, SweepSound
<1>5. S \in SUBSET Own(arena, cur_psp)
  OBVIOUS
<1> HIDE DEF S, c
<1>6. Untouched(arena, arena', S)
  BY <1>2, <1>4 DEF Untouched, IsFree
<1> QED BY <1>4, <1>5, <1>6, ExitStep DEF Terminate

LEMMA ShrunkPspSound ==
  ASSUME IInv, Running, NEW keep \in KeepSizes
  PROVE  LET b == ShrunkPsp(arena, keep) IN
         /\ Sound(b)
         /\ Untouched(arena, b, {cur_psp - 1})
         /\ cur_psp - 1 \in DOMAIN b /\ b[cur_psp - 1].owner = cur_psp
<1> DEFINE h == cur_psp - 1
           n == Max({keep, PSP_PARAS})
           c == SplitLow(arena, h, n)
           b == MergeFreeForward(c, h + 1 + n)
<1>1. Sound(arena) /\ h \in DOMAIN arena /\ arena[h].owner = cur_psp /\ cur_psp # FREE
  BY IInvSound DEF Running
<1>2. keep \in Nat /\ PSP_PARAS \in Nat
  BY SizeAssumption
<1>3. n \in Nat
  <2>1. n \in {keep, PSP_PARAS}
    <3>1. {keep, PSP_PARAS} \in SUBSET (0 .. (keep + PSP_PARAS)) /\ keep + PSP_PARAS \in Nat
      BY <1>2
    <3> QED BY <3>1, NatHasMax
  <2> QED BY <2>1, <1>2
<1> HIDE DEF n
<1>4. CASE n < arena[h].size /\ Splittable(arena, h, n)
  <2>1. arena[h].size > n /\ h \in Nat /\ h + 1 + n # h
    BY <1>1, <1>3, <1>4, SoundHeader
  <2> DEFINE k == h + 1 + n
  <2>2. Carved(arena, c, h, k)
    BY <1>1, <1>3, <1>4, <2>1, CarveSound DEF SplitLow
  <2>3. ShrunkPsp(arena, keep) = b
    BY <1>1, <1>4 DEF ShrunkPsp, Own, n
  <2> HIDE DEF c, h
  <2>4. Sound(c) /\ k \in DOMAIN c /\ h \in DOMAIN c /\ c[h].owner = cur_psp
    BY <1>1, <2>2 DEF Carved
  <2> HIDE DEF k
  <2>5. Sound(b) /\ Untouched(c, b, {k})
    BY <2>4, MergeFreeForwardSound DEF k
  <2> HIDE DEF b
  <2>6. Untouched(arena, b, {h})
    BY <2>2, <2>5 DEF Carved, Untouched, IsFree
  <2>7. h \in DOMAIN b /\ b[h].owner = cur_psp
    BY <1>1, <2>1, <2>4, <2>5 DEF Untouched, IsFree, k
  <2> QED BY <2>3, <2>5, <2>6, <2>7 DEF h
<1>5. CASE ~(n < arena[h].size /\ Splittable(arena, h, n))
  BY <1>1, <1>5 DEF ShrunkPsp, Untouched, n
<1> QED BY <1>4, <1>5

LEMMA TerminateTsrStep ==
  ASSUME IInv, NEW keep \in KeepSizes, TerminateTsr(keep)
  PROVE  IInv' /\ OthersKept
<1> DEFINE a == ShrunkPsp(arena, keep)
           h == cur_psp - 1
           freed == Own(a, cur_psp) \ {h, psp[cur_psp].env - 1}
           S == (freed \cup {h}) \cap Own(arena, cur_psp)
<1>1. Running
  BY DEF TerminateTsr
<1>2. /\ h \in DOMAIN arena /\ arena[h].owner = cur_psp /\ cur_psp # FREE
  BY <1>1, IInvSound DEF Running
<1>3. Sound(a) /\ Untouched(arena, a, {h}) /\ h \in DOMAIN a /\ a[h].owner = cur_psp
  BY <1>1, ShrunkPspSound
<1>4. arena' = Sweep(a, freed) /\ freed \in SUBSET DOMAIN a
  BY DEF TerminateTsr, Own
<1> HIDE DEF a
<1>5. Sound(arena') /\ Untouched(a, arena', freed)
  BY <1>3, <1>4, SweepSound
<1>6. h \in DOMAIN arena' /\ arena'[h].owner = cur_psp
  BY <1>2, <1>3, <1>5 DEF Untouched, IsFree
<1>7. Untouched(arena, arena', S)
  <2>1. ASSUME NEW t \in DOMAIN arena \ S, ~IsFree(arena, t)
        PROVE  t \in DOMAIN a \ freed /\ t # h
    BY <1>2, <1>3, <2>1 DEF Untouched, Own
  <2> QED BY <1>3, <1>5, <2>1 DEF Untouched, IsFree
<1>8. S \in SUBSET Own(arena, cur_psp)
  OBVIOUS
<1>9. /\ ReturnToParent /\ UNCHANGED alloc_strat
      /\ resident' = resident \cup {cur_psp}
  BY DEF TerminateTsr
<1> HIDE DEF S, h
<1> QED BY <1>1, <1>5, <1>6, <1>7, <1>8, <1>9, ExitStep DEF h

-----------------------------------------------------------------------------
(* The theorems *)

LEMMA InitIInv == Init => IInv
<1> SUFFICES ASSUME Init PROVE IInv
  OBVIOUS
<1>1. Sound(arena)
  BY BootArenaSound DEF Init
<1>2. DOMAIN psp = {} /\ psp \in [DOMAIN psp -> PspFields]
  BY DEF Init
<1>3. TypeOK
  BY <1>1, <1>2 DEF Init, TypeOK, Sound
<1> QED BY <1>1, <1>2, <1>3 DEF Init, IInv, ChainTiles, Sound,
        ProcessesHoldTheirBlocks, ResidentsStay, ExecsNest

LEMMA NextStep == IInv /\ Next => IInv' /\ OthersKept
BY AllocMemStep, FreeMemStep, ResizeMemStep, SetStrategyStep, BootStep,
   ExecStep, ExecFailsStep, TerminateStep, TerminateTsrStep DEF Next

LEMMA Stutter == IInv /\ UNCHANGED vars => IInv' /\ OthersKept
<1> SUFFICES ASSUME IInv, UNCHANGED vars PROVE IInv' /\ OthersKept
  OBVIOUS
<1>1. UNCHANGED <<arena, alloc_strat, cur_psp, psp, frames, resident, phase>>
  BY DEF vars
<1>2. TypeOK' /\ ChainTiles' /\ ProcessesHoldTheirBlocks' /\ ResidentsStay' /\ ExecsNest'
  BY <1>1 DEF IInv, TypeOK, ChainTiles, ProcessesHoldTheirBlocks, ResidentsStay, ExecsNest
<1> QED BY <1>1, <1>2 DEF IInv, OthersKept

(* Every reachable state satisfies the inductive invariant. *)
THEOREM Inductive == Spec => []IInv
<1>1. IInv /\ [Next]_vars => IInv'
  BY NextStep, Stutter
<1> QED BY InitIInv, <1>1, PTL DEF Spec

(* The kernel's data stay well-typed under every call, EXEC and exit. *)
THEOREM TypeCorrect == Spec => []TypeOK
<1>1. IInv => TypeOK
  BY DEF IInv
<1> QED BY Inductive, <1>1, PTL

(* No sequence of memory calls, EXECs and exits makes blocks overlap,      *)
(* loses a paragraph or misplaces the 'Z'.                                 *)
THEOREM ChainAlwaysTiles == Spec => []ChainTiles
<1>1. IInv => ChainTiles
  BY DEF IInv
<1> QED BY Inductive, <1>1, PTL

(* Every process holds the block its PSP lies in, and its PSP:02h says how *)
(* far it reaches.                                                         *)
THEOREM ProcessesKeepTheirBlocks == Spec => []ProcessesHoldTheirBlocks
<1>1. IInv => ProcessesHoldTheirBlocks
  BY DEF IInv
<1> QED BY Inductive, <1>1, PTL

(* A resident program keeps its block through everything that runs later.  *)
THEOREM ResidentsKeepTheirBlocks == Spec => []ResidentsStay
<1>1. IInv => ResidentsStay
  BY DEF IInv
<1> QED BY Inductive, <1>1, PTL

(* Exits resume the EXECs that wait in the order they were made. *)
THEOREM ExecsAlwaysNest == Spec => []ExecsNest
<1>1. IInv => ExecsNest
  BY DEF IInv
<1> QED BY Inductive, <1>1, PTL

(* No call, EXEC or exit changes a block of another process. *)
THEOREM OthersAreUntouched == Spec => OthersUntouched
<1>1. IInv /\ [Next]_vars => [OthersKept]_vars
  BY NextStep
<1> QED BY Inductive, <1>1, PTL DEF Spec, OthersUntouched

-----------------------------------------------------------------------------
(* Nothing outlives its owner *)

(* The inductive invariant, when no program asks for zero paragraphs: no   *)
(* block is empty, so that an exit's walk reaches all of its process.      *)
Alive == Positive(arena) /\ OwnersAlive

(* A step that grants at most the blocks of G, to owners that are alive.   *)
LEMMA AliveStep ==
  ASSUME OwnersAlive, Positive(arena'), NEW G, OwnedBefore(arena, arena', G),
         DOMAIN psp \cup resident \subseteq DOMAIN psp' \cup resident',
         \A g \in G : g \in DOMAIN arena' =>
            arena'[g].owner \in {FREE} \cup DOMAIN psp' \cup resident'
  PROVE  Alive'
<1>1. ASSUME NEW s \in DOMAIN arena'
      PROVE  arena'[s].owner \in {FREE} \cup DOMAIN psp' \cup resident'
  <2>1. CASE s \in G
    BY <1>1, <2>1
  <2>2. CASE s \notin G
    BY <1>1, <2>2 DEF OwnersAlive, OwnedBefore, IsFree
  <2> QED BY <2>1, <2>2
<1> QED BY <1>1 DEF Alive, OwnersAlive

LEMMA MemoryCallsAlive ==
  ASSUME IInv, Alive, 0 \notin Requests,
         \/ \E n \in Requests : AllocMem(n)
         \/ \E s \in Own(arena, cur_psp) : FreeMem(s)
         \/ \E s \in Own(arena, cur_psp), n \in Requests : ResizeMem(s, n)
         \/ \E v \in 0 .. 2 : SetStrategy(v)
  PROVE  Alive'
<1>1. Sound(arena) /\ Positive(arena) /\ OwnersAlive /\ \A n \in Requests : n \in Nat /\ n > 0
  BY IInvSound, SizeAssumption DEF Alive
<1>2. ASSUME NEW n \in Requests, AllocMem(n) PROVE Alive'
  <2> DEFINE g == GrantedHead(arena, alloc_strat, n)
  <2>1. /\ arena' = Alloc(arena, alloc_strat, n, cur_psp) /\ CanAlloc(arena, alloc_strat, n)
        /\ UNCHANGED <<psp, resident>> /\ cur_psp \in DOMAIN psp
        /\ cur_psp \in Nat /\ alloc_strat \in 0 .. 2
    BY <1>2, IInvSound DEF AllocMem, Running
  <2>2. Granted(arena, arena', g, cur_psp) /\ Positive(arena')
    BY <1>1, <2>1, AllocSound, AllocPositive
  <2>3. OwnedBefore(arena, arena', {g}) /\ arena'[g].owner = cur_psp
    BY <2>2 DEF Granted, OwnedBefore
  <2> HIDE DEF g
  <2> QED BY <1>1, <2>1, <2>2, <2>3, AliveStep
<1>3. ASSUME NEW s \in Own(arena, cur_psp), FreeMem(s) PROVE Alive'
  <2>1. /\ s \in DOMAIN arena /\ arena' = Release(arena, s) /\ UNCHANGED <<psp, resident>>
        /\ cur_psp \in DOMAIN psp /\ arena[s].owner = cur_psp
    BY <1>3 DEF Own, FreeMem, Running
  <2>2. /\ Positive(arena') /\ OwnedBefore(arena, arena', {s})
        /\ s \in DOMAIN arena' => arena'[s].owner = FREE
    <3>1. LET b == SetOwner(arena, {s}, FREE) IN
          Sound(b) /\ s \in DOMAIN b /\ b[s].owner = FREE
      BY <1>1, <2>1, SetOwnerSound DEF FREE
    <3>2. s \in DOMAIN arena' => arena'[s].owner = FREE
      BY <2>1, <3>1, MergeFreeForwardSound DEF Release
    <3> QED BY <1>1, <2>1, <3>2, ReleasePositive
  <2> QED BY <1>1, <2>1, <2>2, AliveStep
<1>4. ASSUME NEW s \in Own(arena, cur_psp), NEW n \in Requests, ResizeMem(s, n) PROVE Alive'
  <2>1. /\ s \in DOMAIN arena /\ arena' = Resize(arena, s, n) /\ n <= ResizeLimit(arena, s)
        /\ resident' = resident
        /\ psp' = IF s + 1 = cur_psp
                  THEN [psp EXCEPT ![cur_psp].top = s + 1 + arena'[s].size]
                  ELSE psp
    BY <1>4 DEF Own, ResizeMem
  <2>2. DOMAIN psp' = DOMAIN psp
    BY <2>1
  <2>3. Positive(arena') /\ OwnedBefore(arena, arena', {})
    BY <1>1, <2>1, ResizePositive
  <2> QED BY <1>1, <2>1, <2>2, <2>3, AliveStep
<1>5. ASSUME NEW v \in 0 .. 2, SetStrategy(v) PROVE Alive'
  BY <1>5 DEF SetStrategy, Alive, OwnersAlive
<1> QED BY <1>2, <1>3, <1>4, <1>5

LEMMA ProgParPositive ==
  ASSUME NEW a, Sound(a), NEW img \in Images
  PROVE  ProgPar(a, img) \in Nat /\ ProgPar(a, img) > 0
<1>1. img.need \in Nat /\ img.want \in Nat /\ img.need > 0 /\ img.want > 0
  BY SizeAssumption
<1>2. LargestFree(a) \in Nat
  BY LargestFreeIs
<1>3. Min({img.want, LargestFree(a)}) \in {img.want, LargestFree(a)}
  BY <1>1, <1>2, NatHasMin
<1> QED BY <1>1, <1>2, <1>3 DEF ProgPar

LEMMA LoadedPositive ==
  ASSUME NEW a, Sound(a), Positive(a), NEW env \in EnvSizes, NEW img \in Images,
         CanAlloc(a, 0, env)
  PROVE  /\ Positive(WithEnv(a, env))
         /\ Fit(a, env, img) => Positive(Loaded(a, env, img))
<1> DEFINE w  == WithEnv(a, env)
           n  == ProgPar(w, img)
           ph == FirstFit(w, n)
<1>1. env \in Nat /\ env > 0 /\ ENV_OWNER_TEMP \in Nat /\ 0 \in 0 .. 2
  BY SizeAssumption DEF ENV_OWNER_TEMP
<1>2. Positive(w) /\ Sound(w)
  <2>1. Granted(a, w, GrantedHead(a, 0, env), ENV_OWNER_TEMP)
    BY <1>1, AllocSound DEF WithEnv
  <2> QED BY <1>1, <2>1, AllocPositive DEF WithEnv, Granted
<1> HIDE DEF w
<1>3. n \in Nat /\ n > 0
  BY <1>2, ProgParPositive
<1> HIDE DEF n
<1>4. ASSUME Fit(a, env, img) PROVE Positive(Loaded(a, env, img))
  <2>1. CanAlloc(w, 0, n)
    BY <1>4 DEF Fit, w, n
  <2>2. ph \in DOMAIN w
    BY <1>2, <1>3, <2>1, PicksFit DEF CanAlloc
  <2>3. ph + 1 \in Nat
    BY <1>2, <2>2, SoundHeader
  <2>4. Positive(Alloc(w, 0, n, ph + 1))
    BY <1>1, <1>2, <1>3, <2>1, <2>3, AllocPositive
  <2> QED BY <2>4 DEF Loaded, WithProgram, w, n
<1> QED BY <1>2, <1>4 DEF w

(* A started program owns both of its blocks. *)
LEMMA StartAlive ==
  ASSUME IInv, Alive, NEW env \in EnvSizes, NEW img \in Images, NEW frame,
         Fit(arena, env, img), BuildPsp(env, img, frame), resident' = resident
  PROVE  Alive'
<1> DEFINE w  == WithEnv(arena, env)
           l  == Loaded(arena, env, img)
           eh == EnvHead(arena, env)
           ph == ProgHead(arena, env, img)
           child == ph + 1
<1>1. Sound(arena) /\ Positive(arena) /\ OwnersAlive
  BY IInvSound DEF Alive
<1>2. /\ Granted(arena, w, eh, ENV_OWNER_TEMP)
      /\ Granted(w, l, ph, child)
      /\ ph \in Nat
  BY <1>1, LoadedSound
<1>3. Positive(l)
  BY <1>1, LoadedPositive DEF Fit
<1>4. arena' = SetOwner(l, {eh}, child) /\ DOMAIN psp' = DOMAIN psp \cup {child}
  BY DEF BuildPsp
<1> HIDE DEF w, l, eh, ph
<1>5. child \in Nat
  BY <1>2
<1> HIDE DEF child
<1>6. /\ Sound(arena') /\ DOMAIN arena' = DOMAIN l
      /\ \A t \in DOMAIN l : arena'[t].owner = IF t \in {eh} THEN child ELSE l[t].owner
  BY <1>2, <1>4, <1>5, SetOwnerSound DEF Granted
<1>7. Positive(arena')
  BY <1>2, <1>3, <1>6, StaysPositive DEF Granted
<1>8. OwnedBefore(arena, arena', {eh, ph})
  BY <1>2, <1>6 DEF Granted, OwnedBefore, IsFree
<1>9. \A g \in {eh, ph} : g \in DOMAIN arena' => arena'[g].owner = child
  BY <1>2, <1>6 DEF Granted
<1> QED BY <1>1, <1>4, <1>7, <1>8, <1>9, AliveStep

(* Of a failed EXEC nothing is left. *)
LEMMA RolledBackOwners ==
  ASSUME NEW a, Sound(a), Positive(a), NEW env \in EnvSizes, NEW img \in Images,
         CanAlloc(a, 0, env), NEW b \in RolledBack(a, env, img)
  PROVE  Positive(b) /\ OwnedBefore(a, b, {})
<1> DEFINE w  == WithEnv(a, env)
           l  == Loaded(a, env, img)
           eh == EnvHead(a, env)
           ph == ProgHead(a, env, img)
<1>1. Granted(a, w, eh, ENV_OWNER_TEMP)
  <2>1. env \in Nat /\ ENV_OWNER_TEMP \in Nat /\ 0 \in 0 .. 2
    BY SizeAssumption DEF ENV_OWNER_TEMP
  <2>2. GrantedHead(a, 0, env) = eh
    BY DEF GrantedHead, EnvHead
  <2> QED BY <2>1, <2>2, AllocSound DEF WithEnv
<1>2. Positive(w) /\ (Fit(a, env, img) => Positive(l))
  BY LoadedPositive
<1>3. ASSUME NEW c, Sound(c), NEW s \in DOMAIN c
      PROVE  s \in DOMAIN Release(c, s) /\ IsFree(Release(c, s), s)
  <2>1. LET d == SetOwner(c, {s}, FREE) IN Sound(d) /\ s \in DOMAIN d /\ IsFree(d, s)
    BY <1>3, SetOwnerSound DEF FREE, IsFree
  <2> QED BY <2>1, MergeFreeForwardSound DEF Release, IsFree
<1> HIDE DEF w, l, eh, ph
<1>4. CASE b = Release(w, eh)
  <2>1. Positive(b) /\ OwnedBefore(w, b, {eh}) /\ IsFree(b, eh)
    BY <1>1, <1>2, <1>3, <1>4, ReleasePositive DEF Granted
  <2> QED BY <1>1, <2>1 DEF Granted, OwnedBefore, IsFree
<1>5. CASE Fit(a, env, img) /\ b = Release(Release(l, ph), eh)
  <2> DEFINE c == Release(l, ph)
  <2>1. Granted(w, l, ph, ph + 1) /\ eh # ph
    BY <1>5, LoadedSound DEF w, l, eh, ph
  <2>2. Sound(c) /\ Positive(c) /\ OwnedBefore(l, c, {ph}) /\ IsFree(c, ph)
    BY <1>2, <1>3, <1>5, <2>1, ReleasePositive, ReleaseSound DEF Granted
  <2>3. eh \in DOMAIN c
    <3>1. Untouched(l, c, {ph})
      BY <2>1, ReleaseSound DEF Granted
    <3>2. eh \in DOMAIN l /\ ~IsFree(l, eh)
      BY <1>1, <2>1 DEF Granted, Untouched, IsFree, ENV_OWNER_TEMP, FREE
    <3> QED BY <2>1, <3>1, <3>2 DEF Untouched
  <2> HIDE DEF c
  <2>4. Positive(b) /\ OwnedBefore(c, b, {eh}) /\ IsFree(b, eh)
    BY <1>3, <1>5, <2>2, <2>3, ReleasePositive DEF c
  <2> QED BY <1>1, <2>1, <2>2, <2>4 DEF Granted, OwnedBefore, IsFree
<1> QED BY <1>4, <1>5 DEF RolledBack, w, l, eh, ph

LEMMA ExecAlive ==
  ASSUME IInv, Alive,
         \/ \E img \in Images : Boot(img)
         \/ \E env \in EnvSizes, img \in Images : Exec(env, img) \/ ExecFails(env, img)
  PROVE  Alive'
<1>1. Sound(arena) /\ Positive(arena) /\ OwnersAlive
  BY IInvSound DEF Alive
<1>2. ASSUME NEW img \in Images, Boot(img) PROVE Alive'
  <2>1. PICK env \in EnvSizes :
           \/ Fit(arena, env, img) /\ BuildPsp(env, img, 1) /\ resident' = resident
           \/ UNCHANGED <<arena, psp, resident>>
    BY <1>2 DEF Boot
  <2>2. CASE UNCHANGED <<arena, psp, resident>>
    BY <2>2 DEF Alive, OwnersAlive
  <2> QED BY <2>1, <2>2, StartAlive
<1>3. ASSUME NEW env \in EnvSizes, NEW img \in Images, Exec(env, img) PROVE Alive'
  BY <1>3, StartAlive DEF Exec
<1>4. ASSUME NEW env \in EnvSizes, NEW img \in Images, ExecFails(env, img) PROVE Alive'
  <2>1. Positive(arena') /\ OwnedBefore(arena, arena', {}) /\ UNCHANGED <<psp, resident>>
    BY <1>1, <1>4, RolledBackOwners DEF ExecFails
  <2> QED BY <1>1, <2>1, AliveStep
<1> QED BY <1>2, <1>3, <1>4

LEMMA TerminateAlive ==
  ASSUME IInv, Alive, Terminate
  PROVE  Alive'
<1> DEFINE S == Own(arena, cur_psp) \cap Walked(arena)
           c == SetOwner(arena, S, FREE)
<1>1. Sound(arena) /\ Positive(arena) /\ OwnersAlive
  BY IInvSound DEF Alive
<1>2. S = Own(arena, cur_psp)
  BY <1>1, WalkedAll DEF Own
<1>3. arena' = Sweep(c, {})
  BY DEF Terminate, CoalesceAllFree
<1>4. DOMAIN psp' = DOMAIN psp \ {cur_psp} /\ resident' = resident
  BY DEF Terminate, ReturnToParent
<1>5. /\ Sound(c) /\ DOMAIN c = DOMAIN arena
      /\ \A t \in DOMAIN arena : c[t].owner = IF t \in S THEN FREE ELSE arena[t].owner
  BY <1>1, SetOwnerSound DEF FREE
<1> HIDE DEF S, c
<1>6. Positive(c)
  BY <1>1, <1>5, StaysPositive
<1>7. /\ Positive(arena') /\ DOMAIN arena' \subseteq DOMAIN c
      /\ \A t \in DOMAIN arena' : arena'[t].owner = c[t].owner
  BY <1>3, <1>5, <1>6, SweepPositive
<1>8. \A t \in DOMAIN arena' : arena'[t].owner \in {FREE} \cup DOMAIN psp' \cup resident'
  BY <1>1, <1>2, <1>4, <1>5, <1>7 DEF OwnersAlive, Own
<1> QED BY <1>7, <1>8 DEF Alive, OwnersAlive

LEMMA TerminateTsrAlive ==
  ASSUME IInv, Alive, NEW keep \in KeepSizes, TerminateTsr(keep)
  PROVE  Alive'
<1> DEFINE a == ShrunkPsp(arena, keep)
           h == cur_psp - 1
           n == Max({keep, PSP_PARAS})
           freed == Own(a, cur_psp) \ {h, psp[cur_psp].env - 1}
<1>1. Sound(arena) /\ Positive(arena) /\ OwnersAlive
  BY IInvSound DEF Alive
<1>2. n \in Nat /\ n > 0
  <2>1. keep \in Nat /\ PSP_PARAS \in Nat /\ PSP_PARAS > 0
    BY SizeAssumption
  <2>2. {keep, PSP_PARAS} \in SUBSET (0 .. (keep + PSP_PARAS)) /\ keep + PSP_PARAS \in Nat
    BY <2>1
  <2>3. n \in {keep, PSP_PARAS} /\ n >= PSP_PARAS
    BY <2>2, NatHasMax
  <2> QED BY <2>1, <2>3
<1>3. Sound(a) /\ Positive(a) /\ OwnedBefore(arena, a, {})
  <2>0. Sound(a)
    BY ShrunkPspSound DEF TerminateTsr
  <2>1. CASE h \in Own(arena, cur_psp) /\ n < arena[h].size /\ Splittable(arena, h, n)
    <3> DEFINE c == SplitLow(arena, h, n)
               k == h + 1 + n
    <3>1. a = MergeFreeForward(c, k)
      BY <2>1 DEF ShrunkPsp
    <3>2. h \in DOMAIN arena
      BY <2>1 DEF Own
    <3> HIDE DEF n, h
    <3>3. /\ Sound(c) /\ Positive(c) /\ k \in DOMAIN c
          /\ \A t \in DOMAIN arena : c[t].owner = arena[t].owner
          /\ \A t \in DOMAIN c \ DOMAIN arena : c[t].owner = FREE
      BY <1>1, <1>2, <2>1, <3>2, SplitLowSound, SplitPositive
    <3> HIDE DEF c, k, a
    <3>4. DOMAIN a \subseteq DOMAIN c /\ \A t \in DOMAIN a : a[t].owner = c[t].owner
      BY <3>1, <3>3, MergeFreeForwardSound
    <3> QED BY <2>0, <3>3, <3>4, StaysPositive DEF OwnedBefore, IsFree
  <2>2. CASE ~(h \in Own(arena, cur_psp) /\ n < arena[h].size /\ Splittable(arena, h, n))
    <3>1. a = arena
      BY <2>2 DEF ShrunkPsp
    <3> QED BY <1>1, <3>1 DEF OwnedBefore
  <2> QED BY <2>1, <2>2
<1>4. arena' = Sweep(a, freed) /\ freed \in SUBSET DOMAIN a
  BY DEF TerminateTsr, Own
<1>5. DOMAIN psp' = DOMAIN psp \ {cur_psp} /\ resident' = resident \cup {cur_psp}
  BY DEF TerminateTsr, ReturnToParent
<1> HIDE DEF a, n, h, freed
<1>6. /\ Positive(arena') /\ DOMAIN arena' \subseteq DOMAIN a
      /\ \A t \in DOMAIN arena' : arena'[t].owner = IF t \in freed THEN FREE ELSE a[t].owner
  BY <1>3, <1>4, SweepPositive
<1>7. OwnedBefore(arena, arena', {})
  BY <1>3, <1>6 DEF OwnedBefore, IsFree
<1> QED BY <1>1, <1>5, <1>6, <1>7, AliveStep

LEMMA AliveInductive ==
  ASSUME 0 \notin Requests
  PROVE  Spec => []Alive
<1>1. Init => Alive
  BY ArenaAssumption DEF Init, Alive, OwnersAlive, Positive, BootArena, FREE
<1>2. IInv /\ Alive /\ [Next]_vars => Alive'
  <2>1. IInv /\ Alive /\ Next => Alive'
    BY MemoryCallsAlive, ExecAlive, TerminateAlive, TerminateTsrAlive DEF Next
  <2>2. Alive /\ UNCHANGED vars => Alive'
    BY DEF vars, Alive, OwnersAlive
  <2> QED BY <2>1, <2>2
<1> QED BY <1>1, <1>2, Inductive, PTL DEF Spec

(* Nothing outlives its owner, as long as no program asks for a block of   *)
(* zero paragraphs, which would end the walk of every later exit.          *)
THEOREM OwnersAreAlive ==
  ASSUME 0 \notin Requests
  PROVE  Spec => []OwnersAlive
<1>1. Alive => OwnersAlive
  BY DEF Alive
<1> QED BY AliveInductive, <1>1, PTL

(* What a failed AH=48h reports as the largest block is granted under      *)
(* every strategy, as long as no program asks for zero paragraphs.         *)
THEOREM LargestIsAlwaysGrantable ==
  ASSUME 0 \notin Requests
  PROVE  Spec => []LargestIsGrantable
<1>1. IInv /\ Alive => LargestIsGrantable
  <2> SUFFICES ASSUME IInv, Alive, LargestFree(arena) > 0, NEW strat \in 0 .. 2
               PROVE  CanAlloc(arena, strat, LargestFree(arena))
    BY DEF LargestIsGrantable
  <2>1. Sound(arena) /\ Positive(arena)
    BY IInvSound DEF Alive
  <2>2. PICK s \in Walked(arena) : IsFree(arena, s) /\ arena[s].size = LargestFree(arena)
    BY <2>1, LargestFreeIs
  <2>3. LargestFree(arena) \in Nat
    BY <2>1, LargestFreeIs
  <2>4. s \in Fits(arena, LargestFree(arena))
    BY <2>2, <2>3 DEF Fits
  <2> QED BY <2>1, <2>4, WalkedAll DEF CanAlloc
<1> QED BY AliveInductive, Inductive, <1>1, PTL

-----------------------------------------------------------------------------
(* Exits leave no free neighbours *)

(* The exit's pass merges every free block with the ones after it. *)
LEMMA TerminateCoalesces ==
  ASSUME IInv, Alive, Terminate
  PROVE  NoAdjacentFree(arena')
<1> DEFINE S == Own(arena, cur_psp) \cap Walked(arena)
           c == SetOwner(arena, S, FREE)
<1>1. Sound(arena) /\ Positive(arena)
  BY IInvSound DEF Alive
<1>2. arena' = Sweep(c, {})
  BY DEF Terminate, CoalesceAllFree
<1>3. Sound(c) /\ DOMAIN c = DOMAIN arena
  BY <1>1, SetOwnerSound DEF FREE
<1> HIDE DEF c
<1>4. Positive(c)
  BY <1>1, <1>3, StaysPositive
<1>5. /\ Sound(arena') /\ DOMAIN arena' \subseteq DOMAIN c
      /\ \A t \in DOMAIN arena' : arena'[t].owner = c[t].owner
      /\ \A t \in DOMAIN c \ DOMAIN arena' : IsFree(c, t)
      /\ \A t \in DOMAIN arena' :
            IsFree(c, t) => \A s \in DOMAIN c : Following(c, s) = t => ~IsFree(c, s)
  BY <1>2, <1>3, <1>4, SweepPositive, SweepSound
<1> SUFFICES ASSUME NEW s \in DOMAIN arena', IsFree(arena', s),
                    Following(arena', s) \in DOMAIN arena', IsFree(arena', Following(arena', s))
             PROVE  FALSE
  BY DEF NoAdjacentFree
<1> DEFINE t == Following(arena', s)
<1>6. /\ s \in Nat /\ s < t /\ t \in Nat
      /\ \A u \in DOMAIN arena' : ~(s < u /\ u < t)
  BY <1>5, SoundHeader, ArenaAssumption
<1>7. t \in DOMAIN arena' /\ IsFree(c, t) /\ IsFree(c, s)
  BY <1>5 DEF IsFree
<1> HIDE DEF t
<1>8. PICK p \in DOMAIN c : s <= p /\ p < t /\ Following(c, p) = t
  BY <1>3, <1>5, <1>6, <1>7, HasPredecessor
<1>9. ~IsFree(c, p)
  BY <1>5, <1>7, <1>8
<1>10. p \in Nat
  BY <1>3, SoundHeader
<1>11. p \notin DOMAIN arena'
  BY <1>6, <1>7, <1>8, <1>9, <1>10
<1> QED BY <1>5, <1>9, <1>11

(* Whenever a process ends, no two free blocks are neighbours: the next    *)
(* program is offered the largest block there is.                          *)
THEOREM ExitsCoalesce ==
  ASSUME 0 \notin Requests
  PROVE  Spec => ExitCoalesces
<1>1. IInv /\ Alive /\ [Next]_vars => [Terminate => NoAdjacentFree(arena')]_vars
  BY TerminateCoalesces
<1> QED BY AliveInductive, Inductive, <1>1, PTL DEF Spec, ExitCoalesces

-----------------------------------------------------------------------------
(* Failed EXECs *)

(* Whatever a failed EXEC had allocated is free again, in blocks at least  *)
(* as large as they were found.                                            *)
LEMMA RolledBackRoomier ==
  ASSUME NEW a, Sound(a), Positive(a), NEW env \in EnvSizes, NEW img \in Images,
         CanAlloc(a, 0, env), NEW b \in RolledBack(a, env, img)
  PROVE  Roomier(a, b)
<1> DEFINE w  == WithEnv(a, env)
           l  == Loaded(a, env, img)
           eh == EnvHead(a, env)
           ph == ProgHead(a, env, img)
           n  == ProgPar(w, img)
<1>1. env \in Nat /\ ENV_OWNER_TEMP \in Nat /\ 0 \in 0 .. 2 /\ ENV_OWNER_TEMP # FREE
  BY SizeAssumption DEF ENV_OWNER_TEMP, FREE
<1>2. Granted(a, w, eh, ENV_OWNER_TEMP)
  <2>1. GrantedHead(a, 0, env) = eh
    BY DEF GrantedHead, EnvHead
  <2> QED BY <1>1, <2>1, AllocSound DEF WithEnv
<1>3. Taken(a, w, eh)
  BY <1>1, FirstFitTakes DEF WithEnv, EnvHead
<1>4. Sound(w) /\ eh \in DOMAIN w /\ ~IsFree(w, eh)
  BY <1>1, <1>2 DEF Granted, IsFree
<1>5. ASSUME Fit(a, env, img)
      PROVE  Granted(w, l, ph, ph + 1) /\ eh # ph /\ Taken(w, l, ph)
  <2>1. Granted(w, l, ph, ph + 1) /\ eh # ph /\ ph \in Nat
    BY <1>5, LoadedSound
  <2>2. n \in Nat /\ CanAlloc(w, 0, n)
    BY <1>4, <1>5, ProgParNat DEF Fit
  <2>3. l = Alloc(w, 0, n, ph + 1) /\ ph = FirstFit(w, n)
    BY DEF Loaded, WithProgram, ProgHead
  <2> HIDE DEF w, l, n, ph
  <2>4. ph + 1 \in Nat
    BY <2>1
  <2>5. Taken(w, Alloc(w, 0, n, ph + 1), FirstFit(w, n))
    BY <1>4, <2>2, <2>4, FirstFitTakes
  <2> QED BY <2>1, <2>3, <2>5
<1> HIDE DEF w, l, eh, ph, n
<1>6. CASE b = Release(w, eh)
  BY <1>3, <1>4, <1>6, ReleaseRestores
<1>7. CASE Fit(a, env, img) /\ b = Release(Release(l, ph), eh)
  <2> DEFINE c == Release(l, ph)
  <2>1. Granted(w, l, ph, ph + 1) /\ eh # ph /\ Taken(w, l, ph)
    BY <1>5, <1>7
  <2>2. Sound(l) /\ ph \in DOMAIN l /\ eh \in DOMAIN l /\ ~IsFree(l, eh)
    BY <1>4, <2>1 DEF Granted, Untouched, IsFree
  <2>3. /\ Sound(c) /\ Untouched(l, c, {ph})
        /\ \A t \in DOMAIN c : t \in DOMAIN l /\ (t # ph => c[t].owner = l[t].owner)
    BY <2>2, ReleaseSound
  <2>4. Roomier(w, c)
    BY <1>4, <2>1, <2>2, ReleaseRestores
  <2>5. ph \in DOMAIN c => IsFree(c, ph)
    <3>1. LET d == SetOwner(l, {ph}, FREE) IN Sound(d) /\ ph \in DOMAIN d /\ IsFree(d, ph)
      BY <2>2, SetOwnerSound DEF FREE, IsFree
    <3> QED BY <3>1, MergeFreeForwardSound DEF Release, IsFree
  <2> HIDE DEF c
  <2>6. OwnedBefore(w, c, {})
    BY <2>1, <2>3, <2>5 DEF Granted, OwnedBefore, IsFree
  <2>7. eh \in DOMAIN c
    BY <2>1, <2>2, <2>3 DEF Untouched
  <2>8. eh \in Nat
    BY <1>4, SoundHeader
  <2>9. Taken(a, c, eh)
    BY <1>3, <1>4, <2>3, <2>4, <2>6, <2>8, TakenThenRoomier
  <2> QED BY <1>7, <2>3, <2>7, <2>9, ReleaseRestores DEF c
<1> QED BY <1>6, <1>7 DEF RolledBack, w, l, eh, ph

(* A failed EXEC leaves every program what it held and the largest free    *)
(* block no smaller.                                                       *)
THEOREM FailedExecsRestore ==
  ASSUME 0 \notin Requests
  PROVE  Spec => FailedExecRestores
<1>1. ASSUME IInv, Alive, NEW env \in EnvSizes, NEW img \in Images, ExecFails(env, img)
      PROVE  Held(arena') = Held(arena) /\ LargestFree(arena') >= LargestFree(arena)
  <2>1. Sound(arena) /\ Positive(arena)
    BY <1>1, IInvSound DEF Alive
  <2>2. CanAlloc(arena, 0, env) /\ arena' \in RolledBack(arena, env, img)
    BY <1>1 DEF ExecFails
  <2>3. /\ Sound(arena') /\ Untouched(arena, arena', {})
        /\ Positive(arena') /\ OwnedBefore(arena, arena', {})
    BY <2>1, <2>2, RolledBackSound, RolledBackOwners
  <2>4. Held(arena') = Held(arena)
    BY <2>3 DEF Held, Untouched, OwnedBefore, IsFree
  <2>5. LargestFree(arena') >= LargestFree(arena)
    BY <2>1, <2>2, <2>3, RolledBackRoomier, RoomierLargest
  <2> QED BY <2>4, <2>5
<1>2. IInv /\ Alive /\ [Next]_vars =>
         [(\E env \in EnvSizes, img \in Images : ExecFails(env, img)) =>
             /\ Held(arena') = Held(arena)
             /\ LargestFree(arena') >= LargestFree(arena)]_vars
  BY <1>1
<1> QED BY AliveInductive, Inductive, <1>2, PTL DEF Spec, FailedExecRestores

-----------------------------------------------------------------------------
(***************************************************************************)
(* Int21Entry: the calls of INT 21h.                                       *)
(*                                                                         *)
(* The invariant says how the contexts stand on one another: first w       *)
(* EXECs, each with the program it waits for on top of it, and then what   *)
(* runs on the innermost program.                                          *)
(***************************************************************************)

-----------------------------------------------------------------------------
(* Sequences of contexts: t is s with c on top. *)
Pushed(s, t, c) ==
    /\ Len(t) = Len(s) + 1
    /\ \A i \in 1 .. Len(s) : t[i] = s[i]
    /\ t[Len(t)] = c

LEMMA AppendPushes ==
    ASSUME NEW s \in Seq(Contexts), NEW c \in Contexts
    PROVE  Append(s, c) \in Seq(Contexts) /\ Pushed(s, Append(s, c), c)
BY DEF Pushed

LEMMA FrontIs ==
    ASSUME NEW s \in Seq(Contexts), s # <<>>
    PROVE  /\ Front(s) \in Seq(Contexts) /\ Len(Front(s)) = Len(s) - 1 /\ Len(s) \in Nat \ {0}
           /\ \A i \in 1 .. Len(s) - 1 : Front(s)[i] = s[i]
<1>1. Len(s) \in Nat \ {0} OBVIOUS
<1>2. Front(s) = SubSeq(s, 1, Len(s) - 1) BY DEF Front
<1>3. \A i \in 1 .. Len(s) : s[i] \in Contexts OBVIOUS
<1>4. /\ Front(s) \in Seq(Contexts)
      /\ Len(Front(s)) = IF 1 <= Len(s) - 1 THEN Len(s) - 1 - 1 + 1 ELSE 0
      /\ \A i \in 1 .. Len(s) - 1 - 1 + 1 : Front(s)[i] = s[1 + i - 1]
  BY <1>1, <1>2, <1>3, SubSeqProperties
<1>5. \A i \in 1 .. Len(s) - 1 : i \in 1 .. Len(s) - 1 - 1 + 1 /\ 1 + i - 1 = i BY <1>1
<1>6. Len(Front(s)) = Len(s) - 1
  <2> DEFINE n == Len(s)
             m == Len(Front(s))
  <2>1. n \in Nat \ {0} /\ m = IF 1 <= n - 1 THEN n - 1 - 1 + 1 ELSE 0 BY <1>1, <1>4
  <2> HIDE DEF n, m
  <2>2. m = n - 1 BY <2>1
  <2> QED BY <2>2 DEF n, m
<1>7. \A i \in 1 .. Len(s) - 1 : Front(s)[i] = s[i] BY <1>4, <1>5
<1> QED BY <1>1, <1>4, <1>6, <1>7

LEMMA FrontPushed ==
    ASSUME NEW s \in Seq(Contexts), s # <<>>
    PROVE  Front(s) \in Seq(Contexts) /\ Pushed(Front(s), s, s[Len(s)])
BY FrontIs DEF Pushed

LEMMA TopChanged ==
    ASSUME NEW s \in Seq(Contexts), s # <<>>, NEW k \in Kinds
    PROVE  /\ [s EXCEPT ![Len(s)].kind = k] \in Seq(Contexts)
           /\ Pushed(Front(s), [s EXCEPT ![Len(s)].kind = k], [s[Len(s)] EXCEPT !.kind = k])
<1> DEFINE t == [s EXCEPT ![Len(s)].kind = k]
           top == [s[Len(s)] EXCEPT !.kind = k]
<1>1. Len(s) \in Nat \ {0} /\ Len(s) \in DOMAIN s BY FrontIs
<1>2. s[Len(s)] \in Contexts BY <1>1
<1>3. top \in Contexts BY <1>2 DEF Contexts
<1>4. t = [s EXCEPT ![Len(s)] = top] BY <1>1
<1>5. t \in Seq(Contexts) /\ Len(t) = Len(s) /\ t[Len(s)] = top
      /\ \A i \in 1 .. Len(s) - 1 : t[i] = s[i]
  <2> HIDE DEF top
  <2> QED BY <1>1, <1>3, <1>4
<1>6. Len(Front(s)) = Len(s) - 1 /\ \A i \in 1 .. Len(s) - 1 : Front(s)[i] = s[i]
  BY FrontIs
<1>7. Pushed(Front(s), t, top)
  <2> HIDE DEF top, t
  <2> QED BY <1>1, <1>5, <1>6 DEF Pushed
<1> QED BY <1>5, <1>7

-----------------------------------------------------------------------------
(* Counting *)
OfKind(kinds, s) == {i \in DOMAIN s : s[i].kind \in kinds}

LEMMA CountIsNat ==
    ASSUME NEW s \in Seq(Contexts), NEW kinds
    PROVE  IsFiniteSet(OfKind(kinds, s)) /\ Count(kinds, s) = Cardinality(OfKind(kinds, s))
           /\ Count(kinds, s) \in Nat
<1>1. IsFiniteSet(1 .. Len(s)) BY FS_Interval
<1>2. OfKind(kinds, s) \in SUBSET (1 .. Len(s)) BY DEF OfKind
<1>3. IsFiniteSet(OfKind(kinds, s)) BY <1>1, <1>2, FS_Subset
<1> QED BY <1>3, FS_CardinalityType DEF Count, OfKind

LEMMA CountPushed ==
    ASSUME NEW s \in Seq(Contexts), NEW t \in Seq(Contexts), NEW c, NEW kinds, Pushed(s, t, c)
    PROVE  Count(kinds, t) = Count(kinds, s) + IF c.kind \in kinds THEN 1 ELSE 0
<1>1. Len(s) \in Nat /\ Len(t) = Len(s) + 1 /\ t[Len(t)] = c
      /\ DOMAIN s = 1 .. Len(s) /\ DOMAIN t = 1 .. Len(t)
  BY DEF Pushed
<1>2. \A i \in 1 .. Len(s) : t[i] = s[i] BY DEF Pushed
<1>3. IsFiniteSet(OfKind(kinds, s)) /\ Count(kinds, s) = Cardinality(OfKind(kinds, s))
      /\ Count(kinds, t) = Cardinality(OfKind(kinds, t)) /\ Count(kinds, s) \in Nat
  BY CountIsNat
<1>4. CASE c.kind \in kinds
  <2>1. OfKind(kinds, t) = OfKind(kinds, s) \cup {Len(t)} BY <1>1, <1>2, <1>4 DEF OfKind
  <2>2. Len(t) \notin OfKind(kinds, s) BY <1>1 DEF OfKind
  <2> QED BY <1>3, <1>4, <2>1, <2>2, FS_AddElement
<1>5. CASE c.kind \notin kinds
  <2>1. OfKind(kinds, t) = OfKind(kinds, s) BY <1>1, <1>2, <1>5 DEF OfKind
  <2> QED BY <1>3, <1>5, <2>1
<1> QED BY <1>4, <1>5

LEMMA CallsPushed ==
    ASSUME NEW s \in Seq(Contexts), NEW t \in Seq(Contexts), NEW c, Pushed(s, t, c)
    PROVE  /\ Count({"call"}, t) = Count({"call"}, s) + IF c.kind = "call" THEN 1 ELSE 0
           /\ Count({"call"}, s) \in Nat
<1> DEFINE k == {"call"}
<1> HIDE DEF k
<1>1. Count(k, t) = Count(k, s) + (IF c.kind \in k THEN 1 ELSE 0) /\ Count(k, s) \in Nat
  BY CountPushed, CountIsNat
<1>2. c.kind \in k <=> c.kind = "call" BY DEF k
<1>3. Count(k, t) = Count(k, s) + IF c.kind = "call" THEN 1 ELSE 0 BY <1>1, <1>2
<1> QED BY <1>1, <1>3 DEF k

LEMMA CountNone ==
    ASSUME NEW s \in Seq(Contexts), NEW kinds
    PROVE  Count(kinds, s) = 0 <=> \A i \in 1 .. Len(s) : s[i].kind \notin kinds
<1>1. Count(kinds, s) = 0 <=> OfKind(kinds, s) = {} BY CountIsNat, FS_EmptySet
<1> QED BY <1>1 DEF OfKind

(* What the contexts from p on count, when there is none below. *)
LEMMA CountAbove ==
    ASSUME NEW s \in Seq(Contexts), NEW kinds, NEW p \in 1 .. Len(s),
           \A i \in 1 .. p - 1 : s[i].kind \notin kinds
    PROVE  Count(kinds, SubSeq(s, p, Len(s))) = Count(kinds, s)
<1> DEFINE t == SubSeq(s, p, Len(s))
           S == OfKind(kinds, s)
           T == OfKind(kinds, t)
           f == [i \in T |-> i + p - 1]
<1>1. t \in Seq(Contexts) /\ Len(t) = Len(s) - p + 1 /\ DOMAIN t = 1 .. Len(t)
      /\ \A i \in 1 .. Len(t) : t[i] = s[i + p - 1]
  OBVIOUS
<1>2. \A i \in T : i \in 1 .. Len(t) /\ i + p - 1 \in S BY <1>1 DEF OfKind
<1>3. f \in [T -> S] BY <1>2
<1>4. \A i \in S : i - p + 1 \in T /\ i = (i - p + 1) + p - 1 /\ i \in 1 .. Len(s)
  <2> TAKE i \in S
  <2>1. i \in 1 .. Len(s) /\ s[i].kind \in kinds BY DEF OfKind
  <2>2. i >= p BY <2>1
  <2>3. i - p + 1 \in 1 .. Len(t) /\ t[i - p + 1] = s[(i - p + 1) + p - 1] /\ (i - p + 1) + p - 1 = i
    BY <1>1, <2>1, <2>2
  <2> QED BY <1>1, <2>1, <2>3 DEF OfKind
<1>5. f \in Injection(T, S) BY <1>2, <1>3 DEF Injection, IsInjective
<1>6. f \in Surjection(T, S) BY <1>3, <1>4 DEF Surjection
<1>7. ExistsBijection(T, S) BY <1>5, <1>6 DEF ExistsBijection, Bijection
<1>8. IsFiniteSet(T) /\ Count(kinds, t) = Cardinality(T) /\ Count(kinds, s) = Cardinality(S)
  BY <1>1, CountIsNat
<1> QED BY <1>7, <1>8, FS_Bijection

-----------------------------------------------------------------------------
(* The invariant, of a sequence s of contexts with w EXECs that wait. *)
OnTop == {"call", "exit", "resume", "handler", "isr", "callback"}

IsCall(s, i) == s[i].kind = "call"
CallBelow(s, j) == \E i \in 1 .. j - 1 : IsCall(s, i)

Launching(w, s) == w > 0 /\ s[2 * w].kind = "launch"
Base(w, s) == KERNEL_STACK_TOP + IF Launching(w, s) THEN w - 1 ELSE w

(* The EXECs that wait, with their levels, and their programs, with the    *)
(* base that each gives back; the last may be about to start.              *)
Waits(w, s) ==
    /\ 2 * w <= Len(s)
    /\ \A i \in 1 .. w :
          /\ s[2 * i - 1].kind = "exec" /\ s[2 * i - 1].level = KERNEL_STACK_TOP + i - 1
          /\ s[2 * i].level = NoLevel /\ s[2 * i].kbase = KERNEL_STACK_TOP + i - 1
          /\ s[2 * i].kind = "program" \/ (i = w /\ s[2 * i].kind = "launch")

(* A program runs that has started and not come back to its parent. *)
Started(w, s) == w > 0 /\ s[2 * w].kind = "program" /\ s[2 * w + 1].kind # "resume"

(* What is on top of them: of the calls only the lowest has switched.      *)
TopRule(w, s) ==
    \A j \in 2 * w + 1 .. Len(s) :
        /\ s[j].kind \in OnTop
        /\ s[j].kind \in {"handler", "isr", "callback"} => s[j].level = NoLevel
        /\ IsCall(s, j) => s[j].level = IF CallBelow(s, j) THEN NoLevel ELSE Base(w, s)
        /\ s[j].kind = "resume" => j = 2 * w + 1 /\ s[j].level = KERNEL_STACK_TOP + w
        /\ s[j].kind \in {"call", "exit", "handler"} => Started(w, s)

Bottom(w, s) == w = 0 => s = <<>> \/ s[1].kind = "resume"

Standing(w, s) == Waits(w, s) /\ TopRule(w, s) /\ Bottom(w, s)

(* One callback, while the flag that refuses its calls is set. *)
MouseRule(s, m) ==
    \A i \in 1 .. Len(s) : s[i].kind = "callback" =>
        m /\ \A j \in 1 .. Len(s) : s[j].kind = "callback" => i = j

(* Once an exit has abandoned a call, only its parent's EXEC is to return. *)
LeakRule(w, s, l) == l > 0 => s = <<>> \/ (2 * w < Len(s) /\ s[2 * w + 1].kind = "resume")

Runs(w) ==
    /\ Standing(w, acts)
    /\ MouseRule(acts, mouse_in_callback)
    /\ LeakRule(w, acts, leaked)

EntryIInv ==
    /\ EntryTypeOK /\ CountsMatch /\ OnlyHandlersNest /\ CallsComeHome
    /\ wild = "no" => \E w \in Nat : Runs(w)

-----------------------------------------------------------------------------
(* What the invariant says of a sequence *)

LEMMA OddOrEven == \A w \in Nat : \A j \in 1 .. 2 * w : \E i \in 1 .. w : j = 2 * i - 1 \/ j = 2 * i
<1> SUFFICES ASSUME NEW w \in Nat, NEW j \in 1 .. 2 * w
             PROVE  \E i \in 1 .. w : j = 2 * i - 1 \/ j = 2 * i
  OBVIOUS
<1>1. (j + 1) \div 2 \in 1 .. w BY SMT
<1>2. j = 2 * ((j + 1) \div 2) - 1 \/ j = 2 * ((j + 1) \div 2) BY SMT
<1> QED BY <1>1, <1>2

(* Below the top there are EXECs and their programs only. *)
LEMMA BelowIs ==
    ASSUME NEW w \in Nat, NEW s \in Seq(Contexts), Waits(w, s), NEW j \in 1 .. 2 * w
    PROVE  /\ j \in 1 .. Len(s)
           /\ s[j].kind \in {"exec", "program", "launch"}
           /\ s[j].kind = "launch" => j = 2 * w /\ Launching(w, s)
           /\ s[j].level >= Base(w, s) => j = 2 * w - 1 /\ Launching(w, s)
<1>1. Len(s) \in Nat /\ j \in 1 .. Len(s) BY DEF Waits
<1>2. PICK i \in 1 .. w : j = 2 * i - 1 \/ j = 2 * i BY OddOrEven
<1>3. CASE j = 2 * i - 1
  <2>1. s[j].kind = "exec" /\ s[j].level = KERNEL_STACK_TOP + i - 1 BY <1>3 DEF Waits
  <2>2. s[j].level >= Base(w, s) => i = w /\ Launching(w, s)
    BY <2>1 DEF Base, Launching, KERNEL_STACK_TOP
  <2> QED BY <1>1, <1>3, <2>1, <2>2
<1>4. CASE j = 2 * i
  <2>1. s[j].kind = "program" \/ (i = w /\ s[j].kind = "launch") BY <1>4 DEF Waits
  <2>2. s[j].level = NoLevel BY <1>4 DEF Waits
  <2>3. ~(s[j].level >= Base(w, s))
    BY <2>2 DEF Base, Launching, NoLevel, KERNEL_STACK_TOP
  <2>4. s[j].kind = "launch" => j = 2 * w /\ Launching(w, s) BY <1>4, <2>1 DEF Launching
  <2> QED BY <1>1, <2>1, <2>3, <2>4
<1> QED BY <1>2, <1>3, <1>4

LEMMA NoCallsBelow ==
    ASSUME NEW w \in Nat, NEW s \in Seq(Contexts), Waits(w, s), NEW j \in Int, j <= 2 * w + 1
    PROVE  ~CallBelow(s, j)
<1>1. \A i \in 1 .. j - 1 : i \in 1 .. 2 * w OBVIOUS
<1> QED BY <1>1, BelowIs DEF CallBelow, IsCall

(* As deep as the programs that wait. *)
LEMMA DepthIs ==
    ASSUME NEW w \in Nat, NEW s \in Seq(Contexts), Waits(w, s), TopRule(w, s)
    PROVE  KERNEL_STACK_TOP + Count({"program"}, s) = Base(w, s)
<1> DEFINE d == IF Launching(w, s) THEN w - 1 ELSE w
           P == OfKind({"program"}, s)
           f == [i \in 1 .. d |-> 2 * i]
<1>1. d \in Nat /\ d <= w BY DEF Launching
<1>2. \A i \in 1 .. d : 2 * i \in P
  <2> TAKE i \in 1 .. d
  <2>1. i \in 1 .. w /\ (i = w => ~Launching(w, s)) BY <1>1
  <2>2. s[2 * i].kind = "program" BY <2>1 DEF Waits, Launching
  <2>3. 2 * i \in 1 .. Len(s) BY <2>1 DEF Waits
  <2> QED BY <2>2, <2>3 DEF OfKind
<1>3. \A j \in P : \E i \in 1 .. d : j = 2 * i
  <2> TAKE j \in P
  <2>1. j \in 1 .. Len(s) /\ s[j].kind = "program" BY DEF OfKind
  <2>2. j <= 2 * w
    <3>1. SUFFICES ASSUME ~(j <= 2 * w) PROVE FALSE OBVIOUS
    <3>2. j \in 2 * w + 1 .. Len(s) BY <2>1, <3>1
    <3> QED BY <2>1, <3>2 DEF TopRule, OnTop
  <2>6. j \in 1 .. 2 * w BY <2>1, <2>2
  <2>3. PICK i \in 1 .. w : j = 2 * i - 1 \/ j = 2 * i BY <2>6, OddOrEven
  <2>4. j = 2 * i BY <2>1, <2>3 DEF Waits
  <2>5. i = w => ~Launching(w, s) BY <2>1, <2>4 DEF Launching
  <2> QED BY <1>1, <2>4, <2>5
<1> HIDE DEF d
<1>4. f \in [1 .. d -> P] BY <1>2
<1>5. f \in Injection(1 .. d, P)
  <2>1. \A i, j \in 1 .. d : f[i] = f[j] => i = j BY <1>1
  <2> QED BY <1>4, <2>1 DEF Injection, IsInjective
<1>6. f \in Surjection(1 .. d, P) BY <1>3, <1>4 DEF Surjection
<1>7. ExistsBijection(1 .. d, P) BY <1>5, <1>6 DEF ExistsBijection, Bijection
<1>8. IsFiniteSet(1 .. d) /\ Cardinality(1 .. d) = d BY <1>1, FS_Interval
<1>9. Cardinality(P) = d BY <1>7, <1>8, FS_Bijection
<1>10. Count({"program"}, s) = d BY <1>9, CountIsNat
<1> QED BY <1>10 DEF Base, d
-----------------------------------------------------------------------------
(* Contexts that come on top and go *)

(* c may come on top of s. *)
FitsOn(w, s, c) ==
    /\ s # <<>>
    /\ c.kind \in {"call", "exit", "handler", "isr", "callback"}
    /\ c.kind \in {"handler", "isr", "callback"} => c.level = NoLevel
    /\ c.kind = "call" => c.level = IF CallBelow(s, Len(s) + 1) THEN NoLevel ELSE Base(w, s)
    /\ c.kind \in {"call", "exit", "handler"} =>
          w > 0 /\ s[2 * w].kind = "program" /\ (2 * w < Len(s) => s[2 * w + 1].kind # "resume")

LEMMA SameBelow ==
    ASSUME NEW w \in Nat, NEW s \in Seq(Contexts), NEW t \in Seq(Contexts), NEW c,
           Pushed(s, t, c), 2 * w <= Len(s)
    PROVE  /\ Waits(w, s) <=> Waits(w, t)
           /\ Base(w, t) = Base(w, s)
           /\ Launching(w, t) <=> Launching(w, s)
           /\ \A j \in 1 .. Len(t) : CallBelow(t, j) <=> CallBelow(s, j)
<1>1. Len(s) \in Nat /\ Len(t) = Len(s) + 1 /\ \A i \in 1 .. Len(s) : t[i] = s[i] BY DEF Pushed
<1>2. \A i \in 1 .. w : 2 * i \in 1 .. Len(s) /\ 2 * i - 1 \in 1 .. Len(s) BY <1>1
<1>3. Waits(w, s) <=> Waits(w, t)
  <2>1. \A i \in 1 .. w : t[2 * i] = s[2 * i] /\ t[2 * i - 1] = s[2 * i - 1] BY <1>1, <1>2
  <2>2. 2 * w <= Len(t) BY <1>1
  <2> QED BY <2>1, <2>2 DEF Waits
<1>4. w > 0 => t[2 * w] = s[2 * w] BY <1>1, <1>2
<1>5. Launching(w, t) <=> Launching(w, s) BY <1>4 DEF Launching
<1>6. Base(w, t) = Base(w, s) BY <1>5 DEF Base
<1>7. \A j \in 1 .. Len(t) : \A i \in 1 .. j - 1 : i \in 1 .. Len(s) BY <1>1
<1>8. \A j \in 1 .. Len(t) : CallBelow(t, j) <=> CallBelow(s, j)
  BY <1>1, <1>7 DEF CallBelow, IsCall
<1> QED BY <1>3, <1>5, <1>6, <1>8

LEMMA PushStands ==
    ASSUME NEW w \in Nat, NEW s \in Seq(Contexts), NEW t \in Seq(Contexts), NEW c \in Contexts,
           Pushed(s, t, c), Standing(w, s), FitsOn(w, s, c)
    PROVE  Standing(w, t)
<1> USE DEF Standing
<1>1. /\ Len(s) \in Nat /\ Len(t) = Len(s) + 1 /\ t[Len(t)] = c
      /\ \A i \in 1 .. Len(s) : t[i] = s[i]
  BY DEF Pushed
<1>2. 2 * w <= Len(s) BY DEF Waits
<1>3. Waits(w, t) BY <1>2, SameBelow
<1>4. ASSUME NEW j \in 2 * w + 1 .. Len(s)
      PROVE  /\ t[j].kind \in OnTop
             /\ t[j].kind \in {"handler", "isr", "callback"} => t[j].level = NoLevel
             /\ IsCall(t, j) => t[j].level = IF CallBelow(t, j) THEN NoLevel ELSE Base(w, t)
             /\ t[j].kind = "resume" => j = 2 * w + 1 /\ t[j].level = KERNEL_STACK_TOP + w
             /\ t[j].kind \in {"call", "exit", "handler"} => Started(w, t)
  <2>1. t[j] = s[j] /\ j \in 1 .. Len(t) BY <1>1, <1>2
  <2>2. (CallBelow(t, j) <=> CallBelow(s, j)) /\ Base(w, t) = Base(w, s) BY <1>2, <2>1, SameBelow
  <2>3. Started(w, s) => Started(w, t)
    <3>1. w > 0 => 2 * w \in 1 .. Len(s) BY <1>2
    <3>2. 2 * w + 1 \in 1 .. Len(s) BY <1>1
    <3> QED BY <1>1, <3>1, <3>2 DEF Started
  <2> QED BY <2>1, <2>2, <2>3 DEF TopRule, IsCall
<1>5. /\ c.kind \in OnTop
      /\ c.kind \in {"handler", "isr", "callback"} => c.level = NoLevel
      /\ c.kind = "call" => c.level = IF CallBelow(t, Len(t)) THEN NoLevel ELSE Base(w, t)
      /\ c.kind # "resume"
      /\ c.kind \in {"call", "exit", "handler"} => Started(w, t)
  <2>1. CallBelow(t, Len(t)) <=> CallBelow(s, Len(s) + 1) BY <1>1, <1>2, SameBelow
  <2>2. Base(w, t) = Base(w, s) BY <1>2, SameBelow
  <2>3. ASSUME c.kind \in {"call", "exit", "handler"} PROVE Started(w, t)
    <3>1. w > 0 /\ s[2 * w].kind = "program" BY <2>3 DEF FitsOn
    <3>2. t[2 * w].kind = "program" BY <1>1, <1>2, <3>1
    <3>3. CASE 2 * w < Len(s)
      <4>1. s[2 * w + 1].kind # "resume" BY <2>3, <3>3 DEF FitsOn
      <4> QED BY <1>1, <3>1, <3>2, <3>3, <4>1 DEF Started
    <3>4. CASE 2 * w = Len(s) BY <1>1, <2>3, <3>1, <3>2, <3>4 DEF Started
    <3> QED BY <1>1, <1>2, <3>3, <3>4
  <2> QED BY <2>1, <2>2, <2>3 DEF FitsOn, OnTop
<1>6. TopRule(w, t)
  <2> SUFFICES ASSUME NEW j \in 2 * w + 1 .. Len(t)
               PROVE  /\ t[j].kind \in OnTop
                      /\ t[j].kind \in {"handler", "isr", "callback"} => t[j].level = NoLevel
                      /\ IsCall(t, j) => t[j].level = IF CallBelow(t, j) THEN NoLevel ELSE Base(w, t)
                      /\ t[j].kind = "resume" => j = 2 * w + 1 /\ t[j].level = KERNEL_STACK_TOP + w
                      /\ t[j].kind \in {"call", "exit", "handler"} => Started(w, t)
    BY DEF TopRule
  <2>1. CASE j = Len(t) BY <1>1, <1>5, <2>1 DEF IsCall
  <2>2. CASE j # Len(t)
    <3>1. j \in 2 * w + 1 .. Len(s) BY <1>1, <2>2
    <3> QED BY <1>4, <3>1
  <2> QED BY <2>1, <2>2
<1>7. Bottom(w, t)
  <2>1. s # <<>> BY DEF FitsOn
  <2>2. Len(s) > 0 BY <1>1, <2>1
  <2>3. t[1] = s[1] BY <1>1, <2>2
  <2> QED BY <2>1, <2>3 DEF Bottom
<1> QED BY <1>3, <1>6, <1>7

LEMMA PopStands ==
    ASSUME NEW w \in Nat, NEW s \in Seq(Contexts), NEW t \in Seq(Contexts), NEW c,
           Pushed(s, t, c), Standing(w, t), 2 * w < Len(t)
    PROVE  Standing(w, s)
<1> USE DEF Standing
<1>1. Len(s) \in Nat /\ Len(t) = Len(s) + 1 /\ \A i \in 1 .. Len(s) : t[i] = s[i] BY DEF Pushed
<1>2. 2 * w <= Len(s) BY <1>1
<1>3. Waits(w, s) BY <1>2, SameBelow
<1>4. TopRule(w, s)
  <2> SUFFICES ASSUME NEW j \in 2 * w + 1 .. Len(s)
               PROVE  /\ s[j].kind \in OnTop
                      /\ s[j].kind \in {"handler", "isr", "callback"} => s[j].level = NoLevel
                      /\ IsCall(s, j) => s[j].level = IF CallBelow(s, j) THEN NoLevel ELSE Base(w, s)
                      /\ s[j].kind = "resume" => j = 2 * w + 1 /\ s[j].level = KERNEL_STACK_TOP + w
                      /\ s[j].kind \in {"call", "exit", "handler"} => Started(w, s)
    BY DEF TopRule
  <2>1. t[j] = s[j] /\ j \in 1 .. Len(t) /\ j \in 2 * w + 1 .. Len(t) BY <1>1
  <2>2. (CallBelow(t, j) <=> CallBelow(s, j)) /\ Base(w, t) = Base(w, s) BY <1>2, <2>1, SameBelow
  <2>3. Started(w, t) => Started(w, s)
    <3>1. w > 0 => 2 * w \in 1 .. Len(s) BY <1>2
    <3>2. 2 * w + 1 \in 1 .. Len(s) BY <1>1
    <3> QED BY <1>1, <3>1, <3>2 DEF Started
  <2> QED BY <2>1, <2>2, <2>3 DEF TopRule, IsCall
<1>5. Bottom(w, s)
  <2>1. t # <<>> BY <1>1
  <2>2. s # <<>> => t[1] = s[1] BY <1>1
  <2> QED BY <2>1, <2>2 DEF Bottom
<1> QED BY <1>3, <1>4, <1>5

(* Where the innermost program is. *)
LEMMA ProgramIs ==
    ASSUME EntryTypeOK, NEW w \in Nat, w > 0, Standing(w, acts)
    PROVE  Program = 2 * w /\ 2 * w \in 1 .. Top
<1> USE DEF Standing
<1>1. acts \in Seq(Contexts) /\ Len(acts) \in Nat /\ DOMAIN acts = 1 .. Len(acts) BY DEF EntryTypeOK
<1>2. 2 * w \in 1 .. Len(acts) BY <1>1 DEF Waits
<1>3. IsProgram(2 * w) BY DEF IsProgram, Waits
<1>4. ASSUME NEW j \in 1 .. Len(acts), j > 2 * w PROVE ~IsProgram(j)
  <2>1. j \in 2 * w + 1 .. Len(acts) BY <1>1, <1>4
  <2> QED BY <2>1 DEF TopRule, OnTop, IsProgram
<1>5. \A j \in DOMAIN acts : IsProgram(j) => j <= 2 * w BY <1>1, <1>4
<1> DEFINE Q(i) == IsProgram(i) /\ \A j \in DOMAIN acts : IsProgram(j) => j <= i
<1>6. 2 * w \in DOMAIN acts /\ Q(2 * w) BY <1>1, <1>2, <1>3, <1>5
<1>7. \A i \in DOMAIN acts : Q(i) => i = 2 * w BY <1>1, <1>2, <1>3, <1>5
<1>8. Program \in DOMAIN acts /\ Q(Program) BY <1>6 DEF Program
<1> QED BY <1>2, <1>7, <1>8 DEF Top

LEMMA LaunchStands ==
    ASSUME NEW w \in Nat, NEW s \in Seq(Contexts), NEW u \in Seq(Contexts),
           NEW t \in Seq(Contexts), NEW x \in Contexts, NEW c \in Contexts,
           Standing(w, s), Len(s) = 2 * w, w > 0, s[2 * w].kind = "program",
           Pushed(s, u, x), x.kind = "exec", x.level = KERNEL_STACK_TOP + w,
           Pushed(u, t, c), c.kind = "launch", c.level = NoLevel, c.kbase = KERNEL_STACK_TOP + w
    PROVE  Standing(w + 1, t) /\ Base(w + 1, t) = Base(w, s)
<1> USE DEF Standing
<1>1. /\ Len(s) \in Nat /\ Len(u) = 2 * w + 1 /\ Len(t) = 2 * w + 2
      /\ \A i \in 1 .. 2 * w : t[i] = s[i]
      /\ t[2 * w + 1] = x /\ t[2 * w + 2] = c
  BY DEF Pushed
<1>2. Waits(w + 1, t)
  <2>1. 2 * (w + 1) = 2 * w + 2 /\ 2 * (w + 1) - 1 = 2 * w + 1 OBVIOUS
  <2>2. 2 * (w + 1) <= Len(t) BY <1>1
  <2>3. ASSUME NEW i \in 1 .. w + 1
        PROVE  /\ t[2 * i - 1].kind = "exec" /\ t[2 * i - 1].level = KERNEL_STACK_TOP + i - 1
               /\ t[2 * i].level = NoLevel /\ t[2 * i].kbase = KERNEL_STACK_TOP + i - 1
               /\ t[2 * i].kind = "program" \/ (i = w + 1 /\ t[2 * i].kind = "launch")
    <3>1. CASE i = w + 1
      <4>1. t[2 * i] = c /\ t[2 * i - 1] = x BY <1>1, <2>1, <3>1
      <4>2. KERNEL_STACK_TOP + i - 1 = KERNEL_STACK_TOP + w BY <3>1 DEF KERNEL_STACK_TOP
      <4> QED BY <3>1, <4>1, <4>2
    <3>2. CASE i # w + 1
      <4>1. i \in 1 .. w BY <3>2
      <4>2. t[2 * i] = s[2 * i] /\ t[2 * i - 1] = s[2 * i - 1] BY <1>1, <4>1
      <4>3. i = w => s[2 * i].kind = "program" OBVIOUS
      <4> QED BY <4>1, <4>2, <4>3 DEF Waits
    <3> QED BY <3>1, <3>2
  <2> QED BY <2>2, <2>3 DEF Waits
<1>3. TopRule(w + 1, t) BY <1>1 DEF TopRule
<1>4. Bottom(w + 1, t) BY DEF Bottom
<1>5. Launching(w + 1, t)
  <2>1. 2 * (w + 1) = 2 * w + 2 OBVIOUS
  <2> QED BY <1>1, <2>1 DEF Launching
<1>6. ~Launching(w, s) BY DEF Launching
<1>7. Base(w + 1, t) = Base(w, s) BY <1>5, <1>6 DEF Base, KERNEL_STACK_TOP
<1> QED BY <1>2, <1>3, <1>4, <1>7

LEMMA StartStands ==
    ASSUME NEW w \in Nat, NEW s \in Seq(Contexts), NEW t \in Seq(Contexts),
           Standing(w, s), Launching(w, s), Len(s) = 2 * w,
           Pushed(Front(s), t, [s[Len(s)] EXCEPT !.kind = "program"])
    PROVE  Standing(w, t) /\ Base(w, t) = s[2 * w - 1].level + 1
<1> USE DEF Standing
<1>1. w > 0 BY DEF Launching
<1>2. s # <<>> /\ s[2 * w] \in Contexts BY <1>1
<1>3. /\ Len(t) = 2 * w /\ t[2 * w] = [s[2 * w] EXCEPT !.kind = "program"]
      /\ \A i \in 1 .. 2 * w - 1 : t[i] = s[i]
  <2> DEFINE y == [s[2 * w] EXCEPT !.kind = "program"]
             f == Front(s)
  <2>1. Len(f) = 2 * w - 1 /\ \A i \in 1 .. 2 * w - 1 : f[i] = s[i] BY <1>2, FrontIs
  <2>2. Pushed(f, t, y) OBVIOUS
  <2> HIDE DEF y, f
  <2>3. Len(t) = Len(f) + 1 /\ (\A i \in 1 .. Len(f) : t[i] = f[i]) /\ t[Len(t)] = y
    BY <2>2 DEF Pushed
  <2>4. Len(t) = 2 * w BY <2>1, <2>3
  <2>5. t[2 * w] = y BY <2>3, <2>4
  <2>6. \A i \in 1 .. 2 * w - 1 : t[i] = s[i] BY <2>1, <2>3
  <2> QED BY <2>4, <2>5, <2>6 DEF y
<1>4. t[2 * w].kind = "program" /\ t[2 * w].level = s[2 * w].level /\ t[2 * w].kbase = s[2 * w].kbase
  BY <1>2, <1>3 DEF Contexts
<1>5. Waits(w, t)
  <2>1. ASSUME NEW i \in 1 .. w
        PROVE  /\ t[2 * i - 1].kind = "exec" /\ t[2 * i - 1].level = KERNEL_STACK_TOP + i - 1
               /\ t[2 * i].level = NoLevel /\ t[2 * i].kbase = KERNEL_STACK_TOP + i - 1
               /\ t[2 * i].kind = "program" \/ (i = w /\ t[2 * i].kind = "launch")
    <3>1. t[2 * i - 1] = s[2 * i - 1] BY <1>3
    <3>2. CASE i = w BY <1>4, <3>1, <3>2 DEF Waits
    <3>3. CASE i # w
      <4>1. t[2 * i] = s[2 * i] BY <1>3, <3>3
      <4> QED BY <3>1, <3>3, <4>1 DEF Waits
    <3> QED BY <3>2, <3>3
  <2>2. 2 * w <= Len(t) BY <1>3
  <2> QED BY <2>1, <2>2 DEF Waits
<1>6. TopRule(w, t) BY <1>3 DEF TopRule
<1>7. Bottom(w, t) BY <1>1 DEF Bottom
<1>8. Base(w, t) = KERNEL_STACK_TOP + w BY <1>4 DEF Base, Launching
<1>9. s[2 * w - 1].level = KERNEL_STACK_TOP + w - 1 BY <1>1 DEF Waits
<1> QED BY <1>5, <1>6, <1>7, <1>8, <1>9 DEF KERNEL_STACK_TOP

LEMMA BackStands ==
    ASSUME NEW w \in Nat, NEW s \in Seq(Contexts), Standing(w, s), w > 0
    PROVE  LET t == [SubSeq(s, 1, 2 * w - 1) EXCEPT ![2 * w - 1].kind = "resume"] IN
           /\ t \in Seq(Contexts) /\ Len(t) = 2 * w - 1
           /\ t[2 * w - 1].kind = "resume"
           /\ \A i \in 1 .. Len(t) : t[i].kind \in {"exec", "program", "resume"}
           /\ Standing(w - 1, t)
           /\ Base(w - 1, t) = KERNEL_STACK_TOP + w - 1
<1> USE DEF Standing
<1> DEFINE n == 2 * w - 1
           f == SubSeq(s, 1, n)
           t == [f EXCEPT ![n].kind = "resume"]
<1>1. n \in Nat /\ n \in 1 .. Len(s) /\ Len(s) \in Nat BY DEF Waits
<1>2. \A i \in 1 .. n : s[i] \in Contexts BY <1>1
<1>3. f \in Seq(Contexts) /\ Len(f) = n /\ \A i \in 1 .. n : f[i] = s[i]
  <2>1. /\ f \in Seq(Contexts) /\ Len(f) = IF 1 <= n THEN n - 1 + 1 ELSE 0
        /\ \A i \in 1 .. n - 1 + 1 : f[i] = s[1 + i - 1]
    BY <1>1, <1>2, SubSeqProperties
  <2>2. \A i \in 1 .. n : i \in 1 .. n - 1 + 1 /\ 1 + i - 1 = i BY <1>1
  <2>3. Len(f) = n
    <3> HIDE DEF f
    <3> QED BY <1>1, <2>1
  <2> QED BY <2>1, <2>2, <2>3
<1>4. f # <<>> BY <1>1, <1>3
<1>5. "resume" \in Kinds BY DEF Kinds
<1>6. t \in Seq(Contexts) /\ Pushed(Front(f), t, [f[n] EXCEPT !.kind = "resume"])
  BY <1>3, <1>4, <1>5, TopChanged
<1>7. /\ Len(t) = n /\ t[n] = [s[n] EXCEPT !.kind = "resume"]
      /\ \A i \in 1 .. n - 1 : t[i] = s[i]
  <2>1. Len(Front(f)) = n - 1 /\ \A i \in 1 .. n - 1 : Front(f)[i] = f[i] BY <1>3, <1>4, FrontIs
  <2> DEFINE g == Front(f)
             y == [f[n] EXCEPT !.kind = "resume"]
  <2>2. Pushed(g, t, y) BY <1>6
  <2>3. y = [s[n] EXCEPT !.kind = "resume"]
    <3> HIDE DEF f, n
    <3>1. n \in 1 .. n BY <1>1
    <3>2. f[n] = s[n] BY <1>3, <3>1
    <3> QED BY <3>2
  <2>4. Len(g) = n - 1 /\ \A i \in 1 .. n - 1 : g[i] = s[i]
    <3> HIDE DEF f, g
    <3>1. Len(g) = n - 1 /\ \A i \in 1 .. n - 1 : g[i] = f[i] BY <2>1 DEF g
    <3>2. \A i \in 1 .. n - 1 : i \in 1 .. n BY <1>1
    <3> QED BY <1>3, <3>1, <3>2
  <2> HIDE DEF t, f, n, g, y
  <2>5. Len(t) = Len(g) + 1 /\ t[Len(t)] = y /\ \A i \in 1 .. Len(g) : t[i] = g[i]
    BY <2>2 DEF Pushed
  <2>6. Len(t) = n BY <1>1, <2>4, <2>5
  <2>7. t[n] = y BY <2>5, <2>6
  <2>8. \A i \in 1 .. n - 1 : t[i] = s[i] BY <2>4, <2>5
  <2> QED BY <2>3, <2>6, <2>7, <2>8
<1>8. t[n].kind = "resume" /\ t[n].level = s[n].level
  <2> DEFINE z == s[n]
  <2>1. z \in Contexts BY <1>1
  <2>2. t[n] = [z EXCEPT !.kind = "resume"] BY <1>7
  <2> HIDE DEF z, t, n
  <2>3. t[n].kind = "resume" /\ t[n].level = z.level BY <2>1, <2>2 DEF Contexts
  <2> QED BY <2>3 DEF z
<1>9. s[n].level = KERNEL_STACK_TOP + w - 1 BY DEF Waits
<1>10. Waits(w - 1, t)
  <2>1. 2 * (w - 1) <= Len(t) BY <1>7
  <2>2. ASSUME NEW i \in 1 .. w - 1
        PROVE  /\ t[2 * i - 1].kind = "exec" /\ t[2 * i - 1].level = KERNEL_STACK_TOP + i - 1
               /\ t[2 * i].level = NoLevel /\ t[2 * i].kbase = KERNEL_STACK_TOP + i - 1
               /\ t[2 * i].kind = "program" \/ (i = w - 1 /\ t[2 * i].kind = "launch")
    <3>1. i \in 1 .. w /\ i # w OBVIOUS
    <3>2. 2 * i - 1 \in 1 .. n - 1 /\ 2 * i \in 1 .. n - 1 OBVIOUS
    <3>3. t[2 * i - 1] = s[2 * i - 1] /\ t[2 * i] = s[2 * i]
      <4> HIDE DEF t, n
      <4> QED BY <1>7, <3>2
    <3> HIDE DEF t
    <3> QED BY <3>1, <3>3 DEF Waits
  <2> QED BY <2>1, <2>2 DEF Waits
<1>11. ~Launching(w - 1, t)
  <2>1. w - 1 > 0 => t[2 * (w - 1)] = s[2 * (w - 1)] BY <1>7
  <2>2. ASSUME w - 1 > 0 PROVE s[2 * (w - 1)].kind = "program"
    <3>1. w - 1 \in 1 .. w /\ w - 1 # w BY <2>2
    <3>2. \A i \in 1 .. w : s[2 * i].kind = "program" \/ (i = w /\ s[2 * i].kind = "launch")
      BY DEF Waits
    <3> QED BY <3>1, <3>2, Zenon
  <2> QED BY <2>1, <2>2 DEF Launching
<1>12. Base(w - 1, t) = KERNEL_STACK_TOP + w - 1 BY <1>11 DEF Base, KERNEL_STACK_TOP
<1>13. TopRule(w - 1, t)
  <2> SUFFICES ASSUME NEW j \in 2 * (w - 1) + 1 .. Len(t)
               PROVE  j = n
    BY <1>8, <1>9 DEF TopRule, OnTop, IsCall, KERNEL_STACK_TOP
  <2> QED BY <1>7
<1>14. Bottom(w - 1, t) BY <1>8 DEF Bottom
<1>15. \A i \in 1 .. Len(t) : t[i].kind \in {"exec", "program", "resume"}
  <2> TAKE i \in 1 .. Len(t)
  <2>1. CASE i = n BY <1>8, <2>1
  <2>2. CASE i # n
    <3>1. i \in 1 .. n - 1 /\ i \in 1 .. 2 * w BY <1>7, <2>2
    <3>2. s[i].kind \in {"exec", "program"} BY <3>1, BelowIs
    <3> QED BY <1>7, <3>1, <3>2
  <2> QED BY <2>1, <2>2
<1> HIDE DEF t
<1> QED BY <1>6, <1>7, <1>8, <1>10, <1>12, <1>13, <1>14, <1>15 DEF t

-----------------------------------------------------------------------------
(* The other parts of the invariant, as contexts come and go *)

NestRule(s) ==
    \A i, j \in 1 .. Len(s) :
        i < j /\ IsCall(s, i) /\ IsCall(s, j) => \E k \in i .. j : s[k].kind = "handler"

LEMMA NestPushed ==
    ASSUME NEW s \in Seq(Contexts), NEW t \in Seq(Contexts), NEW c, Pushed(s, t, c), NestRule(s),
           c.kind = "call" =>
              ~CallBelow(s, Len(s) + 1) \/ (s # <<>> /\ s[Len(s)].kind = "handler")
    PROVE  NestRule(t)
<1>1. /\ Len(s) \in Nat /\ Len(t) = Len(s) + 1 /\ t[Len(t)] = c
      /\ \A i \in 1 .. Len(s) : t[i] = s[i]
  BY DEF Pushed
<1> SUFFICES ASSUME NEW i \in 1 .. Len(t), NEW j \in 1 .. Len(t), i < j, IsCall(t, i), IsCall(t, j)
             PROVE  \E k \in i .. j : t[k].kind = "handler"
  BY DEF NestRule
<1>2. i \in 1 .. Len(s) /\ t[i] = s[i] BY <1>1
<1>3. CASE j = Len(t)
  <2>1. c.kind = "call" BY <1>1, <1>3 DEF IsCall
  <2>2. i \in 1 .. (Len(s) + 1) - 1 /\ IsCall(s, i) BY <1>1, <1>2 DEF IsCall
  <2>3. CallBelow(s, Len(s) + 1) BY <2>2 DEF CallBelow
  <2>4. s[Len(s)].kind = "handler" BY <2>1, <2>3
  <2>5. Len(s) \in i .. j /\ Len(s) \in 1 .. Len(s) BY <1>1, <1>2, <1>3
  <2> QED BY <1>1, <2>4, <2>5
<1>4. CASE j # Len(t)
  <2>1. j \in 1 .. Len(s) /\ t[j] = s[j] BY <1>1, <1>4
  <2>2. PICK k \in i .. j : s[k].kind = "handler" BY <1>2, <2>1 DEF NestRule, IsCall
  <2>3. k \in 1 .. Len(s) BY <1>2, <2>1
  <2> QED BY <1>1, <2>2, <2>3
<1> QED BY <1>3, <1>4

LEMMA NestPopped ==
    ASSUME NEW s \in Seq(Contexts), NEW t \in Seq(Contexts), NEW c, Pushed(s, t, c), NestRule(t)
    PROVE  NestRule(s)
<1>1. Len(s) \in Nat /\ Len(t) = Len(s) + 1 /\ \A i \in 1 .. Len(s) : t[i] = s[i] BY DEF Pushed
<1> SUFFICES ASSUME NEW i \in 1 .. Len(s), NEW j \in 1 .. Len(s), i < j, IsCall(s, i), IsCall(s, j)
             PROVE  \E k \in i .. j : s[k].kind = "handler"
  BY DEF NestRule
<1>2. i \in 1 .. Len(t) /\ j \in 1 .. Len(t) /\ IsCall(t, i) /\ IsCall(t, j) BY <1>1 DEF IsCall
<1>3. PICK k \in i .. j : t[k].kind = "handler" BY <1>2 DEF NestRule
<1>4. k \in 1 .. Len(s) OBVIOUS
<1> QED BY <1>1, <1>3, <1>4

LEMMA MousePushed ==
    ASSUME NEW s \in Seq(Contexts), NEW t \in Seq(Contexts), NEW c, NEW m, Pushed(s, t, c),
           MouseRule(s, m), c.kind # "callback"
    PROVE  MouseRule(t, m)
<1>1. /\ Len(s) \in Nat /\ Len(t) = Len(s) + 1 /\ t[Len(t)] = c
      /\ \A i \in 1 .. Len(s) : t[i] = s[i]
  BY DEF Pushed
<1>2. \A i \in 1 .. Len(t) : t[i].kind = "callback" => i \in 1 .. Len(s) /\ s[i].kind = "callback"
  <2> TAKE i \in 1 .. Len(t)
  <2>1. CASE i = Len(t) BY <1>1, <2>1
  <2>2. CASE i # Len(t)
    <3>1. i \in 1 .. Len(s) BY <1>1, <2>2
    <3> QED BY <1>1, <3>1
  <2> QED BY <2>1, <2>2
<1> QED BY <1>2 DEF MouseRule

LEMMA MousePopped ==
    ASSUME NEW s \in Seq(Contexts), NEW t \in Seq(Contexts), NEW c, NEW m, NEW q, Pushed(s, t, c),
           MouseRule(t, m), q = m \/ c.kind = "callback"
    PROVE  MouseRule(s, q)
<1>1. /\ Len(s) \in Nat /\ Len(t) = Len(s) + 1 /\ t[Len(t)] = c
      /\ \A i \in 1 .. Len(s) : t[i] = s[i]
  BY DEF Pushed
<1>2. \A i \in 1 .. Len(s) : i \in 1 .. Len(t) /\ i # Len(t) BY <1>1
<1>3. Len(t) \in 1 .. Len(t) BY <1>1
<1>4. c.kind = "callback" => \A i \in 1 .. Len(s) : s[i].kind # "callback"
  BY <1>1, <1>2, <1>3 DEF MouseRule
<1> QED BY <1>1, <1>2, <1>4 DEF MouseRule

LEMMA LeakPushed ==
    ASSUME NEW s \in Seq(Contexts), NEW t \in Seq(Contexts), NEW c, NEW w \in Nat, NEW l,
           Pushed(s, t, c), LeakRule(w, s, l), s # <<>>
    PROVE  LeakRule(w, t, l)
<1>1. /\ Len(s) \in Nat /\ Len(t) = Len(s) + 1 /\ \A i \in 1 .. Len(s) : t[i] = s[i]
  BY DEF Pushed
<1>2. 2 * w < Len(s) => 2 * w < Len(t) /\ t[2 * w + 1] = s[2 * w + 1] BY <1>1
<1> QED BY <1>2 DEF LeakRule

LEMMA LeakPopped ==
    ASSUME NEW s \in Seq(Contexts), NEW t \in Seq(Contexts), NEW c, NEW w \in Nat, NEW l,
           Pushed(s, t, c), LeakRule(w, t, l), c.kind # "resume"
    PROVE  LeakRule(w, s, l)
<1>1. /\ Len(s) \in Nat /\ Len(t) = Len(s) + 1 /\ t[Len(t)] = c /\ t # <<>>
      /\ \A i \in 1 .. Len(s) : t[i] = s[i]
  BY DEF Pushed
<1>2. 2 * w < Len(t) /\ t[2 * w + 1].kind = "resume" => 2 * w < Len(s) /\ s[2 * w + 1].kind = "resume"
  <2> HAVE 2 * w < Len(t) /\ t[2 * w + 1].kind = "resume"
  <2>1. 2 * w + 1 # Len(t) BY <1>1
  <2>2. 2 * w + 1 \in 1 .. Len(s) BY <1>1, <2>1
  <2> QED BY <1>1, <2>2
<1> QED BY <1>1, <1>2 DEF LeakRule

-----------------------------------------------------------------------------
(* What the invariant says of the innermost context *)

LEMMA TopIs ==
    ASSUME EntryIInv, wild = "no", acts # <<>>, NEW w \in Nat, Runs(w)
    PROVE  /\ acts \in Seq(Contexts) /\ Top = Len(acts) /\ Top \in Nat \ {0}
           /\ DOMAIN acts = 1 .. Top /\ acts[Top] \in Contexts /\ 2 * w <= Top
           /\ kstack_base = Base(w, acts)
           /\ acts[Top].kind \in OnTop => 2 * w < Top
           /\ acts[Top].kind \in {"program", "launch"} => Top = 2 * w /\ w > 0
           /\ acts[Top].kind \in {"call", "exit", "handler"} =>
                 w > 0 /\ acts[2 * w].kind = "program" /\ acts[2 * w + 1].kind # "resume" /\ leaked = 0
<1>1. /\ acts \in Seq(Contexts) /\ Top = Len(acts) /\ Top \in Nat \ {0}
      /\ DOMAIN acts = 1 .. Top /\ acts[Top] \in Contexts
  BY DEF EntryIInv, EntryTypeOK, Top
<1>2. Standing(w, acts) /\ LeakRule(w, acts, leaked) BY DEF Runs
<1>3. Waits(w, acts) /\ TopRule(w, acts) /\ Bottom(w, acts) /\ 2 * w <= Top
  BY <1>1, <1>2 DEF Standing, Waits
<1>4. kstack_base = Base(w, acts) BY <1>1, <1>3, DepthIs DEF EntryIInv, CountsMatch, Depth
<1>5. Top <= 2 * w => Top = 2 * w /\ w > 0 /\ Top \in 1 .. 2 * w BY <1>1, <1>3
<1>6. acts[Top].kind \in OnTop => 2 * w < Top BY <1>1, <1>3, <1>5, BelowIs DEF OnTop
<1>7. ASSUME 2 * w < Top PROVE Top \in 2 * w + 1 .. Len(acts) BY <1>1, <1>7
<1>8. acts[Top].kind \in {"program", "launch"} => Top = 2 * w /\ w > 0
  BY <1>1, <1>3, <1>5, <1>7 DEF TopRule, OnTop
<1>9. ASSUME acts[Top].kind \in {"call", "exit", "handler"}
      PROVE  w > 0 /\ acts[2 * w].kind = "program" /\ acts[2 * w + 1].kind # "resume" /\ leaked = 0
  <2>1. 2 * w < Top BY <1>6, <1>9 DEF OnTop
  <2>2. Started(w, acts) BY <1>3, <1>7, <1>9, <2>1 DEF TopRule
  <2>3. leaked \in Nat BY DEF EntryIInv, EntryTypeOK
  <2> QED BY <1>2, <2>2, <2>3 DEF Started, LeakRule
<1> QED BY <1>1, <1>3, <1>4, <1>6, <1>8, <1>9

(* The parts of the invariant make the whole. *)
LEMMA Together ==
    ASSUME EntryTypeOK', wild' = "no", NEW w \in Nat, Standing(w, acts'),
           MouseRule(acts', mouse_in_callback'), LeakRule(w, acts', leaked'), NestRule(acts'),
           indos_flag' = Count({"call"}, acts') + leaked', kstack_base' = Base(w, acts')
    PROVE  EntryIInv'
<1>1. acts' \in Seq(Contexts) /\ DOMAIN acts' = 1 .. Len(acts') BY DEF EntryTypeOK
<1>2. CountsMatch'
  <2>1. kstack_base' = KERNEL_STACK_TOP + Count({"program"}, acts')
    BY <1>1, DepthIs DEF Standing
  <2> QED BY <2>1 DEF CountsMatch, Depth
<1>3. OnlyHandlersNest' BY <1>1 DEF OnlyHandlersNest, NestRule, IsCall
<1>4. CallsComeHome' BY DEF CallsComeHome
<1>5. Runs(w)' BY DEF Runs
<1> QED BY <1>2, <1>3, <1>4, <1>5 DEF EntryIInv

LEMMA Nested == EntryIInv => NestRule(acts)
<1> SUFFICES ASSUME EntryIInv PROVE NestRule(acts) OBVIOUS
<1>1. DOMAIN acts = 1 .. Len(acts) BY DEF EntryIInv, EntryTypeOK
<1> QED BY <1>1 DEF EntryIInv, OnlyHandlersNest, NestRule, IsCall

(* A context on top keeps the invariant, *)
LEMMA PushKeeps ==
    ASSUME EntryIInv, wild = "no", wild' = "no", NEW w \in Nat, Runs(w), NEW c \in Contexts,
           FitsOn(w, acts, c), acts' = Append(acts, c),
           kstack_base' = kstack_base, leaked' = leaked,
           mouse_in_callback' \in BOOLEAN, mouse_callback' \in BOOLEAN,
           MouseRule(acts', mouse_in_callback'),
           c.kind = "call" => ~CallBelow(acts, Len(acts) + 1) \/ acts[Len(acts)].kind = "handler",
           indos_flag' = indos_flag + IF c.kind = "call" THEN 1 ELSE 0
    PROVE  EntryIInv'
<1>1. acts \in Seq(Contexts) /\ acts # <<>> BY DEF EntryIInv, EntryTypeOK, FitsOn
<1>2. acts' \in Seq(Contexts) /\ Pushed(acts, acts', c) BY <1>1, AppendPushes
<1>3. Standing(w, acts) /\ LeakRule(w, acts, leaked) /\ 2 * w <= Len(acts)
  BY DEF Runs, Standing, Waits
<1>4. Standing(w, acts') BY <1>1, <1>2, <1>3, PushStands
<1>5. LeakRule(w, acts', leaked') BY <1>1, <1>2, <1>3, LeakPushed
<1>6. NestRule(acts') BY <1>1, <1>2, Nested, NestPushed
<1>7. /\ Count({"call"}, acts') = Count({"call"}, acts) + IF c.kind = "call" THEN 1 ELSE 0
      /\ Count({"call"}, acts) \in Nat
  BY <1>1, <1>2, CallsPushed
<1>8. /\ indos_flag = Count({"call"}, acts) + leaked /\ leaked \in Nat /\ indos_flag \in Nat
      /\ kstack_base \in Nat
  BY DEF EntryIInv, CountsMatch, EntryTypeOK
<1>9. indos_flag' = Count({"call"}, acts') + leaked' /\ indos_flag' \in Nat
  <2> DEFINE a == Count({"call"}, acts)
             b == Count({"call"}, acts')
             d == IF c.kind = "call" THEN 1 ELSE 0
  <2>1. d \in Nat OBVIOUS
  <2>2. b = a + d /\ a \in Nat /\ indos_flag = a + leaked /\ indos_flag' = indos_flag + d
    BY <1>7, <1>8
  <2> HIDE DEF a, b, d
  <2>3. indos_flag' = b + leaked' /\ indos_flag' \in Nat BY <1>8, <2>1, <2>2
  <2> QED BY <2>3 DEF b
<1>10. kstack_base' = Base(w, acts') BY <1>1, <1>2, <1>3, SameBelow, TopIs
<1>11. EntryTypeOK' BY <1>2, <1>8, <1>9 DEF EntryTypeOK
<1> QED BY <1>4, <1>5, <1>6, <1>9, <1>10, <1>11, Together

(* and so does its going. *)
LEMMA PopKeeps ==
    ASSUME EntryIInv, wild = "no", wild' = "no", NEW w \in Nat, Runs(w), acts # <<>>,
           acts[Len(acts)].kind \in OnTop \ {"resume"}, acts' = Front(acts),
           kstack_base' = kstack_base, leaked' = leaked,
           mouse_in_callback' \in BOOLEAN, mouse_callback' \in BOOLEAN,
           mouse_in_callback' = mouse_in_callback \/ acts[Len(acts)].kind = "callback",
           indos_flag' = indos_flag - IF acts[Len(acts)].kind = "call" THEN 1 ELSE 0
    PROVE  EntryIInv'
<1> DEFINE c == acts[Len(acts)]
<1>1. acts \in Seq(Contexts) BY DEF EntryIInv, EntryTypeOK
<1>2. acts' \in Seq(Contexts) /\ Pushed(acts', acts, c) BY <1>1, FrontPushed
<1>3. Standing(w, acts) /\ LeakRule(w, acts, leaked) /\ MouseRule(acts, mouse_in_callback)
  BY DEF Runs
<1>4. 2 * w < Len(acts) /\ Len(acts) = Len(acts') + 1 /\ Len(acts') \in Nat
  BY <1>1, <1>2, TopIs DEF Top, Pushed
<1>5. Standing(w, acts') BY <1>1, <1>2, <1>3, <1>4, PopStands
<1>6. LeakRule(w, acts', leaked') BY <1>1, <1>2, <1>3, LeakPopped
<1>7. NestRule(acts') BY <1>1, <1>2, Nested, NestPopped
<1>8. MouseRule(acts', mouse_in_callback') BY <1>1, <1>2, <1>3, MousePopped
<1>9. /\ Count({"call"}, acts) = Count({"call"}, acts') + IF c.kind = "call" THEN 1 ELSE 0
      /\ Count({"call"}, acts') \in Nat
  BY <1>1, <1>2, CallsPushed
<1>10. /\ indos_flag = Count({"call"}, acts) + leaked /\ leaked \in Nat /\ indos_flag \in Nat
       /\ kstack_base \in Nat
  BY DEF EntryIInv, CountsMatch, EntryTypeOK
<1>11. indos_flag' = Count({"call"}, acts') + leaked' /\ indos_flag' \in Nat
  <2> DEFINE a == Count({"call"}, acts)
             b == Count({"call"}, acts')
             d == IF c.kind = "call" THEN 1 ELSE 0
  <2>1. d \in Nat OBVIOUS
  <2>2. a = b + d /\ b \in Nat /\ indos_flag = a + leaked /\ indos_flag' = indos_flag - d
    BY <1>9, <1>10
  <2> HIDE DEF a, b, d, c
  <2>3. indos_flag' = b + leaked' /\ indos_flag' \in Nat BY <1>10, <2>1, <2>2
  <2> QED BY <2>3 DEF b
<1>12. kstack_base' = Base(w, acts')
  <2>1. 2 * w <= Len(acts') BY <1>4
  <2> QED BY <1>1, <1>2, <2>1, SameBelow, TopIs
<1>13. EntryTypeOK' BY <1>2, <1>10, <1>11 DEF EntryTypeOK
<1> QED BY <1>5, <1>6, <1>7, <1>8, <1>11, <1>12, <1>13, Together

-----------------------------------------------------------------------------
(* Calls *)

LEMMA CallsBelow ==
    ASSUME NEW s \in Seq(Contexts)
    PROVE  Count({"call"}, s) = 0 <=> ~CallBelow(s, Len(s) + 1)
<1> DEFINE k == {"call"}
<1> HIDE DEF k
<1>1. Count(k, s) = 0 <=> \A i \in 1 .. Len(s) : s[i].kind \notin k BY CountNone
<1>2. \A i \in 1 .. Len(s) : s[i].kind \notin k <=> ~IsCall(s, i) BY DEF k, IsCall
<1>3. CallBelow(s, Len(s) + 1) <=> \E i \in 1 .. Len(s) : IsCall(s, i)
  <2>1. Len(s) \in Nat OBVIOUS
  <2>2. (Len(s) + 1) - 1 = Len(s) BY <2>1
  <2> QED BY <2>2 DEF CallBelow
<1>4. Count(k, s) = 0 <=> ~CallBelow(s, Len(s) + 1) BY <1>1, <1>2, <1>3
<1> QED BY <1>4 DEF k

LEMMA BaseIsNat ==
    ASSUME NEW w \in Nat, NEW s \in Seq(Contexts)
    PROVE  Base(w, s) \in Nat \ {0}
BY DEF Base, Launching, KERNEL_STACK_TOP

(* A call that switches where nothing is in use finds a program at work, *)
LEMMA NothingInUse ==
    ASSUME EntryIInv, wild = "no", acts # <<>>, NEW w \in Nat, Runs(w), InUse = {}
    PROVE  /\ w > 0 /\ acts[2 * w].kind = "program"
           /\ 2 * w < Len(acts) => acts[2 * w + 1].kind # "resume"
<1>1. /\ Len(acts) \in Nat \ {0} /\ DOMAIN acts = 1 .. Len(acts) /\ 2 * w <= Len(acts)
      /\ kstack_base = Base(w, acts)
  BY TopIs DEF Top
<1>2. Waits(w, acts) /\ TopRule(w, acts) /\ Bottom(w, acts) BY DEF Runs, Standing
<1>3. \A i \in 1 .. Len(acts) : acts[i].level = NoLevel \/ ~(acts[i].level >= Base(w, acts))
  BY <1>1 DEF InUse
<1>4. ~Launching(w, acts)
  <2>1. SUFFICES ASSUME Launching(w, acts) PROVE FALSE OBVIOUS
  <2>2. w > 0 /\ Base(w, acts) = w BY <2>1 DEF Base, Launching, KERNEL_STACK_TOP
  <2>3. w \in 1 .. w /\ 2 * w - 1 \in 1 .. Len(acts) BY <1>1, <2>2
  <2>4. acts[2 * w - 1].level = w BY <1>2, <2>3 DEF Waits, KERNEL_STACK_TOP
  <2> QED BY <1>3, <2>2, <2>3, <2>4 DEF NoLevel
<1>5. Base(w, acts) = KERNEL_STACK_TOP + w BY <1>4 DEF Base
<1>6. ASSUME 2 * w < Len(acts) PROVE acts[2 * w + 1].kind # "resume"
  <2>1. 2 * w + 1 \in 2 * w + 1 .. Len(acts) /\ 2 * w + 1 \in 1 .. Len(acts) BY <1>1, <1>6
  <2>2. acts[2 * w + 1].kind = "resume" => acts[2 * w + 1].level = KERNEL_STACK_TOP + w
    BY <1>2, <2>1 DEF TopRule
  <2> QED BY <1>3, <1>5, <2>1, <2>2 DEF KERNEL_STACK_TOP, NoLevel
<1>7. w > 0
  <2>1. SUFFICES ASSUME w = 0 PROVE FALSE OBVIOUS
  <2>2. acts[1].kind = "resume" BY <1>2, <2>1 DEF Bottom
  <2> QED BY <1>1, <1>6, <2>1, <2>2
<1>8. acts[2 * w].kind = "program" BY <1>2, <1>4, <1>7 DEF Waits, Launching
<1> QED BY <1>6, <1>7, <1>8

(* and what it overwrites otherwise is the frame of an exit, or of an EXEC *)
(* that starts a program or comes back from one.                           *)
LEMMA OverrunIs ==
    ASSUME EntryIInv, wild = "no", acts # <<>>, NEW w \in Nat, Runs(w),
           ~CallBelow(acts, Len(acts) + 1), NEW i \in 1 .. Len(acts), acts[i].level >= kstack_base
    PROVE  acts[i].kind \in {"exit", "resume"} \/ (i < Len(acts) /\ acts[i + 1].kind = "launch")
<1>1. /\ acts \in Seq(Contexts) /\ Len(acts) \in Nat \ {0} /\ 2 * w <= Len(acts)
      /\ kstack_base = Base(w, acts)
  BY TopIs DEF Top
<1>2. Waits(w, acts) /\ TopRule(w, acts) BY DEF Runs, Standing
<1>3. CASE i <= 2 * w
  <2>1. i \in 1 .. 2 * w BY <1>3
  <2>2. i = 2 * w - 1 /\ Launching(w, acts) BY <1>1, <1>2, <2>1, BelowIs
  <2>3. i + 1 = 2 * w BY <2>2
  <2> QED BY <1>1, <2>2, <2>3 DEF Launching
<1>4. CASE i > 2 * w
  <2>1. i \in 2 * w + 1 .. Len(acts) BY <1>4
  <2>2. ~IsCall(acts, i)
    <3>1. i \in 1 .. (Len(acts) + 1) - 1 BY <1>1
    <3> QED BY <3>1 DEF CallBelow
  <2>3. acts[i].level # NoLevel
    <3>1. kstack_base \in Nat \ {0} BY <1>1, BaseIsNat
    <3>2. acts[i].level = 0 => ~(acts[i].level >= kstack_base) BY <3>1
    <3> QED BY <3>2 DEF NoLevel
  <2>4. /\ acts[i].kind \in OnTop
        /\ acts[i].kind \in {"handler", "isr", "callback"} => acts[i].level = NoLevel
    BY <1>2, <2>1 DEF TopRule
  <2>5. acts[i].kind \in {"exit", "resume"} BY <2>2, <2>3, <2>4 DEF OnTop, IsCall
  <2> QED BY <2>5
<1> QED BY <1>3, <1>4

LEMMA EnterKeeps ==
    ASSUME EntryIInv, wild = "no", acts # <<>>, NEW w \in Nat, Runs(w), Enters, leaked = 0,
           CallBelow(acts, Len(acts) + 1) => acts[Len(acts)].kind = "handler"
    PROVE  EntryIInv'
<1>1. /\ acts \in Seq(Contexts) /\ Len(acts) \in Nat \ {0} /\ DOMAIN acts = 1 .. Len(acts)
      /\ 2 * w <= Len(acts) /\ kstack_base = Base(w, acts) /\ kstack_base \in Nat \ {0}
  BY TopIs, BaseIsNat DEF Top
<1>2. /\ indos_flag = Count({"call"}, acts) /\ indos_flag \in Nat
      /\ mouse_in_callback \in BOOLEAN /\ mouse_callback \in BOOLEAN
  <2>1. indos_flag = Count({"call"}, acts) + leaked /\ indos_flag \in Nat BY DEF EntryIInv, CountsMatch, EntryTypeOK
  <2>2. Count({"call"}, acts) \in Nat BY <1>1, AppendPushes, CountIsNat
  <2>3. indos_flag = Count({"call"}, acts)
    <3> DEFINE a == Count({"call"}, acts)
    <3> HIDE DEF a
    <3>1. a \in Nat /\ indos_flag = a + leaked BY <2>1, <2>2 DEF a
    <3>2. indos_flag = a BY <3>1
    <3> QED BY <3>2 DEF a
  <2> QED BY <2>1, <2>3 DEF EntryIInv, EntryTypeOK
<1>3. indos_flag = 0 <=> ~CallBelow(acts, Len(acts) + 1) BY <1>1, <1>2, CallsBelow
<1>4. /\ indos_flag' = indos_flag + 1 /\ kstack_base' = kstack_base /\ leaked' = leaked
      /\ mouse_in_callback' = mouse_in_callback /\ mouse_callback' = mouse_callback
  BY DEF Enters
<1>5. MouseRule(acts, mouse_in_callback) BY DEF Runs
<1>6. CASE indos_flag = 0
  <2> DEFINE c == Context("call", kstack_base)
  <2>1. acts' = Append(acts, c) /\ wild' = IF InUse = {} THEN "no" ELSE "overrun"
    BY <1>4, <1>6 DEF Enters
  <2>2. c \in Contexts /\ c.kind = "call" /\ c.level = kstack_base
    BY <1>1 DEF Context, Contexts, Kinds
  <2>3. acts' \in Seq(Contexts) /\ Pushed(acts, acts', c) BY <1>1, <2>1, <2>2, AppendPushes
  <2>4. ~CallBelow(acts, Len(acts) + 1) BY <1>3, <1>6
  <2> HIDE DEF c
  <2>5. CASE InUse = {}
    <3>1. FitsOn(w, acts, c) BY <1>1, <2>2, <2>4, <2>5, NothingInUse DEF FitsOn
    <3>2. MouseRule(acts', mouse_in_callback') BY <1>1, <1>4, <1>5, <2>2, <2>3, MousePushed
    <3>3. wild' = "no" BY <2>1, <2>5
    <3> QED BY <1>2, <1>4, <2>1, <2>2, <2>4, <3>1, <3>2, <3>3, PushKeeps
  <2>6. CASE InUse # {}
    <3>1. wild' = "overrun" BY <2>1, <2>6
    <3>2. EntryTypeOK' BY <1>2, <1>4, <2>3, <3>1 DEF EntryIInv, EntryTypeOK
    <3>3. NestRule(acts') BY <1>1, <2>3, <2>4, Nested, NestPushed
    <3>4. OnlyHandlersNest'
      <4>1. DOMAIN acts' = 1 .. Len(acts') BY <2>3
      <4> QED BY <3>3, <4>1 DEF OnlyHandlersNest, NestRule, IsCall
    <3>5. CountsMatch'
      <4>1. Count({"call"}, acts') = Count({"call"}, acts) + 1 /\ Count({"call"}, acts) \in Nat
        BY <1>1, <2>2, <2>3, CallsPushed
      <4>2. Depth' = Depth
        <5> DEFINE p == {"program"}
        <5>1. c.kind \notin p BY <2>2
        <5> HIDE DEF p
        <5>2. Count(p, acts') = Count(p, acts) + (IF c.kind \in p THEN 1 ELSE 0) /\ Count(p, acts) \in Nat
          BY <1>1, <2>3, CountPushed, CountIsNat
        <5>3. Count(p, acts') = Count(p, acts) BY <5>1, <5>2
        <5> QED BY <5>3 DEF p, Depth
      <4>3. indos_flag' = Count({"call"}, acts') + leaked'
        <5> DEFINE a == Count({"call"}, acts)
                   b == Count({"call"}, acts')
        <5> HIDE DEF a, b
        <5>1. b = a + 1 /\ a \in Nat /\ indos_flag = a BY <1>2, <4>1 DEF a, b
        <5>2. indos_flag' = b + leaked' BY <1>4, <5>1
        <5> QED BY <5>2 DEF b
      <4>4. kstack_base = KERNEL_STACK_TOP + Depth BY DEF EntryIInv, CountsMatch
      <4> QED BY <1>4, <4>2, <4>3, <4>4 DEF CountsMatch
    <3>6. CallsComeHome'
      <4>1. /\ Top' = Len(acts) + 1 /\ acts'[Top'] = c
            /\ \A i \in 1 .. Len(acts) : acts'[i] = acts[i]
        BY <2>3 DEF Top, Pushed
      <4>2. Top' - 1 = Len(acts) BY <1>1, <4>1
      <4>3. ASSUME NEW i \in 1 .. Len(acts), acts'[i].level >= acts'[Top'].level
            PROVE  acts'[i].kind \in {"exit", "resume"} \/ acts'[i + 1].kind = "launch"
        <5>1. acts[i].level >= kstack_base BY <2>2, <4>1, <4>3
        <5>2. acts[i].kind \in {"exit", "resume"} \/ (i < Len(acts) /\ acts[i + 1].kind = "launch")
          BY <2>4, <5>1, OverrunIs
        <5>3. i < Len(acts) => acts'[i + 1] = acts[i + 1] BY <1>1, <4>1
        <5> QED BY <4>1, <5>2, <5>3
      <4> QED BY <3>1, <4>2, <4>3 DEF CallsComeHome
    <3> QED BY <3>1, <3>2, <3>4, <3>5, <3>6 DEF EntryIInv
  <2> QED BY <2>5, <2>6
<1>7. CASE indos_flag # 0
  <2> DEFINE c == Context("call", NoLevel)
  <2>1. acts' = Append(acts, c) /\ wild' = wild
    <3>1. indos_flag' # 1 BY <1>2, <1>4, <1>7
    <3> QED BY <3>1 DEF Enters
  <2>2. c \in Contexts /\ c.kind = "call" /\ c.level = NoLevel
    BY DEF Context, Contexts, Kinds, NoLevel
  <2>3. acts' \in Seq(Contexts) /\ Pushed(acts, acts', c) BY <1>1, <2>1, <2>2, AppendPushes
  <2> HIDE DEF c
  <2>4. CallBelow(acts, Len(acts) + 1) BY <1>3, <1>7
  <2>5. acts[Len(acts)].kind = "handler" BY <2>4
  <2>6. 2 * w < Len(acts) /\ w > 0 /\ acts[2 * w].kind = "program" /\ acts[2 * w + 1].kind # "resume"
    BY <2>5, TopIs DEF Top, OnTop
  <2>7. FitsOn(w, acts, c) BY <1>1, <2>2, <2>4, <2>6 DEF FitsOn
  <2>8. MouseRule(acts', mouse_in_callback') BY <1>1, <1>4, <1>5, <2>2, <2>3, MousePushed
  <2> QED BY <1>2, <1>4, <2>1, <2>2, <2>5, <2>7, <2>8, PushKeeps
<1> QED BY <1>6, <1>7

LEMMA StutterIsSafe == ASSUME EntryIInv, UNCHANGED entryVars PROVE EntryIInv'
<1> USE DEF entryVars
<1>1. EntryTypeOK' BY DEF EntryIInv, EntryTypeOK
<1>2. CountsMatch' BY DEF EntryIInv, CountsMatch, Depth
<1>3. OnlyHandlersNest' BY DEF EntryIInv, OnlyHandlersNest
<1>4. CallsComeHome' BY DEF EntryIInv, CallsComeHome, Top
<1>5. wild' = "no" => \E w \in Nat : Runs(w)' BY DEF EntryIInv, Runs
<1> QED BY <1>1, <1>2, <1>3, <1>4, <1>5 DEF EntryIInv

LEMMA CallIsSafe == ASSUME EntryIInv, Call PROVE EntryIInv'
<1>1. wild = "no" /\ acts # <<>> /\ acts[Top].kind \in {"program", "handler"} /\ Enter
  BY DEF Call, Innermost
<1>2. PICK w \in Nat : Runs(w) BY <1>1 DEF EntryIInv
<1>3. CASE Enters
  <2>1. leaked = 0
    <3>1. CASE acts[Top].kind = "handler" BY <1>1, <1>2, <3>1, TopIs
    <3>2. CASE acts[Top].kind = "program"
      <4>1. Top = 2 * w /\ Top = Len(acts) /\ leaked \in Nat
        BY <1>1, <1>2, <3>2, TopIs DEF EntryIInv, EntryTypeOK
      <4> QED BY <1>1, <1>2, <4>1 DEF Runs, LeakRule
    <3> QED BY <1>1, <3>1, <3>2
  <2>2. acts[Top].kind = "program" => ~CallBelow(acts, Len(acts) + 1)
    <3> HAVE acts[Top].kind = "program"
    <3>1. Len(acts) = 2 * w /\ acts \in Seq(Contexts) BY <1>1, <1>2, TopIs
    <3>2. Waits(w, acts) /\ Len(acts) + 1 \in Int /\ Len(acts) + 1 <= 2 * w + 1
      BY <1>2, <3>1 DEF Runs, Standing
    <3> QED BY <3>1, <3>2, NoCallsBelow
  <2> QED BY <1>1, <1>2, <1>3, <2>1, <2>2, EnterKeeps DEF Top
<1>4. CASE Refused /\ UNCHANGED entryVars BY <1>4, StutterIsSafe
<1> QED BY <1>1, <1>3, <1>4 DEF Enter

LEMMA PolitelyCallsIsSafe == ASSUME EntryIInv, PolitelyCalls PROVE EntryIInv'
<1>1. wild = "no" /\ acts # <<>> /\ indos_flag = 0 /\ Enter BY DEF PolitelyCalls, Innermost
<1>2. PICK w \in Nat : Runs(w) BY <1>1 DEF EntryIInv
<1>3. CASE Enters
  <2>1. acts \in Seq(Contexts) /\ leaked \in Nat /\ indos_flag = Count({"call"}, acts) + leaked
    BY DEF EntryIInv, EntryTypeOK, CountsMatch
  <2>2. Count({"call"}, acts) \in Nat
    <3> DEFINE k == {"call"}
    <3> HIDE DEF k
    <3>1. Count(k, acts) \in Nat BY <2>1, CountIsNat
    <3> QED BY <3>1 DEF k
  <2>3. leaked = 0 /\ Count({"call"}, acts) = 0
    <3> DEFINE a == Count({"call"}, acts)
    <3> HIDE DEF a
    <3>1. a \in Nat /\ 0 = a + leaked BY <1>1, <2>1, <2>2 DEF a
    <3>2. leaked = 0 /\ a = 0 BY <2>1, <3>1
    <3> QED BY <3>2 DEF a
  <2> QED BY <1>1, <1>2, <1>3, <2>1, <2>3, CallsBelow, EnterKeeps
<1>4. CASE Refused /\ UNCHANGED entryVars BY <1>4, StutterIsSafe
<1> QED BY <1>1, <1>3, <1>4 DEF Enter

(* A callback is refused: the flag is set as long as it runs. *)
LEMMA CallbackCallsIsSafe == ASSUME EntryIInv, CallbackCalls PROVE EntryIInv'
<1>1. wild = "no" /\ acts # <<>> /\ acts[Top].kind = "callback" /\ Enter
  BY DEF CallbackCalls, Innermost
<1>2. PICK w \in Nat : Runs(w) BY <1>1 DEF EntryIInv
<1>3. Top = Len(acts) /\ Top \in Nat \ {0} BY <1>1, <1>2, TopIs
<1>4. Top \in 1 .. Len(acts) BY <1>3
<1>5. mouse_in_callback BY <1>1, <1>2, <1>4 DEF Runs, MouseRule
<1>6. UNCHANGED entryVars BY <1>1, <1>5 DEF Enter, Enters, Refused
<1> QED BY <1>6, StutterIsSafe

(* A call returns to where it was made. *)
LEMMA ReturnIsSafe == ASSUME EntryIInv, Return PROVE EntryIInv'
<1>1. /\ wild = "no" /\ acts # <<>> /\ acts[Top].kind = "call"
      /\ wild' = Home(indos_flag, acts[Top].level) /\ acts' = Front(acts)
      /\ indos_flag' = indos_flag - 1 /\ kstack_base' = kstack_base /\ leaked' = leaked
      /\ mouse_in_callback' = mouse_in_callback /\ mouse_callback' = mouse_callback
  BY DEF Return, Innermost
<1>2. PICK w \in Nat : Runs(w) BY <1>1 DEF EntryIInv
<1>3. /\ acts \in Seq(Contexts) /\ Top = Len(acts) /\ Top \in Nat \ {0} /\ DOMAIN acts = 1 .. Top
      /\ 2 * w < Top /\ w > 0 /\ leaked = 0
  BY <1>1, <1>2, TopIs DEF OnTop
<1>4. Waits(w, acts) /\ TopRule(w, acts) /\ Standing(w, acts) BY <1>2 DEF Runs, Standing
<1>5. acts[Top].level = IF CallBelow(acts, Top) THEN NoLevel ELSE Base(w, acts)
  <2>1. Top \in 2 * w + 1 .. Len(acts) BY <1>3
  <2> QED BY <1>1, <1>4, <2>1 DEF TopRule, IsCall
<1>6. indos_flag = 1 <=> ~CallBelow(acts, Top)
  <2> DEFINE s == Front(acts)
  <2>1. s \in Seq(Contexts) /\ Pushed(s, acts, acts[Top]) BY <1>1, <1>3, FrontPushed
  <2> HIDE DEF s
  <2>2. Len(s) + 1 = Top /\ (CallBelow(acts, Top) <=> CallBelow(s, Top))
    <3>1. Len(s) \in Nat /\ Len(acts) = Len(s) + 1 BY <2>1 DEF Pushed
    <3>2. 2 * w <= Len(s) /\ Top \in 1 .. Len(acts) BY <1>3, <3>1
    <3> QED BY <1>3, <2>1, <3>1, <3>2, SameBelow
  <2>3. Count({"call"}, s) = 0 <=> ~CallBelow(acts, Top) BY <2>1, <2>2, CallsBelow
  <2>4. Count({"call"}, acts) = Count({"call"}, s) + 1 /\ Count({"call"}, s) \in Nat
    BY <1>1, <1>3, <2>1, CallsPushed
  <2>5. indos_flag = Count({"call"}, acts) + leaked BY DEF EntryIInv, CountsMatch
  <2>6. indos_flag = 1 <=> Count({"call"}, s) = 0
    <3> DEFINE a == Count({"call"}, s)
               b == Count({"call"}, acts)
    <3> HIDE DEF a, b
    <3>1. b = a + 1 /\ a \in Nat /\ indos_flag = b + leaked BY <2>4, <2>5 DEF a, b
    <3>2. indos_flag = 1 <=> a = 0 BY <1>3, <3>1
    <3> QED BY <3>2 DEF a
  <2> QED BY <2>3, <2>6
<1>7. wild' = "no"
  <2>1. Program = 2 * w BY <1>3, <1>4, ProgramIs DEF EntryIInv
  <2>2. CASE CallBelow(acts, Top)
    <3>1. acts[Top].level = NoLevel /\ indos_flag # 1 BY <1>5, <1>6, <2>2
    <3>2. Restores(indos_flag) = FALSE BY <3>1 DEF Restores
    <3> QED BY <1>1, <3>1, <3>2 DEF Home
  <2>3. CASE ~CallBelow(acts, Top)
    <3>1. indos_flag = 1 /\ acts[Top].level # NoLevel
      BY <1>3, <1>5, <1>6, <2>3, BaseIsNat DEF NoLevel
    <3>2. Top \in DOMAIN acts /\ Top > Program BY <1>3, <2>1
    <3>3. OnKernelStack BY <3>1, <3>2 DEF OnKernelStack
    <3>4. Restores(indos_flag) = TRUE BY <3>1, <3>3 DEF Restores
    <3> QED BY <1>1, <3>1, <3>4 DEF Home
  <2> QED BY <2>2, <2>3
<1>8. mouse_in_callback \in BOOLEAN /\ mouse_callback \in BOOLEAN BY DEF EntryIInv, EntryTypeOK
<1> QED BY <1>1, <1>2, <1>3, <1>7, <1>8, PopKeeps DEF OnTop

-----------------------------------------------------------------------------
(* Programs *)

LEMMA LaunchIsSafe == ASSUME EntryIInv, Launch PROVE EntryIInv'
<1>1. /\ wild = "no" /\ acts # <<>> /\ acts[Top].kind = "call" /\ acts[Top - 1].kind = "program"
      /\ acts' = Append(WithTop("exec"), Child("launch", kstack_base))
      /\ indos_flag' = indos_flag - 1 /\ kstack_base' = kstack_base /\ leaked' = leaked
      /\ mouse_in_callback' = mouse_in_callback /\ mouse_callback' = mouse_callback /\ wild' = wild
  BY DEF Launch, Innermost
<1>2. PICK w \in Nat : Runs(w) BY <1>1 DEF EntryIInv
<1>3. /\ acts \in Seq(Contexts) /\ Top = Len(acts) /\ Top \in Nat \ {0} /\ acts[Top] \in Contexts
      /\ 2 * w < Top /\ w > 0 /\ leaked = 0 /\ acts[2 * w].kind = "program"
      /\ kstack_base = Base(w, acts)
  BY <1>1, <1>2, TopIs DEF OnTop
<1>4. Waits(w, acts) /\ TopRule(w, acts) /\ Standing(w, acts) /\ MouseRule(acts, mouse_in_callback)
  BY <1>2 DEF Runs, Standing
<1>5. Top = 2 * w + 1
  <2>1. SUFFICES ASSUME Top # 2 * w + 1 PROVE FALSE OBVIOUS
  <2>2. Top - 1 \in 2 * w + 1 .. Len(acts) BY <1>3, <2>1
  <2> QED BY <1>1, <1>4, <2>2 DEF TopRule, OnTop
<1>6. Base(w, acts) = KERNEL_STACK_TOP + w BY <1>3 DEF Base, Launching
<1>7. acts[Top].level = KERNEL_STACK_TOP + w
  <2>1. Top \in 2 * w + 1 .. Len(acts) BY <1>3
  <2>2. ~CallBelow(acts, Top) BY <1>3, <1>4, <1>5, NoCallsBelow
  <2> QED BY <1>1, <1>4, <1>6, <2>1, <2>2 DEF TopRule, IsCall
<1> DEFINE s == Front(acts)
           u == WithTop("exec")
           x == [acts[Top] EXCEPT !.kind = "exec"]
           c == Child("launch", kstack_base)
<1>8. s \in Seq(Contexts) /\ Pushed(s, acts, acts[Top]) BY <1>1, <1>3, FrontPushed
<1>9. u \in Seq(Contexts) /\ Pushed(s, u, x)
  <2>1. "exec" \in Kinds BY DEF Kinds
  <2> QED BY <1>1, <1>3, <2>1, TopChanged DEF WithTop, Top
<1>10. x \in Contexts /\ x.kind = "exec" /\ x.level = KERNEL_STACK_TOP + w
  BY <1>3, <1>7 DEF Contexts, Kinds
<1>11. c \in Contexts /\ c.kind = "launch" /\ c.level = NoLevel /\ c.kbase = KERNEL_STACK_TOP + w
  BY <1>3, <1>6 DEF Child, Contexts, Kinds, NoLevel, KERNEL_STACK_TOP
<1>12. acts' = Append(u, c) BY <1>1
<1> HIDE DEF s, u, x, c
<1>13. acts' \in Seq(Contexts) /\ Pushed(u, acts', c) BY <1>9, <1>11, <1>12, AppendPushes
<1>14. Len(s) = 2 * w /\ s # <<>> /\ s[2 * w].kind = "program"
  <2>1. Len(s) \in Nat /\ Len(acts) = Len(s) + 1 /\ \A i \in 1 .. Len(s) : acts[i] = s[i]
    BY <1>8 DEF Pushed
  <2>2. Len(acts) = 2 * w + 1 BY <1>3, <1>5
  <2>3. Len(s) = 2 * w BY <2>1, <2>2
  <2>4. 2 * w \in 1 .. Len(s) BY <1>3, <2>3
  <2> QED BY <1>3, <2>1, <2>3, <2>4
<1>15. Standing(w, s) BY <1>3, <1>4, <1>8, PopStands
<1>16. Standing(w + 1, acts') /\ Base(w + 1, acts') = Base(w, s)
  <2>1. w > 0 BY <1>3
  <2>2. Len(s) = 2 * w /\ s[2 * w].kind = "program" BY <1>14
  <2> QED BY <1>8, <1>9, <1>10, <1>11, <1>13, <1>15, <2>1, <2>2, LaunchStands, Zenon
<1>17. Base(w, s) = Base(w, acts)
  <2>1. 2 * w <= Len(s) BY <1>14
  <2> QED BY <1>3, <1>8, <2>1, SameBelow
<1>18. MouseRule(acts', mouse_in_callback')
  <2>1. MouseRule(s, mouse_in_callback) BY <1>3, <1>4, <1>8, MousePopped
  <2>2. MouseRule(u, mouse_in_callback) BY <1>8, <1>9, <1>10, <2>1, MousePushed
  <2>3. MouseRule(acts', mouse_in_callback) BY <1>9, <1>11, <1>13, <2>2, MousePushed
  <2> QED BY <1>1, <2>3
<1>19. NestRule(acts')
  <2>1. NestRule(s) BY <1>3, <1>8, Nested, NestPopped
  <2>2. NestRule(u) BY <1>8, <1>9, <1>10, <2>1, NestPushed
  <2> QED BY <1>9, <1>11, <1>13, <2>2, NestPushed
<1>20. LeakRule(w + 1, acts', leaked') BY <1>1, <1>3 DEF LeakRule
<1>21. indos_flag' = Count({"call"}, acts') + leaked' /\ indos_flag' \in Nat
  <2> DEFINE a == Count({"call"}, s)
             b == Count({"call"}, acts)
             d == Count({"call"}, u)
             e == Count({"call"}, acts')
  <2>1. b = a + 1 /\ a \in Nat BY <1>1, <1>3, <1>8, CallsPushed
  <2>2. d = a + 0 BY <1>8, <1>9, <1>10, CallsPushed
  <2>3. e = d + 0 BY <1>9, <1>11, <1>13, CallsPushed
  <2>4. indos_flag = b + leaked BY DEF EntryIInv, CountsMatch
  <2> HIDE DEF a, b, d, e
  <2>5. indos_flag' = e + leaked' /\ indos_flag' \in Nat BY <1>1, <1>3, <2>1, <2>2, <2>3, <2>4
  <2> QED BY <2>5 DEF e
<1>22. EntryTypeOK' BY <1>1, <1>13, <1>21 DEF EntryIInv, EntryTypeOK
<1>23. kstack_base' = Base(w + 1, acts') BY <1>1, <1>3, <1>16, <1>17
<1>24. w + 1 \in Nat /\ wild' = "no" BY <1>1
<1> QED BY <1>16, <1>18, <1>19, <1>20, <1>21, <1>22, <1>23, <1>24, Together

LEMMA StartIsSafe == ASSUME EntryIInv, Start PROVE EntryIInv'
<1>1. /\ wild = "no" /\ acts # <<>> /\ acts[Top].kind = "launch"
      /\ acts' = WithTop("program") /\ kstack_base' = acts[Top - 1].level + 1
      /\ indos_flag' = indos_flag /\ leaked' = leaked
      /\ mouse_in_callback' = mouse_in_callback /\ mouse_callback' = mouse_callback /\ wild' = wild
  BY DEF Start, Innermost
<1>2. PICK w \in Nat : Runs(w) BY <1>1 DEF EntryIInv
<1>3. /\ acts \in Seq(Contexts) /\ Top = Len(acts) /\ Top \in Nat \ {0} /\ acts[Top] \in Contexts
      /\ Top = 2 * w /\ w > 0 /\ leaked \in Nat
  BY <1>1, <1>2, TopIs DEF EntryIInv, EntryTypeOK
<1>4. Standing(w, acts) /\ MouseRule(acts, mouse_in_callback) /\ LeakRule(w, acts, leaked)
  BY <1>2 DEF Runs
<1>5. leaked = 0 BY <1>1, <1>3, <1>4 DEF LeakRule
<1> DEFINE s == Front(acts)
           x == [acts[Top] EXCEPT !.kind = "program"]
<1>6. s \in Seq(Contexts) /\ Pushed(s, acts, acts[Top]) BY <1>1, <1>3, FrontPushed
<1>7. acts' \in Seq(Contexts) /\ Pushed(s, acts', x)
  <2>1. "program" \in Kinds BY DEF Kinds
  <2> QED BY <1>1, <1>3, <2>1, TopChanged DEF WithTop, Top
<1>8. x.kind = "program" BY <1>3 DEF Contexts
<1>9. Launching(w, acts) BY <1>1, <1>3 DEF Launching
<1>10. Standing(w, acts') /\ Base(w, acts') = acts[2 * w - 1].level + 1
  BY <1>3, <1>4, <1>7, <1>9, StartStands
<1> HIDE DEF s, x
<1>11. MouseRule(acts', mouse_in_callback')
  <2>1. MouseRule(s, mouse_in_callback) BY <1>3, <1>4, <1>6, MousePopped
  <2>2. MouseRule(acts', mouse_in_callback) BY <1>6, <1>7, <1>8, <2>1, MousePushed
  <2> QED BY <1>1, <2>2
<1>12. NestRule(acts')
  <2>1. NestRule(s) BY <1>3, <1>6, Nested, NestPopped
  <2> QED BY <1>6, <1>7, <1>8, <2>1, NestPushed
<1>13. LeakRule(w, acts', leaked') BY <1>1, <1>5 DEF LeakRule
<1>14. indos_flag' = Count({"call"}, acts') + leaked' /\ indos_flag' \in Nat
  <2> DEFINE a == Count({"call"}, s)
             b == Count({"call"}, acts)
             e == Count({"call"}, acts')
  <2>1. b = a + 0 /\ a \in Nat BY <1>1, <1>3, <1>6, CallsPushed
  <2>2. e = a + 0 BY <1>6, <1>7, <1>8, CallsPushed
  <2>3. indos_flag = b + leaked BY DEF EntryIInv, CountsMatch
  <2> HIDE DEF a, b, e
  <2>4. indos_flag' = e + leaked' /\ indos_flag' \in Nat BY <1>1, <1>5, <2>1, <2>2, <2>3
  <2> QED BY <2>4 DEF e
<1>15. kstack_base' = Base(w, acts') BY <1>1, <1>3, <1>10
<1>16. kstack_base' \in Nat BY <1>7, <1>15, BaseIsNat
<1>17. EntryTypeOK' BY <1>1, <1>3, <1>7, <1>14, <1>16 DEF EntryIInv, EntryTypeOK
<1> QED BY <1>1, <1>10, <1>11, <1>12, <1>13, <1>14, <1>15, <1>17, Together

LEMMA ExitIsSafe == ASSUME EntryIInv, NEW stays \in BOOLEAN, Exit(stays) PROVE EntryIInv'
<1>1. /\ wild = "no" /\ acts # <<>> /\ acts[Top].kind = "call" /\ EndsProgram
      /\ acts' = WithTop("exit") /\ indos_flag' = indos_flag - 1
      /\ kstack_base' = kstack_base /\ leaked' = leaked /\ wild' = wild
  BY DEF Exit, Innermost
<1>2. mouse_in_callback' \in BOOLEAN /\ mouse_callback' \in BOOLEAN
  BY DEF Exit, MouseAtExit, EntryIInv, EntryTypeOK
<1>3. PICK w \in Nat : Runs(w) BY <1>1 DEF EntryIInv
<1>4. /\ acts \in Seq(Contexts) /\ Top = Len(acts) /\ Top \in Nat \ {0} /\ acts[Top] \in Contexts
      /\ 2 * w < Top /\ w > 0 /\ leaked = 0 /\ acts[2 * w].kind = "program"
      /\ acts[2 * w + 1].kind # "resume" /\ kstack_base = Base(w, acts)
  BY <1>1, <1>3, TopIs DEF OnTop
<1>5. Standing(w, acts) /\ Waits(w, acts) BY <1>3 DEF Runs, Standing
<1> DEFINE s == Front(acts)
           x == [acts[Top] EXCEPT !.kind = "exit"]
<1>6. s \in Seq(Contexts) /\ Pushed(s, acts, acts[Top]) BY <1>1, <1>4, FrontPushed
<1>7. acts' \in Seq(Contexts) /\ Pushed(s, acts', x)
  <2>1. "exit" \in Kinds BY DEF Kinds
  <2> QED BY <1>1, <1>4, <2>1, TopChanged DEF WithTop, Top
<1>8. x.kind = "exit" /\ x \in Contexts BY <1>4 DEF Contexts, Kinds
<1> HIDE DEF s, x
<1>9. Len(s) \in Nat /\ Len(acts) = Len(s) + 1 /\ \A i \in 1 .. Len(s) : acts[i] = s[i]
  BY <1>6 DEF Pushed
<1>10. FitsOn(w, s, x)
  <2>1. s # <<>> /\ 2 * w \in 1 .. Len(s) BY <1>4, <1>9
  <2>2. s[2 * w].kind = "program" BY <1>4, <1>9, <2>1
  <2>3. 2 * w < Len(s) => s[2 * w + 1].kind # "resume" BY <1>4, <1>9
  <2> QED BY <1>4, <1>8, <2>1, <2>2, <2>3 DEF FitsOn
<1>11. Standing(w, s) BY <1>4, <1>5, <1>6, PopStands
<1>12. Standing(w, acts') BY <1>6, <1>7, <1>8, <1>10, <1>11, PushStands
<1>13. \A i \in 1 .. Len(acts) : acts[i].kind # "callback"
  <2> TAKE i \in 1 .. Len(acts)
  <2>1. CASE i <= 2 * w
    <3>1. i \in 1 .. 2 * w BY <2>1
    <3> QED BY <1>4, <1>5, <3>1, BelowIs
  <2>2. CASE i > 2 * w
    <3>1. Program = 2 * w BY <1>4, <1>5, ProgramIs DEF EntryIInv
    <3>2. i \in Program .. Top BY <1>4, <2>2, <3>1
    <3> QED BY <1>1, <3>2 DEF EndsProgram
  <2> QED BY <2>1, <2>2
<1>14. MouseRule(acts', mouse_in_callback')
  <2>1. MouseRule(s, mouse_in_callback')
    <3>1. \A i \in 1 .. Len(s) : s[i].kind # "callback" BY <1>9, <1>13
    <3> QED BY <3>1 DEF MouseRule
  <2> QED BY <1>6, <1>7, <1>8, <2>1, MousePushed
<1>15. NestRule(acts')
  <2>1. NestRule(s) BY <1>4, <1>6, Nested, NestPopped
  <2> QED BY <1>6, <1>7, <1>8, <2>1, NestPushed
<1>16. LeakRule(w, acts', leaked') BY <1>1, <1>4 DEF LeakRule
<1>17. indos_flag' = Count({"call"}, acts') + leaked' /\ indos_flag' \in Nat
  <2> DEFINE a == Count({"call"}, s)
             b == Count({"call"}, acts)
             e == Count({"call"}, acts')
  <2>1. b = a + 1 /\ a \in Nat BY <1>1, <1>4, <1>6, CallsPushed
  <2>2. e = a + 0 BY <1>6, <1>7, <1>8, CallsPushed
  <2>3. indos_flag = b + leaked BY DEF EntryIInv, CountsMatch
  <2> HIDE DEF a, b, e
  <2>4. indos_flag' = e + leaked' /\ indos_flag' \in Nat BY <1>1, <1>4, <2>1, <2>2, <2>3
  <2> QED BY <2>4 DEF e
<1>18. kstack_base' = Base(w, acts') /\ kstack_base' \in Nat
  <2>1. 2 * w <= Len(s) BY <1>4, <1>9
  <2>2. Base(w, acts') = Base(w, s) BY <1>6, <1>7, <2>1, SameBelow
  <2>3. Base(w, acts) = Base(w, s) BY <1>4, <1>6, <2>1, SameBelow
  <2> QED BY <1>1, <1>4, <2>2, <2>3, BaseIsNat
<1>19. EntryTypeOK' BY <1>1, <1>2, <1>4, <1>7, <1>17, <1>18 DEF EntryIInv, EntryTypeOK
<1> QED BY <1>1, <1>12, <1>14, <1>15, <1>16, <1>17, <1>18, <1>19, Together

LEMMA NoCallbackBelow ==
    ASSUME NEW w \in Nat, NEW s \in Seq(Contexts), Waits(w, s), Len(s) <= 2 * w, NEW m
    PROVE  MouseRule(s, m)
<1>1. \A i \in 1 .. Len(s) : i \in 1 .. 2 * w OBVIOUS
<1>2. \A i \in 1 .. Len(s) : s[i].kind # "callback" BY <1>1, BelowIs
<1> QED BY <1>2 DEF MouseRule

LEMMA Int20IsSafe == ASSUME EntryIInv, Int20 PROVE EntryIInv'
<1> DEFINE c == Context("exit", NoLevel)
<1>1. /\ wild = "no" /\ acts # <<>> /\ acts[Top].kind = "program" /\ acts' = Append(acts, c)
      /\ indos_flag' = indos_flag /\ kstack_base' = kstack_base /\ leaked' = leaked /\ wild' = wild
      /\ mouse_in_callback' = FALSE /\ mouse_callback' = FALSE
  BY DEF Int20, Innermost, MouseAtExit
<1>2. PICK w \in Nat : Runs(w) BY <1>1 DEF EntryIInv
<1>3. acts \in Seq(Contexts) /\ Top = Len(acts) /\ Top = 2 * w /\ w > 0 BY <1>1, <1>2, TopIs
<1>4. c \in Contexts /\ c.kind = "exit" BY DEF Context, Contexts, Kinds, NoLevel
<1> HIDE DEF c
<1>5. FitsOn(w, acts, c) BY <1>1, <1>3, <1>4 DEF FitsOn
<1>6. MouseRule(acts', mouse_in_callback')
  <2>1. Waits(w, acts) BY <1>2 DEF Runs, Standing
  <2>2. Len(acts) <= 2 * w BY <1>3
  <2>3. MouseRule(acts, mouse_in_callback') BY <1>3, <2>1, <2>2, NoCallbackBelow
  <2>4. acts' \in Seq(Contexts) /\ Pushed(acts, acts', c) BY <1>1, <1>3, <1>4, AppendPushes
  <2> QED BY <1>3, <1>4, <2>3, <2>4, MousePushed
<1>7. indos_flag' = indos_flag + IF c.kind = "call" THEN 1 ELSE 0
  <2>1. indos_flag \in Nat BY DEF EntryIInv, EntryTypeOK
  <2> QED BY <1>1, <1>4, <2>1
<1>8. mouse_in_callback' \in BOOLEAN /\ mouse_callback' \in BOOLEAN BY <1>1
<1>9. c.kind # "call" BY <1>4
<1> QED BY <1>1, <1>2, <1>4, <1>5, <1>6, <1>7, <1>8, <1>9, PushKeeps

(* The end of a program gives back what its start took. *)
LEMMA SwitchBackIsSafe == ASSUME EntryIInv, SwitchBack PROVE EntryIInv'
<1>1. /\ wild = "no" /\ acts # <<>> /\ acts[Top].kind = "exit"
      /\ kstack_base' = acts[Program].kbase
      /\ acts' = [SubSeq(acts, 1, Program - 1) EXCEPT ![Program - 1].kind = "resume"]
      /\ leaked' = leaked + Count({"call"}, SubSeq(acts, Program, Top))
      /\ indos_flag' = indos_flag /\ wild' = wild
      /\ mouse_in_callback' = mouse_in_callback /\ mouse_callback' = mouse_callback
  BY DEF SwitchBack, Innermost
<1>2. PICK w \in Nat : Runs(w) BY <1>1 DEF EntryIInv
<1>3. /\ acts \in Seq(Contexts) /\ Top = Len(acts) /\ Top \in Nat \ {0}
      /\ 2 * w < Top /\ w > 0
  BY <1>1, <1>2, TopIs DEF OnTop
<1>4. Standing(w, acts) /\ Waits(w, acts) BY <1>2 DEF Runs, Standing
<1>5. Program = 2 * w BY <1>3, <1>4, ProgramIs DEF EntryIInv
<1>6. kstack_base' = KERNEL_STACK_TOP + w - 1
  <2>1. w \in 1 .. w BY <1>3
  <2> QED BY <1>1, <1>4, <1>5, <2>1 DEF Waits
<1>7. acts' = [SubSeq(acts, 1, 2 * w - 1) EXCEPT ![2 * w - 1].kind = "resume"] BY <1>1, <1>5
<1>8. /\ acts' \in Seq(Contexts) /\ Len(acts') = 2 * w - 1
      /\ acts'[2 * w - 1].kind = "resume"
      /\ \A i \in 1 .. Len(acts') : acts'[i].kind \in {"exec", "program", "resume"}
      /\ Standing(w - 1, acts')
      /\ Base(w - 1, acts') = KERNEL_STACK_TOP + w - 1
  <2>1. LET t == [SubSeq(acts, 1, 2 * w - 1) EXCEPT ![2 * w - 1].kind = "resume"] IN
        /\ t \in Seq(Contexts) /\ Len(t) = 2 * w - 1
        /\ t[2 * w - 1].kind = "resume"
        /\ \A i \in 1 .. Len(t) : t[i].kind \in {"exec", "program", "resume"}
        /\ Standing(w - 1, t)
        /\ Base(w - 1, t) = KERNEL_STACK_TOP + w - 1
    BY <1>3, <1>4, BackStands
  <2> QED BY <1>7, <2>1
<1>9. MouseRule(acts', mouse_in_callback') BY <1>8 DEF MouseRule
<1>10. NestRule(acts') BY <1>8 DEF NestRule, IsCall
<1>11. LeakRule(w - 1, acts', leaked')
  <2>1. Len(acts') = 2 * w - 1 BY <1>8
  <2>2. 2 * (w - 1) < 2 * w - 1 /\ 2 * (w - 1) + 1 = 2 * w - 1 OBVIOUS
  <2> QED BY <1>8, <2>1, <2>2 DEF LeakRule
<1>12. indos_flag' = Count({"call"}, acts') + leaked' /\ leaked' \in Nat
  <2> DEFINE k == {"call"}
             a == Count(k, acts)
             b == Count(k, acts')
             d == Count(k, SubSeq(acts, 2 * w, Len(acts)))
  <2>1. \A i \in 1 .. Len(acts') : acts'[i].kind \notin k BY <1>8
  <2>2. indos_flag = a + leaked /\ leaked \in Nat /\ leaked' = leaked + d
    BY <1>1, <1>3, <1>5 DEF EntryIInv, CountsMatch, EntryTypeOK
  <2>3. \A i \in 1 .. 2 * w - 1 : acts[i].kind \notin k
    <3>1. \A i \in 1 .. 2 * w - 1 : i \in 1 .. 2 * w OBVIOUS
    <3> QED BY <1>3, <1>4, <3>1, BelowIs
  <2> HIDE DEF k
  <2>4. b = 0 BY <1>8, <2>1, CountNone
  <2>5. 2 * w \in 1 .. Len(acts) BY <1>3
  <2>6. d = a BY <1>3, <2>3, <2>5, CountAbove
  <2>7. a \in Nat BY <1>3, CountIsNat
  <2> HIDE DEF a, b, d
  <2>8. indos_flag' = b + leaked' /\ leaked' \in Nat BY <1>1, <2>2, <2>4, <2>6, <2>7
  <2> QED BY <2>8 DEF b, k
<1>13. kstack_base' = Base(w - 1, acts') BY <1>6, <1>8
<1>14. w - 1 \in Nat BY <1>3
<1>15. EntryTypeOK'
  <2>1. kstack_base' \in Nat BY <1>8, <1>13, <1>14, BaseIsNat
  <2> QED BY <1>1, <1>8, <1>12, <2>1 DEF EntryIInv, EntryTypeOK
<1> QED BY <1>1, <1>8, <1>9, <1>10, <1>11, <1>12, <1>13, <1>14, <1>15, Together

(* EXEC returns to its caller as well, when no call is left over. *)
LEMMA ExecReturnsIsSafe == ASSUME EntryIInv, ExecReturns PROVE EntryIInv'
<1>1. /\ wild = "no" /\ acts # <<>> /\ acts[Top].kind = "resume" /\ acts' = Front(acts)
      /\ wild' = IF Top = 1 THEN "no" ELSE Home(indos_flag + 1, acts[Top].level)
      /\ indos_flag' = indos_flag /\ kstack_base' = kstack_base /\ leaked' = leaked
      /\ mouse_in_callback' = mouse_in_callback /\ mouse_callback' = mouse_callback
  BY DEF ExecReturns, Innermost
<1>2. PICK w \in Nat : Runs(w) BY <1>1 DEF EntryIInv
<1>3. /\ acts \in Seq(Contexts) /\ Top = Len(acts) /\ Top \in Nat \ {0} /\ DOMAIN acts = 1 .. Top
      /\ 2 * w < Top /\ kstack_base = Base(w, acts) /\ leaked \in Nat
  BY <1>1, <1>2, TopIs DEF OnTop, EntryIInv, EntryTypeOK
<1>4. Standing(w, acts) /\ Waits(w, acts) /\ TopRule(w, acts) /\ MouseRule(acts, mouse_in_callback)
  BY <1>2 DEF Runs, Standing
<1>5. Top = 2 * w + 1 /\ acts[Top].level = KERNEL_STACK_TOP + w
  <2>1. Top \in 2 * w + 1 .. Len(acts) BY <1>3
  <2> QED BY <1>1, <1>4, <2>1 DEF TopRule
<1> DEFINE c == acts[Top]
<1>6. acts' \in Seq(Contexts) /\ Pushed(acts', acts, c) BY <1>1, <1>3, FrontPushed
<1> HIDE DEF c
<1>7. Len(acts') = 2 * w
  <2>1. Len(acts') \in Nat /\ Len(acts) = Len(acts') + 1 BY <1>6 DEF Pushed
  <2>2. Len(acts) = 2 * w + 1 BY <1>3, <1>5
  <2> QED BY <2>1, <2>2
<1>8. Standing(w, acts') BY <1>3, <1>4, <1>6, PopStands
<1>9. kstack_base' = Base(w, acts')
  <2>1. 2 * w <= Len(acts') BY <1>7
  <2> QED BY <1>1, <1>3, <1>6, <2>1, SameBelow
<1>10. MouseRule(acts', mouse_in_callback')
  <2>1. Waits(w, acts') /\ Len(acts') <= 2 * w BY <1>7, <1>8 DEF Standing
  <2> QED BY <1>6, <2>1, NoCallbackBelow
<1>11. NestRule(acts') BY <1>3, <1>6, Nested, NestPopped
<1>12. /\ indos_flag = leaked /\ indos_flag' = Count({"call"}, acts') + leaked'
  <2> DEFINE a == Count({"call"}, acts)
             b == Count({"call"}, acts')
  <2>1. c.kind # "call" BY <1>1 DEF c
  <2>2. a = b + 0 /\ b \in Nat BY <1>3, <1>6, <2>1, CallsPushed
  <2>3. b = 0
    <3>1. ~CallBelow(acts', Len(acts') + 1)
      <4>1. Waits(w, acts') BY <1>8 DEF Standing
      <4>2. Len(acts') + 1 \in Int /\ Len(acts') + 1 <= 2 * w + 1 BY <1>7
      <4> QED BY <1>6, <4>1, <4>2, NoCallsBelow
    <3> QED BY <1>6, <3>1, CallsBelow
  <2>4. indos_flag = a + leaked BY DEF EntryIInv, CountsMatch
  <2> HIDE DEF a, b
  <2>5. indos_flag = leaked /\ indos_flag' = b + leaked' BY <1>1, <1>3, <2>2, <2>3, <2>4
  <2> QED BY <2>5 DEF b
<1>13. wild' \in {"no", "astray"} BY <1>1 DEF Home
<1>14. EntryTypeOK' BY <1>1, <1>6, <1>13 DEF EntryIInv, EntryTypeOK
<1>15. CASE Top = 1
  <2>1. wild' = "no" BY <1>1, <1>15
  <2>2. acts' = <<>> BY <1>5, <1>6, <1>7, <1>15
  <2>3. LeakRule(w, acts', leaked') BY <2>2 DEF LeakRule
  <2> QED BY <1>8, <1>9, <1>10, <1>11, <1>12, <1>14, <2>1, <2>3, Together
<1>16. CASE Top # 1 /\ leaked = 0
  <2>1. w > 0 BY <1>5, <1>16
  <2>2. Program = 2 * w BY <1>4, <2>1, ProgramIs DEF EntryIInv
  <2>3. acts[Top].level # NoLevel BY <1>5 DEF KERNEL_STACK_TOP, NoLevel
  <2>4. OnKernelStack
    <3>1. Top \in DOMAIN acts /\ Top > Program BY <1>3, <2>2
    <3> QED BY <2>3, <3>1 DEF OnKernelStack
  <2>5. Restores(indos_flag + 1) = TRUE BY <1>12, <1>16, <2>4 DEF Restores
  <2>6. wild' = "no" BY <1>1, <1>16, <2>3, <2>5 DEF Home
  <2>7. LeakRule(w, acts', leaked') BY <1>1, <1>16 DEF LeakRule
  <2> QED BY <1>8, <1>9, <1>10, <1>11, <1>12, <1>14, <2>6, <2>7, Together
<1>17. CASE Top # 1 /\ leaked > 0
  <2>1. acts[Top].level # NoLevel BY <1>5 DEF KERNEL_STACK_TOP, NoLevel
  <2>2. indos_flag + 1 # 1 BY <1>3, <1>12, <1>17
  <2>3. Restores(indos_flag + 1) = FALSE BY <2>2 DEF Restores
  <2>4. wild' = "astray" BY <1>1, <1>17, <2>1, <2>3 DEF Home
  <2>5. CallsComeHome' BY <1>1, <1>17, <2>4 DEF CallsComeHome
  <2>6. OnlyHandlersNest'
    <3>1. DOMAIN acts' = 1 .. Len(acts') BY <1>6
    <3> QED BY <1>11, <3>1 DEF OnlyHandlersNest, NestRule, IsCall
  <2>7. CountsMatch'
    <3>1. KERNEL_STACK_TOP + Count({"program"}, acts') = Base(w, acts')
      BY <1>6, <1>8, DepthIs DEF Standing
    <3> QED BY <1>9, <1>12, <3>1 DEF CountsMatch, Depth
  <2> QED BY <1>14, <2>4, <2>5, <2>6, <2>7 DEF EntryIInv
<1> QED BY <1>3, <1>15, <1>16, <1>17

-----------------------------------------------------------------------------
(* Handlers, interrupts and the mouse *)

LEMMA HandleIsSafe == ASSUME EntryIInv, Handle PROVE EntryIInv'
<1> DEFINE c == Context("handler", NoLevel)
<1>1. /\ wild = "no" /\ acts # <<>> /\ acts[Top].kind \in {"call", "exit"} /\ acts' = Append(acts, c)
      /\ indos_flag' = indos_flag /\ kstack_base' = kstack_base /\ leaked' = leaked /\ wild' = wild
      /\ mouse_in_callback' = mouse_in_callback /\ mouse_callback' = mouse_callback
  BY DEF Handle, Innermost
<1>2. PICK w \in Nat : Runs(w) BY <1>1 DEF EntryIInv
<1>3. /\ acts \in Seq(Contexts) /\ Top = Len(acts) /\ w > 0 /\ acts[2 * w].kind = "program"
      /\ acts[2 * w + 1].kind # "resume"
  BY <1>1, <1>2, TopIs
<1>4. c \in Contexts /\ c.kind = "handler" /\ c.level = NoLevel
  BY DEF Context, Contexts, Kinds, NoLevel
<1> HIDE DEF c
<1>5. FitsOn(w, acts, c) BY <1>1, <1>3, <1>4 DEF FitsOn
<1>6. MouseRule(acts', mouse_in_callback')
  <2>1. acts' \in Seq(Contexts) /\ Pushed(acts, acts', c) BY <1>1, <1>3, <1>4, AppendPushes
  <2>2. MouseRule(acts, mouse_in_callback) BY <1>2 DEF Runs
  <2> QED BY <1>1, <1>3, <1>4, <2>1, <2>2, MousePushed
<1>7. indos_flag' = indos_flag + IF c.kind = "call" THEN 1 ELSE 0
  <2>1. indos_flag \in Nat BY DEF EntryIInv, EntryTypeOK
  <2> QED BY <1>1, <1>4, <2>1
<1>8. mouse_in_callback' \in BOOLEAN /\ mouse_callback' \in BOOLEAN BY <1>1 DEF EntryIInv, EntryTypeOK
<1>9. c.kind # "call" BY <1>4
<1> QED BY <1>1, <1>2, <1>4, <1>5, <1>6, <1>7, <1>8, <1>9, PushKeeps

LEMMA InterruptIsSafe == ASSUME EntryIInv, Interrupt PROVE EntryIInv'
<1> DEFINE c == Context("isr", NoLevel)
<1>1. /\ wild = "no" /\ acts # <<>> /\ acts' = Append(acts, c)
      /\ indos_flag' = indos_flag /\ kstack_base' = kstack_base /\ leaked' = leaked /\ wild' = wild
      /\ mouse_in_callback' = mouse_in_callback /\ mouse_callback' = mouse_callback
  BY DEF Interrupt
<1>2. PICK w \in Nat : Runs(w) BY <1>1 DEF EntryIInv
<1>3. acts \in Seq(Contexts) BY DEF EntryIInv, EntryTypeOK
<1>4. c \in Contexts /\ c.kind = "isr" /\ c.level = NoLevel
  BY DEF Context, Contexts, Kinds, NoLevel
<1> HIDE DEF c
<1>5. FitsOn(w, acts, c) BY <1>1, <1>4 DEF FitsOn
<1>6. MouseRule(acts', mouse_in_callback')
  <2>1. acts' \in Seq(Contexts) /\ Pushed(acts, acts', c) BY <1>1, <1>3, <1>4, AppendPushes
  <2>2. MouseRule(acts, mouse_in_callback) BY <1>2 DEF Runs
  <2> QED BY <1>1, <1>3, <1>4, <2>1, <2>2, MousePushed
<1>7. indos_flag' = indos_flag + IF c.kind = "call" THEN 1 ELSE 0
  <2>1. indos_flag \in Nat BY DEF EntryIInv, EntryTypeOK
  <2> QED BY <1>1, <1>4, <2>1
<1>8. mouse_in_callback' \in BOOLEAN /\ mouse_callback' \in BOOLEAN BY <1>1 DEF EntryIInv, EntryTypeOK
<1>9. c.kind # "call" BY <1>4
<1> QED BY <1>1, <1>2, <1>4, <1>5, <1>6, <1>7, <1>8, <1>9, PushKeeps

LEMMA InvokeCallbackIsSafe == ASSUME EntryIInv, InvokeCallback PROVE EntryIInv'
<1> DEFINE c == Context("callback", NoLevel)
<1>1. /\ wild = "no" /\ acts # <<>> /\ acts' = Append(acts, c) /\ ~mouse_in_callback
      /\ indos_flag' = indos_flag /\ kstack_base' = kstack_base /\ leaked' = leaked /\ wild' = wild
      /\ mouse_in_callback' = TRUE /\ mouse_callback' = mouse_callback
  BY DEF InvokeCallback
<1>2. PICK w \in Nat : Runs(w) BY <1>1 DEF EntryIInv
<1>3. acts \in Seq(Contexts) BY DEF EntryIInv, EntryTypeOK
<1>4. c \in Contexts /\ c.kind = "callback" /\ c.level = NoLevel
  BY DEF Context, Contexts, Kinds, NoLevel
<1> HIDE DEF c
<1>5. FitsOn(w, acts, c) BY <1>1, <1>4 DEF FitsOn
<1>6. MouseRule(acts', mouse_in_callback')
  <2>1. acts' \in Seq(Contexts) /\ Pushed(acts, acts', c) BY <1>1, <1>3, <1>4, AppendPushes
  <2>2. \A i \in 1 .. Len(acts) : acts[i].kind # "callback" BY <1>1, <1>2 DEF Runs, MouseRule
  <2>3. \A i \in 1 .. Len(acts') : acts'[i].kind = "callback" => i = Len(acts')
    <3> TAKE i \in 1 .. Len(acts')
    <3>1. i # Len(acts') => i \in 1 .. Len(acts) /\ acts'[i] = acts[i] BY <1>3, <2>1 DEF Pushed
    <3> QED BY <2>2, <3>1
  <2> QED BY <1>1, <2>3 DEF MouseRule
<1>7. indos_flag' = indos_flag + IF c.kind = "call" THEN 1 ELSE 0
  <2>1. indos_flag \in Nat BY DEF EntryIInv, EntryTypeOK
  <2> QED BY <1>1, <1>4, <2>1
<1>8. mouse_in_callback' \in BOOLEAN /\ mouse_callback' \in BOOLEAN BY <1>1 DEF EntryIInv, EntryTypeOK
<1>9. c.kind # "call" BY <1>4
<1> QED BY <1>1, <1>2, <1>4, <1>5, <1>6, <1>7, <1>8, <1>9, PushKeeps

(* Whatever returns without a call of DOS to leave. *)
LEMMA GoesIsSafe ==
    ASSUME EntryIInv, wild = "no", wild' = wild, acts # <<>>,
           acts[Top].kind \in {"handler", "isr", "callback"}, acts' = Front(acts),
           indos_flag' = indos_flag, kstack_base' = kstack_base, leaked' = leaked,
           mouse_in_callback' \in BOOLEAN, mouse_callback' \in BOOLEAN,
           mouse_in_callback' = mouse_in_callback \/ acts[Top].kind = "callback"
    PROVE  EntryIInv'
<1>1. PICK w \in Nat : Runs(w) BY DEF EntryIInv
<1>2. Top = Len(acts) BY DEF Top
<1>3. acts[Len(acts)].kind \in OnTop \ {"resume"} /\ acts[Len(acts)].kind # "call"
  BY <1>2 DEF OnTop
<1>4. indos_flag' = indos_flag - IF acts[Len(acts)].kind = "call" THEN 1 ELSE 0
  <2>1. indos_flag \in Nat BY DEF EntryIInv, EntryTypeOK
  <2> QED BY <1>3, <2>1
<1>5. mouse_in_callback' = mouse_in_callback \/ acts[Len(acts)].kind = "callback" BY <1>2
<1>6. wild' = "no" OBVIOUS
<1> QED BY <1>1, <1>3, <1>4, <1>5, <1>6, PopKeeps

LEMMA ReturnsAreSafe ==
    ASSUME EntryIInv, HandlerReturns \/ InterruptReturns \/ CallbackReturns
    PROVE  EntryIInv'
<1>1. mouse_in_callback \in BOOLEAN /\ mouse_callback \in BOOLEAN BY DEF EntryIInv, EntryTypeOK
<1>2. CASE HandlerReturns BY <1>1, <1>2, GoesIsSafe DEF HandlerReturns, Innermost
<1>3. CASE InterruptReturns BY <1>1, <1>3, GoesIsSafe DEF InterruptReturns, Innermost
<1>4. CASE CallbackReturns BY <1>1, <1>4, GoesIsSafe DEF CallbackReturns, Innermost
<1> QED BY <1>2, <1>3, <1>4

LEMMA SetCallbackIsSafe == ASSUME EntryIInv, NEW installed \in BOOLEAN, SetCallback(installed) PROVE EntryIInv'
<1>1. /\ wild = "no" /\ acts # <<>> /\ acts[Top].kind = "program" /\ acts' = acts
      /\ indos_flag' = indos_flag /\ kstack_base' = kstack_base /\ leaked' = leaked /\ wild' = wild
  BY DEF SetCallback, Innermost
<1>2. mouse_in_callback' \in BOOLEAN /\ mouse_callback' \in BOOLEAN
  BY DEF SetCallback, EntryIInv, EntryTypeOK
<1>3. PICK w \in Nat : Runs(w) BY <1>1 DEF EntryIInv
<1>4. /\ acts \in Seq(Contexts) /\ Top = Len(acts) /\ Top = 2 * w
      /\ kstack_base = Base(w, acts)
  BY <1>1, <1>3, TopIs
<1>5. Standing(w, acts) /\ Waits(w, acts) /\ LeakRule(w, acts, leaked) BY <1>3 DEF Runs, Standing
<1>6. MouseRule(acts, mouse_in_callback')
  <2>1. Len(acts) <= 2 * w BY <1>4
  <2> QED BY <1>4, <1>5, <2>1, NoCallbackBelow
<1>7. NestRule(acts) BY Nested
<1>8. indos_flag = Count({"call"}, acts) + leaked BY DEF EntryIInv, CountsMatch
<1>9. EntryTypeOK' BY <1>1, <1>2 DEF EntryIInv, EntryTypeOK
<1> QED BY <1>1, <1>4, <1>5, <1>6, <1>7, <1>8, <1>9, Together

-----------------------------------------------------------------------------
LEMMA InitIsSafe == EntryInit => EntryIInv
<1> SUFFICES ASSUME EntryInit PROVE EntryIInv OBVIOUS
<1> DEFINE x == Context("exec", KERNEL_STACK_TOP)
           c == Child("program", KERNEL_STACK_TOP)
<1>1. /\ indos_flag = 0 /\ kstack_base = KERNEL_STACK_TOP + 1 /\ leaked = 0 /\ wild = "no"
      /\ mouse_in_callback = FALSE /\ mouse_callback = FALSE /\ acts = <<x, c>>
  BY DEF EntryInit
<1>2. /\ x \in Contexts /\ x.kind = "exec" /\ x.level = 1
      /\ c \in Contexts /\ c.kind = "program" /\ c.level = NoLevel /\ c.kbase = 1
  BY DEF Context, Child, Contexts, Kinds, NoLevel, KERNEL_STACK_TOP
<1> HIDE DEF x, c
<1>3. acts \in Seq(Contexts) /\ Len(acts) = 2 /\ acts[1] = x /\ acts[2] = c BY <1>1, <1>2
<1>4. Waits(1, acts)
  <2>1. ASSUME NEW i \in 1 .. 1
        PROVE  /\ acts[2 * i - 1].kind = "exec" /\ acts[2 * i - 1].level = KERNEL_STACK_TOP + i - 1
               /\ acts[2 * i].level = NoLevel /\ acts[2 * i].kbase = KERNEL_STACK_TOP + i - 1
               /\ acts[2 * i].kind = "program" \/ (i = 1 /\ acts[2 * i].kind = "launch")
    <3>1. 2 * i - 1 = 1 /\ 2 * i = 2 /\ KERNEL_STACK_TOP + i - 1 = 1 BY DEF KERNEL_STACK_TOP
    <3> QED BY <1>2, <1>3, <3>1
  <2>2. 2 * 1 <= Len(acts) BY <1>3
  <2> QED BY <2>1, <2>2 DEF Waits
<1>5. Standing(1, acts)
  <2>1. TopRule(1, acts) BY <1>3 DEF TopRule
  <2>2. Bottom(1, acts) BY DEF Bottom
  <2> QED BY <1>4, <2>1, <2>2 DEF Standing
<1>6. \A i \in 1 .. Len(acts) : acts[i].kind \notin {"call", "callback"} BY <1>2, <1>3
<1>7. Runs(1) BY <1>1, <1>5, <1>6 DEF Runs, MouseRule, LeakRule
<1>8. CountsMatch
  <2>1. ~CallBelow(acts, Len(acts) + 1) BY <1>3, <1>6 DEF CallBelow, IsCall
  <2>2. Count({"call"}, acts) = 0 BY <1>3, <2>1, CallsBelow
  <2>3. Base(1, acts) = KERNEL_STACK_TOP + 1 BY <1>2, <1>3 DEF Base, Launching
  <2>4. 1 \in Nat /\ TopRule(1, acts) BY <1>5 DEF Standing
  <2>5. KERNEL_STACK_TOP + Count({"program"}, acts) = KERNEL_STACK_TOP + 1
    BY <1>3, <1>4, <2>3, <2>4, DepthIs
  <2>6. indos_flag = Count({"call"}, acts) + leaked BY <1>1, <2>2
  <2> QED BY <1>1, <2>5, <2>6 DEF CountsMatch, Depth
<1>9. OnlyHandlersNest BY <1>3, <1>6 DEF OnlyHandlersNest
<1>10. CallsComeHome BY <1>1 DEF CallsComeHome
<1>11. EntryTypeOK
  <2>1. indos_flag \in Nat /\ kstack_base \in Nat /\ leaked \in Nat BY <1>1 DEF KERNEL_STACK_TOP
  <2>2. mouse_in_callback \in BOOLEAN /\ mouse_callback \in BOOLEAN BY <1>1
  <2>3. wild \in {"no", "overrun", "astray"} BY <1>1
  <2> QED BY <1>3, <2>1, <2>2, <2>3 DEF EntryTypeOK
<1> QED BY <1>7, <1>8, <1>9, <1>10, <1>11 DEF EntryIInv

LEMMA StepIsSafe == EntryIInv /\ [EntryNext]_entryVars => EntryIInv'
<1> SUFFICES ASSUME EntryIInv, [EntryNext]_entryVars PROVE EntryIInv' OBVIOUS
<1>1. CASE Call BY <1>1, CallIsSafe
<1>2. CASE Return BY <1>2, ReturnIsSafe
<1>3. CASE Launch BY <1>3, LaunchIsSafe
<1>4. CASE Start BY <1>4, StartIsSafe
<1>5. CASE Int20 BY <1>5, Int20IsSafe
<1>6. CASE SwitchBack BY <1>6, SwitchBackIsSafe
<1>7. CASE ExecReturns BY <1>7, ExecReturnsIsSafe
<1>8. CASE \E stays \in BOOLEAN : Exit(stays) BY <1>8, ExitIsSafe
<1>9. CASE Handle BY <1>9, HandleIsSafe
<1>10. CASE HandlerReturns \/ InterruptReturns \/ CallbackReturns BY <1>10, ReturnsAreSafe
<1>11. CASE Interrupt BY <1>11, InterruptIsSafe
<1>12. CASE PolitelyCalls BY <1>12, PolitelyCallsIsSafe
<1>13. CASE \E installed \in BOOLEAN : SetCallback(installed) BY <1>13, SetCallbackIsSafe
<1>14. CASE InvokeCallback BY <1>14, InvokeCallbackIsSafe
<1>15. CASE CallbackCalls BY <1>15, CallbackCallsIsSafe
<1>16. CASE UNCHANGED entryVars BY <1>16, StutterIsSafe
<1> QED BY <1>1, <1>2, <1>3, <1>4, <1>5, <1>6, <1>7, <1>8, <1>9, <1>10, <1>11, <1>12, <1>13,
           <1>14, <1>15, <1>16 DEF EntryNext

LEMMA Safe == EntrySpec => []EntryIInv
BY InitIsSafe, StepIsSafe, PTL DEF EntrySpec

(* The contexts are always a sequence of contexts, and the counters never  *)
(* go below zero: no return or exit undoes what no entry did.              *)
THEOREM EntryTypeCorrect == EntrySpec => []EntryTypeOK
<1>1. EntryIInv => EntryTypeOK BY DEF EntryIInv
<1> QED BY <1>1, Safe, PTL

(* InDOS is the number of calls in progress and of those that exits have   *)
(* abandoned, and the kernel's stack is as deep as the programs, for any   *)
(* number of programs, handlers, callbacks and interrupts.                 *)
THEOREM CountsAlwaysMatch == EntrySpec => []CountsMatch
<1>1. EntryIInv => CountsMatch BY DEF EntryIInv
<1> QED BY <1>1, Safe, PTL

(* Of two calls in progress, the inner one was made by the handler that    *)
(* the outer one has called.                                               *)
THEOREM OnlyHandlersEverNest == EntrySpec => []OnlyHandlersNest
<1>1. EntryIInv => OnlyHandlersNest BY DEF EntryIInv
<1> QED BY <1>1, Safe, PTL

(* Every INT 21h, and every EXEC, comes back to its caller, and overwrites *)
(* no frame, except in the two cases that CallsComeHome names.             *)
THEOREM CallsAlwaysComeHome == EntrySpec => []CallsComeHome
<1>1. EntryIInv => CallsComeHome BY DEF EntryIInv
<1> QED BY <1>1, Safe, PTL
=============================================================================
