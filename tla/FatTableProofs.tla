--------------------------- MODULE FatTableProofs ---------------------------
(***************************************************************************)
(* What the routines of FatTable do to a table, whichever transfers fail,  *)
(* for any number of clusters, copies and entries in a sector: the lemmas  *)
(* that FatVolumeProofs and DirectoriesProofs are built on.                *)
(***************************************************************************)
EXTENDS FatTable, FiniteSetTheorems, WellFoundedInduction, TLAPS

(* The bounds of the constants. *)
LEMMA TableConstants ==
  /\ kmax_cluster \in Nat /\ kmax_cluster > 2
  /\ EntriesPerSector \in Nat /\ EntriesPerSector > 0
  /\ knum_fats \in Nat /\ knum_fats > 0 /\ 1 \in 1 .. knum_fats
BY FatAssumption

(* Clusters are numbers that are neither the free mark nor the end mark. *)
LEMMA ClustersAre ==
  /\ \A c \in Clusters : c \in Nat /\ c # 0 /\ c >= 2 /\ c < kmax_cluster /\ c # FREE /\ c # EOC
                         /\ c \in Entry
  /\ FREE \in Entry /\ EOC \in Entry /\ FREE \notin Clusters /\ EOC \notin Clusters /\ FREE # EOC
  /\ 2 \in Clusters /\ FREE = 0 /\ EOC \in Nat /\ \A e \in Entry : e \in Nat
  /\ \A e \in Entry : e \in Clusters \/ e = FREE \/ e = EOC
BY TableConstants DEF Clusters, Entry, FREE, EOC

-----------------------------------------------------------------------------
(* What a loop computes *)

(* What holds before the first turn, and after a turn when before it. *)
LEMMA Upwards ==
  ASSUME NEW a \in Nat, NEW n \in Nat, NEW I, a \in I,
         \A k \in a + 1 .. n : k - 1 \in I => k \in I
  PROVE  \A k \in a .. n : k \in I
<1> SUFFICES ASSUME NEW k \in a .. n, k \notin I PROVE FALSE
  OBVIOUS
<1> DEFINE S == {m \in a .. n : m \notin I}
           R == {ss \in Nat \X Nat : ss[1] < ss[2]}
<1>1. IsWellFoundedOn(R, Nat)
  BY NatLessThanWellFounded DEF OpToRel
<1>2. S \subseteq Nat /\ S # {}
  OBVIOUS
<1> HIDE DEF R
<1>3. PICK m \in S : \A i \in S : ~(<<i, m>> \in R)
  BY <1>1, <1>2, WFMin
<1>4. m \in a .. n /\ m \notin I /\ m # a
  OBVIOUS
<1>5. m \in a + 1 .. n /\ m - 1 \in a .. n /\ m - 1 \in Nat /\ m \in Nat /\ m - 1 < m
  BY <1>4
<1>6. m - 1 \in S
  BY <1>4, <1>5
<1>7. <<m - 1, m>> \in R
  BY <1>5 DEF R
<1> QED BY <1>3, <1>6, <1>7

(* A loop from b that does S[<<x, k>>] in turn k, x being what it has, has *)
(* something to say for every turn, and keeps what each turn keeps: X is   *)
(* the set of turns and what may hold after them.                          *)
Turns(g, X, a, n, b, S) ==
    /\ g = [k \in a .. n |-> g[k]] /\ g[a] = b
    /\ \A k \in a + 1 .. n : g[k] = S[<<g[k - 1], k>>]
    /\ \A k \in a .. n : <<k, g[k]>> \in X

(* A loop whose turns keep its values in a set has values for all turns. *)
LEMMA TurnsExist ==
  ASSUME NEW X, NEW a \in Nat, NEW n \in Nat, NEW b, NEW S, a <= n, <<a, b>> \in X,
         \A k \in a + 1 .. n : \A x : <<k - 1, x>> \in X => <<k, S[<<x, k>>]>> \in X
  PROVE  \E g : Turns(g, X, a, n, b, S)
<1> DEFINE I == {m \in Nat : \E g : Turns(g, X, a, m, b, S)}
<1>1. a \in I
  <2> DEFINE g == [k \in a .. a |-> b]
  <2>1. g = [k \in a .. a |-> g[k]] /\ g[a] = b /\ a + 1 .. a = {} /\ a .. a = {a}
    OBVIOUS
  <2>2. Turns(g, X, a, a, b, S)
    BY <2>1 DEF Turns
  <2> QED BY <2>2
<1>2. ASSUME NEW m \in a + 1 .. n, m - 1 \in I PROVE m \in I
  <2>1. PICK g : Turns(g, X, a, m - 1, b, S)
    BY <1>2
  <2>2. m \in Nat /\ m - 1 \in Nat /\ m - 1 \in a .. m - 1
    OBVIOUS
  <2>3. <<m - 1, g[m - 1]>> \in X
    BY <2>1, <2>2 DEF Turns
  <2> DEFINE f == [k \in a .. m |-> IF k = m THEN S[<<g[m - 1], m>>] ELSE g[k]]
  <2>4. /\ f[m] = S[<<g[m - 1], m>>] /\ f = [k \in a .. m |-> f[k]]
        /\ \A k \in a .. m - 1 : k \in a .. m /\ k # m /\ f[k] = g[k]
    BY <2>2
  <2> HIDE DEF f
  <2>5. a \in a .. m - 1 /\ f[a] = b
    <3>1. a \in a .. m - 1
      OBVIOUS
    <3> QED BY <2>1, <2>4, <3>1 DEF Turns
  <2>6. ASSUME NEW k \in a + 1 .. m PROVE f[k] = S[<<f[k - 1], k>>]
    <3>1. k - 1 \in a .. m - 1
      BY <2>2
    <3>2. CASE k = m
      BY <2>4, <3>1, <3>2
    <3>3. CASE k # m
      <4>1. k \in a + 1 .. m - 1 /\ k \in a .. m - 1
        BY <2>2, <3>3
      <4>2. g[k] = S[<<g[k - 1], k>>]
        BY <2>1, <4>1 DEF Turns
      <4> QED BY <2>4, <3>1, <4>1, <4>2
    <3> QED BY <3>2, <3>3
  <2>7. <<m, f[m]>> \in X
    BY <2>3, <2>4
  <2>8. ASSUME NEW k \in a .. m PROVE <<k, f[k]>> \in X
    <3>1. k # m => k \in a .. m - 1
      BY <2>2
    <3>2. k # m => <<k, g[k]>> \in X
      BY <2>1, <3>1 DEF Turns
    <3> QED BY <2>4, <2>7, <3>1, <3>2
  <2>9. Turns(f, X, a, m, b, S)
    BY <2>4, <2>5, <2>6, <2>8 DEF Turns
  <2> QED BY <2>2, <2>9
<1> HIDE DEF I
<1>3. \A k \in a .. n : k \in I
  BY <1>1, <1>2, Upwards
<1> QED BY <1>3 DEF I

-----------------------------------------------------------------------------
(* The window *)

(* The copies of the table agree wherever the window holds nothing newer,  *)
(* and a clean window is what they hold.                                   *)
Loaded(t) == IF t.sector = NoSector THEN {} ELSE InSector(t.sector)
Mirrored(t) ==
    \A c \in Clusters, i \in 1 .. knum_fats :
        t.copies[i][c] = t.copies[1][c] \/ (t.dirty /\ c \in Loaded(t))
Sound(t) ==
    /\ DOMAIN t.window = Loaded(t)
    /\ Mirrored(t)
    /\ ~t.dirty => \A c \in Loaded(t) : t.window[c] = t.copies[1][c]
Tables == {t \in Table : Sound(t)}

Copies == [1 .. knum_fats -> [Clusters -> Entry]]
Windows == (UNION {[InSector(s) -> Entry] : s \in FatSectors}) \cup {<<>>}

(* The types of a table's parts. *)
LEMMA TableHas ==
  ASSUME NEW t \in Tables
  PROVE  /\ t \in Table /\ Sound(t) /\ Mirrored(t)
         /\ t.copies \in Copies /\ t.sector \in FatSectors \cup {NoSector} /\ t.window \in Windows
         /\ t.dirty \in BOOLEAN /\ t.ioerr \in BOOLEAN /\ t.hint \in Clusters
         /\ t.ax \in Entry /\ t.cf \in BOOLEAN /\ t.ios \in Nat /\ t.fails \in SUBSET Nat
         /\ DOMAIN t.window = Loaded(t) /\ Loaded(t) \subseteq Clusters
         /\ \A c \in Loaded(t) : t.window[c] \in Entry
         /\ \A i \in 1 .. knum_fats, c \in Clusters : t.copies[i][c] \in Entry
<1>1. t \in Table /\ Sound(t) /\ Mirrored(t) /\ DOMAIN t.window = Loaded(t)
  BY DEF Tables, Sound
<1>2. /\ t.copies \in Copies /\ t.sector \in FatSectors \cup {NoSector} /\ t.window \in Windows
      /\ t.dirty \in BOOLEAN /\ t.ioerr \in BOOLEAN /\ t.hint \in Clusters
      /\ t.ax \in Entry /\ t.cf \in BOOLEAN /\ t.ios \in Nat /\ t.fails \in SUBSET Nat
  BY <1>1 DEF Table, Copies, Windows
<1>3. Loaded(t) \subseteq Clusters
  BY DEF Loaded, InSector
<1>4. \A c \in DOMAIN t.window : t.window[c] \in Entry
  <2>1. CASE t.window = <<>>
    BY <2>1
  <2>2. CASE t.window # <<>>
    <3>1. t.window \in UNION {[InSector(s) -> Entry] : s \in FatSectors}
      BY <1>2, <2>2 DEF Windows
    <3>2. PICK W \in {[InSector(s) -> Entry] : s \in FatSectors} : t.window \in W
      BY <3>1
    <3>3. PICK s \in FatSectors : t.window \in [InSector(s) -> Entry]
      BY <3>2
    <3> QED BY <3>3
  <2> QED BY <2>1, <2>2
<1>5. \A i \in 1 .. knum_fats, c \in Clusters : t.copies[i][c] \in Entry
  BY <1>2 DEF Copies
<1> QED BY <1>1, <1>2, <1>3, <1>4, <1>5

(* A sound table is one of the tables. *)
LEMMA TableOf == \A t \in Table : Sound(t) => t \in Tables
BY DEF Tables

(* An entry reads as the window shows it, or as the first copy has it. *)
LEMMA ViewIs ==
  ASSUME NEW t
  PROVE  /\ View(t) = [c \in Clusters |-> View(t)[c]]
         /\ \A c \in Clusters : View(t)[c] = IF c \in DOMAIN t.window THEN t.window[c]
                                              ELSE t.copies[1][c]
BY DEF View

(* Every entry reads as one. *)
LEMMA ViewTypes == ASSUME NEW t \in Tables PROVE View(t) \in [Clusters -> Entry]
BY TableHas, TableConstants DEF View

(* What a change of the registers and the counters leaves alone. *)
SameTable(t, u) ==
    /\ u.copies = t.copies /\ u.sector = t.sector /\ u.window = t.window
    /\ u.dirty = t.dirty /\ u.hint = t.hint

(* Registers do not matter to what a table holds. *)
LEMMA SameIsSound ==
  ASSUME NEW t, NEW u, SameTable(t, u)
  PROVE  /\ Sound(u) <=> Sound(t)
         /\ View(u) = View(t) /\ Loaded(u) = Loaded(t)
<1>1. Loaded(u) = Loaded(t) /\ View(u) = View(t)
  BY DEF SameTable, Loaded, View
<1> QED BY <1>1, Zenon DEF SameTable, Sound, Mirrored

(* A transfer has failed in the call. *)
Broken(t) == \E n \in 1 .. t.ios : n \in t.fails

(* What becomes of the rest of a table from t to u: transfers and errors   *)
(* are not forgotten, and the first copy is as it was, or as t is seen.    *)
Onwards(t, u) ==
    /\ u.ios >= t.ios /\ u.fails = t.fails
    /\ t.ioerr => u.ioerr
    /\ u.copies[1] \in {t.copies[1], View(t)}

(* A transfer that has failed in a call has failed for the rest of it. *)
LEMMA BrokenStays ==
  ASSUME NEW t \in Tables, NEW u \in Tables, Onwards(t, u), Broken(t)
  PROVE  Broken(u)
<1>1. PICK n \in 1 .. t.ios : n \in t.fails
  BY DEF Broken
<1>2. n \in 1 .. u.ios
  BY TableHas DEF Onwards
<1> QED BY <1>1, <1>2 DEF Broken, Onwards

(* A transfer that fails breaks the call. *)
LEMMA FailsBreak ==
  ASSUME NEW t \in Tables, NEW u, u.ios = t.ios + 1, u.fails = t.fails, u.ios \in u.fails
  PROVE  Broken(u)
<1>1. u.ios \in 1 .. u.ios
  BY TableHas
<1> QED BY <1>1 DEF Broken

Registers(t, a, f, i, e, F) ==
    [t EXCEPT !.ax = a, !.cf = f, !.ios = i, !.ioerr = e, !.fails = F]

(* Other registers leave the table's contents. *)
LEMMA RegistersKeep ==
  ASSUME NEW t \in Tables, NEW a \in Entry, NEW f \in BOOLEAN, NEW i \in Nat, NEW e \in BOOLEAN,
         NEW F \in SUBSET Nat, NEW u, u = Registers(t, a, f, i, e, F)
  PROVE  /\ u \in Tables /\ SameTable(t, u) /\ View(u) = View(t)
         /\ u.ax = a /\ u.cf = f /\ u.ios = i /\ u.ioerr = e /\ u.fails = F
<1>0. t \in Table
  BY TableHas
<1>1. /\ u \in Table /\ SameTable(t, u)
      /\ u.ax = a /\ u.cf = f /\ u.ios = i /\ u.ioerr = e /\ u.fails = F
  <2>1. u.ax = a /\ u.cf = f /\ u.ios = i /\ u.ioerr = e /\ u.fails = F
    BY <1>0 DEF Table, Registers
  <2>2. SameTable(t, u)
    BY <1>0 DEF Table, SameTable, Registers
  <2>3. u \in Table
    BY <1>0 DEF Table, Registers
  <2> QED BY <2>1, <2>2, <2>3
<1>2. Sound(u) /\ View(u) = View(t)
  BY <1>1, TableHas, SameIsSound
<1>3. u \in Tables
  BY <1>1, <1>2, TableOf
<1> QED BY <1>1, <1>2, <1>3

(* A transfer is counted, and fails as the call's failures say. *)
LEMMA IoIs ==
  ASSUME NEW t \in Tables
  PROVE  /\ Io(t) \in Tables /\ SameTable(t, Io(t)) /\ View(Io(t)) = View(t)
         /\ Io(t).ioerr = t.ioerr /\ Io(t).fails = t.fails /\ Io(t).ax = t.ax
         /\ Io(t).ios = t.ios + 1 /\ Io(t).cf \in BOOLEAN
         /\ Io(t).cf => Broken(Io(t))
         /\ t.fails = {} => ~Io(t).cf
<1>1. PICK n \in Nat : n = t.ios + 1
  BY TableHas
<1>2. PICK f \in BOOLEAN : f <=> (t.ios + 1) \in t.fails
  <2>1. CASE (t.ios + 1) \in t.fails
    <3>1. TRUE <=> (t.ios + 1) \in t.fails
      BY <2>1
    <3> QED BY <3>1
  <2>2. CASE (t.ios + 1) \notin t.fails
    <3>1. FALSE <=> (t.ios + 1) \in t.fails
      BY <2>2
    <3> QED BY <3>1
  <2> QED BY <2>1, <2>2
<1>3. PICK u : u = Registers(t, t.ax, f, n, t.ioerr, t.fails)
  OBVIOUS
<1>4. Io(t) = u
  <2>1. Io(t) = [t EXCEPT !.ios = n, !.cf = f]
    BY <1>1, <1>2 DEF Io
  <2>2. t \in Table
    BY TableHas
  <2> QED BY <1>3, <2>1, <2>2 DEF Table, Registers
<1>5. /\ t.ax \in Entry /\ t.ioerr \in BOOLEAN /\ t.fails \in SUBSET Nat
  BY TableHas
<1>7. /\ u \in Tables /\ SameTable(t, u) /\ View(u) = View(t)
      /\ u.ax = t.ax /\ u.cf = f /\ u.ioerr = t.ioerr /\ u.fails = t.fails /\ u.ios = n
  BY <1>1, <1>2, <1>3, <1>5, RegistersKeep
<1>8. t.fails = {} => ~f
  BY <1>2
<1>9. f => Broken(u)
  <2> SUFFICES ASSUME f PROVE Broken(u)
    OBVIOUS
  <2>1. u.ios = t.ios + 1 /\ u.fails = t.fails /\ u.ios \in u.fails
    BY <1>1, <1>2, <1>7
  <2> QED BY <2>1, FailsBreak
<1> QED BY <1>1, <1>2, <1>4, <1>7, <1>8, <1>9

(* The dirty window written to the first i copies, or to some and no more. *)
Written(t, u, i) ==
    /\ u \in Tables /\ u.sector = t.sector /\ u.window = t.window /\ u.dirty /\ t.dirty
    /\ u.hint = t.hint /\ u.ax = t.ax /\ u.fails = t.fails
    /\ Onwards(t, u)
    /\ u.cf => Broken(u)
    /\ \A j \in 1 .. knum_fats, c \in Clusters : c \notin Loaded(t) => u.copies[j][c] = t.copies[j][c]
    /\ u.cf => u.ioerr
    /\ ~u.cf => u.ioerr = t.ioerr
    /\ ~u.cf => \A j \in 1 .. i, c \in Loaded(t) : u.copies[j][c] = t.window[c]
    /\ t.fails = {} => ~u.cf

Copied(t, i) == [t EXCEPT !.copies[i] =
                    [c \in Clusters |-> IF c \in DOMAIN t.window THEN t.window[c] ELSE @[c]]]

(* The window written to one copy. *)
LEMMA CopiedIs ==
  ASSUME NEW t \in Tables, t.dirty, NEW i \in 1 .. knum_fats
  PROVE  /\ Copied(t, i) \in Tables
         /\ Copied(t, i).sector = t.sector /\ Copied(t, i).window = t.window /\ Copied(t, i).dirty
         /\ Copied(t, i).hint = t.hint /\ Copied(t, i).ax = t.ax /\ Copied(t, i).fails = t.fails
         /\ Copied(t, i).ioerr = t.ioerr /\ Copied(t, i).cf = t.cf /\ Copied(t, i).ios = t.ios
         /\ Copied(t, i).copies[1] \in {t.copies[1], View(t)}
         /\ \A j \in 1 .. knum_fats, c \in Clusters :
               Copied(t, i).copies[j][c] = IF j = i /\ c \in Loaded(t) THEN t.window[c]
                                           ELSE t.copies[j][c]
<1>1. t \in Table /\ t.copies \in Copies /\ DOMAIN t.window = Loaded(t) /\ Mirrored(t)
      /\ (\A c \in Loaded(t) : t.window[c] \in Entry)
      /\ \A j \in 1 .. knum_fats, c \in Clusters : t.copies[j][c] \in Entry
  BY TableHas
<1>2. PICK C : C = [c \in Clusters |-> IF c \in Loaded(t) THEN t.window[c] ELSE t.copies[i][c]]
  OBVIOUS
<1>3. PICK D : D = [t.copies EXCEPT ![i] = C]
  OBVIOUS
<1>4. C \in [Clusters -> Entry]
  BY <1>1, <1>2
<1>5. D \in Copies
  BY <1>1, <1>3, <1>4 DEF Copies
<1>6. \A j \in 1 .. knum_fats, c \in Clusters :
         D[j][c] = IF j = i /\ c \in Loaded(t) THEN t.window[c] ELSE t.copies[j][c]
  BY <1>1, <1>2, <1>3 DEF Copies
<1>7. PICK u : u = Copied(t, i)
  OBVIOUS
<1>8. u = [t EXCEPT !.copies = D]
  BY <1>1, <1>2, <1>3, <1>7 DEF Copied, Table
<1>9. u \in Table
  BY <1>1, <1>5, <1>8 DEF Table, Copies
<1>10. /\ u.copies = D /\ u.sector = t.sector /\ u.window = t.window /\ u.dirty = t.dirty
       /\ u.hint = t.hint /\ u.ax = t.ax /\ u.fails = t.fails /\ u.ioerr = t.ioerr /\ u.cf = t.cf
       /\ u.ios = t.ios
  BY <1>1, <1>8 DEF Table
<1>11. Loaded(u) = Loaded(t)
  BY <1>10 DEF Loaded
<1>12. Mirrored(u)
  <2> SUFFICES ASSUME NEW c \in Clusters, NEW j \in 1 .. knum_fats, c \notin Loaded(u)
               PROVE  u.copies[j][c] = u.copies[1][c]
    BY <1>10 DEF Mirrored
  <2>1. u.copies[j][c] = t.copies[j][c] /\ u.copies[1][c] = t.copies[1][c]
    BY <1>6, <1>10, <1>11, TableConstants
  <2>2. t.copies[j][c] = t.copies[1][c]
    BY <1>1, <1>11 DEF Mirrored
  <2> QED BY <2>1, <2>2
<1>13. Sound(u)
  BY <1>1, <1>10, <1>11, <1>12 DEF Sound
<1>14. u \in Tables
  BY <1>9, <1>13, TableOf
<1>15. D[1] \in {t.copies[1], View(t)}
  <2>1. CASE i = 1
    <3>1. D[1] = C
      BY <1>1, <1>3, <2>1 DEF Copies
    <3>2. C = View(t)
      BY <1>1, <1>2, <2>1 DEF View
    <3> QED BY <3>1, <3>2
  <2>2. CASE i # 1
    BY <1>1, <1>3, <2>2, TableConstants DEF Copies
  <2> QED BY <2>1, <2>2
<1> QED BY <1>6, <1>7, <1>10, <1>14, <1>15

(* One more copy written. *)
LEMMA WriteCopyIs ==
  ASSUME NEW t \in Tables, NEW u, NEW i \in 1 .. knum_fats, Written(t, u, i - 1), ~u.cf
  PROVE  Written(t, WriteCopy(u, i), i)
<1>0. u.ios \in Nat /\ t.ios \in Nat /\ u.fails = t.fails /\ u.ios >= t.ios /\ (t.ioerr => u.ioerr)
      /\ u.copies[1] \in {t.copies[1], View(t)}
  BY TableHas DEF Written, Onwards
<1>1. PICK x : x = Io(u)
  OBVIOUS
<1>2. u \in Tables /\ u.dirty
  BY DEF Written
<1>3. /\ x \in Tables /\ SameTable(u, x) /\ x.ioerr = u.ioerr /\ x.fails = u.fails /\ x.ax = u.ax
      /\ x.ios = u.ios + 1 /\ (x.cf => Broken(x)) /\ View(x) = View(u)
      /\ u.fails = {} => ~x.cf
  BY <1>1, <1>2, IoIs
<1>4. x.dirty /\ Loaded(x) = Loaded(t) /\ Loaded(u) = Loaded(t)
  BY <1>2, <1>3 DEF SameTable, Loaded, Written
<1>5. PICK y : y = WriteCopy(u, i)
  OBVIOUS
<1>6. CASE x.cf
  <2>1. y = [x EXCEPT !.ioerr = TRUE]
    BY <1>1, <1>5, <1>6 DEF WriteCopy
  <2>0. PICK e \in BOOLEAN : e = TRUE
    OBVIOUS
  <2>2. y = Registers(x, x.ax, x.cf, x.ios, e, x.fails)
    <3>1. x \in Table
      BY <1>3, TableHas
    <3> QED BY <2>0, <2>1, <3>1 DEF Registers, Table
  <2>3. x.ax \in Entry /\ x.cf \in BOOLEAN /\ x.ios \in Nat /\ e \in BOOLEAN
        /\ x.fails \in SUBSET Nat
    BY <1>3, <2>0, TableHas
  <2>4. /\ y \in Tables /\ SameTable(x, y) /\ View(y) = View(x)
        /\ y.ax = x.ax /\ y.cf = x.cf /\ y.ios = x.ios /\ y.ioerr = e /\ y.fails = x.fails
    BY <1>3, <2>2, <2>3, RegistersKeep
  <2>5. Onwards(t, y)
    BY <1>0, <1>3, <2>0, <2>4 DEF Onwards, SameTable
  <2>6. Broken(y)
    BY <1>3, <1>6, <2>4 DEF Broken
  <2> QED BY <1>3, <1>4, <1>5, <1>6, <2>0, <2>4, <2>5, <2>6 DEF Written, SameTable
<1>7. CASE ~x.cf
  <2>1. y = Copied(x, i)
    BY <1>1, <1>5, <1>7 DEF WriteCopy, Copied
  <2>2. /\ y \in Tables
        /\ y.sector = x.sector /\ y.window = x.window /\ y.dirty
        /\ y.hint = x.hint /\ y.ax = x.ax /\ y.fails = x.fails
        /\ y.ioerr = x.ioerr /\ y.cf = x.cf /\ y.ios = x.ios
        /\ y.copies[1] \in {x.copies[1], View(x)}
        /\ \A j \in 1 .. knum_fats, c \in Clusters :
               y.copies[j][c] = IF j = i /\ c \in Loaded(x) THEN x.window[c] ELSE x.copies[j][c]
    BY <1>3, <1>4, <2>1, CopiedIs
  <2>3. /\ x.copies = u.copies /\ x.window = t.window /\ x.sector = t.sector /\ x.hint = t.hint
        /\ x.ax = t.ax /\ x.fails = t.fails /\ x.ioerr = t.ioerr /\ t.dirty
    BY <1>3 DEF Written, SameTable
  <2>4. \A j \in 1 .. knum_fats, c \in Clusters : c \notin Loaded(t) => y.copies[j][c] = t.copies[j][c]
    BY <1>4, <2>2, <2>3 DEF Written
  <2>5. ASSUME NEW j \in 1 .. i, NEW c \in Loaded(t) PROVE y.copies[j][c] = t.window[c]
    <3>1. j \in 1 .. knum_fats /\ c \in Clusters
      BY <1>4, <1>2, TableHas, TableConstants
    <3>2. j # i => j \in 1 .. i - 1
      OBVIOUS
    <3>3. j # i => u.copies[j][c] = t.window[c]
      BY <3>2 DEF Written
    <3> QED BY <1>4, <2>2, <2>3, <3>1, <3>3
  <2>6. View(u) = View(t)
    <3>1. /\ u.window = t.window
          /\ \A c \in Clusters : c \notin Loaded(t) => u.copies[1][c] = t.copies[1][c]
      BY TableConstants DEF Written
    <3>2. DOMAIN t.window = Loaded(t)
      BY TableHas
    <3>3. \A c \in Clusters : (IF c \in DOMAIN u.window THEN u.window[c] ELSE u.copies[1][c])
                            = (IF c \in DOMAIN t.window THEN t.window[c] ELSE t.copies[1][c])
      BY <3>1, <3>2
    <3> QED BY <3>3 DEF View
  <2>7. Onwards(t, y)
    BY <1>0, <1>3, <2>2, <2>3, <2>6 DEF Onwards, SameTable
  <2> QED BY <1>5, <1>7, <2>2, <2>3, <2>4, <2>5, <2>7 DEF Written
<1> QED BY <1>5, <1>6, <1>7

CopyNext(u, i) == IF u.cf THEN u ELSE WriteCopy(u, i)
CopyTurns(g, t) ==
    g = [i \in 0 .. knum_fats |-> IF i = 0 THEN [t EXCEPT !.cf = FALSE] ELSE CopyNext(g[i - 1], i)]

(* One more turn of the loop over the copies. *)
LEMMA CopyNextIs ==
  ASSUME NEW t \in Tables, NEW u, NEW i \in 1 .. knum_fats, Written(t, u, i - 1)
  PROVE  Written(t, CopyNext(u, i), i)
<1>1. CASE u.cf
  BY <1>1 DEF CopyNext, Written
<1>2. CASE ~u.cf
  BY <1>2, WriteCopyIs DEF CopyNext
<1> QED BY <1>1, <1>2

(* The carry flag cleared. *)
LEMMA ClearedIs ==
  ASSUME NEW t \in Tables
  PROVE  LET u == [t EXCEPT !.cf = FALSE] IN
         /\ u \in Tables /\ SameTable(t, u) /\ View(u) = View(t)
         /\ ~u.cf /\ u.ioerr = t.ioerr /\ u.fails = t.fails /\ u.ax = t.ax /\ u.ios = t.ios
<1>1. PICK f \in BOOLEAN : f = FALSE
  OBVIOUS
<1>2. PICK u : u = [t EXCEPT !.cf = FALSE]
  OBVIOUS
<1>3. u = Registers(t, t.ax, f, t.ios, t.ioerr, t.fails)
  <2>1. t \in Table
    BY TableHas
  <2> QED BY <1>1, <1>2, <2>1 DEF Registers, Table
<1>4. t.ax \in Entry /\ t.ios \in Nat /\ t.ioerr \in BOOLEAN /\ t.fails \in SUBSET Nat
  BY TableHas
<1>5. /\ u \in Tables /\ SameTable(t, u) /\ View(u) = View(t)
      /\ u.ax = t.ax /\ u.cf = f /\ u.ioerr = t.ioerr /\ u.fails = t.fails /\ u.ios = t.ios
  BY <1>1, <1>3, <1>4, RegistersKeep
<1> QED BY <1>1, <1>2, <1>5

(* The window written to all copies, or up to the transfer that fails. *)
LEMMA WriteCopiesIs ==
  ASSUME NEW t \in Tables, t.dirty
  PROVE  Written(t, WriteCopies(t), knum_fats)
<1>1. PICK b : b = [t EXCEPT !.cf = FALSE]
  OBVIOUS
<1>2. Written(t, b, 0)
  <2>1. /\ b \in Tables /\ SameTable(t, b)
        /\ ~b.cf /\ b.ioerr = t.ioerr /\ b.fails = t.fails /\ b.ax = t.ax /\ b.ios = t.ios
    BY <1>1, ClearedIs
  <2>2. 1 .. 0 = {}
    OBVIOUS
  <2>3. Onwards(t, b)
    BY <2>1, TableHas DEF Onwards, SameTable
  <2> QED BY <2>1, <2>2, <2>3 DEF Written, SameTable
<1> DEFINE X == {p \in (0 .. knum_fats) \X Tables : Written(t, p[2], p[1])}
           S == [p \in Tables \X (1 .. knum_fats) |-> CopyNext(p[1], p[2])]
<1>3. <<0, b>> \in X
  BY <1>2, TableConstants DEF Written
<1>4. ASSUME NEW k \in 0 + 1 .. knum_fats, NEW x, <<k - 1, x>> \in X
      PROVE  S[<<x, k>>] = CopyNext(x, k) /\ <<k, CopyNext(x, k)>> \in X
  <2>1. Written(t, x, k - 1) /\ x \in Tables /\ k \in 1 .. knum_fats /\ k \in 0 .. knum_fats
    BY <1>4
  <2>2. Written(t, CopyNext(x, k), k)
    BY <2>1, CopyNextIs
  <2> QED BY <2>1, <2>2 DEF Written
<1> HIDE DEF X, S
<1>5. PICK g : Turns(g, X, 0, knum_fats, b, S)
  <2>1. \A k \in 0 + 1 .. knum_fats : \A x : <<k - 1, x>> \in X => <<k, S[<<x, k>>]>> \in X
    BY <1>4
  <2>2. 0 \in Nat /\ knum_fats \in Nat /\ 0 <= knum_fats
    BY TableConstants
  <2> QED BY ONLY <1>3, <2>1, <2>2, TurnsExist
<1>6. CopyTurns(g, t)
  <2>1. ASSUME NEW i \in 0 .. knum_fats, i # 0 PROVE g[i] = CopyNext(g[i - 1], i)
    <3>1. i \in 0 + 1 .. knum_fats /\ i - 1 \in 0 .. knum_fats
      BY <2>1, TableConstants
    <3>2. <<i - 1, g[i - 1]>> \in X /\ g[i] = S[<<g[i - 1], i>>]
      BY <1>5, <3>1 DEF Turns
    <3> QED BY <1>4, <3>1, <3>2
  <2>2. g = [i \in 0 .. knum_fats |-> g[i]] /\ g[0] = b
    BY <1>5 DEF Turns
  <2>3. g = [i \in 0 .. knum_fats |-> IF i = 0 THEN b ELSE CopyNext(g[i - 1], i)]
    BY <2>1, <2>2
  <2> QED BY <1>1, <2>3 DEF CopyTurns
<1> DEFINE c == CHOOSE h : CopyTurns(h, t)
<1>7. CopyTurns(c, t) /\ WriteCopies(t) = c[knum_fats]
  BY ZenonT(60), <1>6 DEF WriteCopies, CopyTurns, CopyNext
<1> HIDE DEF c
<1> DEFINE I == {k \in 0 .. knum_fats : <<k, c[k]>> \in X}
<1>8. 0 \in I
  BY <1>1, <1>3, <1>7, TableConstants DEF CopyTurns
<1>9. ASSUME NEW k \in 0 + 1 .. knum_fats, k - 1 \in I PROVE k \in I
  <2>1. k \in 0 .. knum_fats /\ k # 0 /\ k - 1 \in 0 .. knum_fats
    BY TableConstants
  <2>2. c[k] = CopyNext(c[k - 1], k)
    BY <1>7, <2>1 DEF CopyTurns
  <2>3. <<k - 1, c[k - 1]>> \in X
    BY <1>9
  <2> QED BY <1>4, <2>1, <2>2, <2>3
<1> HIDE DEF I
<1>10. knum_fats \in I
  BY <1>8, <1>9, TableConstants, Upwards
<1>11. <<knum_fats, c[knum_fats]>> \in X
  BY <1>10 DEF I
<1> QED BY <1>7, <1>11 DEF X

(* What every routine that only reads and writes sectors keeps. *)
Kept(t, u) ==
    /\ u \in Tables /\ View(u) = View(t) /\ u.hint = t.hint /\ u.fails = t.fails
    /\ t.fails = {} => u.ioerr = t.ioerr
    /\ Onwards(t, u)

(* A clean window is what every copy holds. *)
LEMMA CleanView ==
  ASSUME NEW t \in Tables, ~t.dirty
  PROVE  \A i \in 1 .. knum_fats : t.copies[i] = View(t)
<1> SUFFICES ASSUME NEW i \in 1 .. knum_fats PROVE t.copies[i] = View(t)
  OBVIOUS
<1>1. t.copies[i] = [c \in Clusters |-> t.copies[i][c]]
  BY TableHas DEF Copies
<1>2. ASSUME NEW c \in Clusters PROVE t.copies[i][c] = View(t)[c]
  <2>1. t.copies[i][c] = t.copies[1][c]
    BY TableHas DEF Mirrored
  <2>2. c \in Loaded(t) => t.window[c] = t.copies[1][c]
    BY TableHas DEF Sound
  <2> QED BY <2>1, <2>2, ViewIs, TableHas
<1> QED BY <1>1, <1>2, ViewIs

Settled(u) == [u EXCEPT !.dirty = u.cf]

(* flush_fat's end: clean after success, dirty and in error after failure. *)
LEMMA SettledIs ==
  ASSUME NEW t \in Tables, NEW u, Written(t, u, knum_fats)
  PROVE  /\ Kept(t, Settled(u)) /\ Settled(u).sector = t.sector /\ Settled(u).window = t.window
         /\ Settled(u).ax = t.ax /\ Settled(u).cf = u.cf /\ Settled(u).dirty = u.cf
         /\ u.cf => Settled(u).ioerr /\ Broken(Settled(u))
         /\ ~u.cf => Settled(u).ioerr = t.ioerr
<1>1. u \in Tables /\ u \in Table /\ Sound(u) /\ u.cf \in BOOLEAN /\ t.dirty /\ Sound(t)
  BY TableHas DEF Written
<1>2. PICK v : v = Settled(u)
  OBVIOUS
<1>3. /\ v.copies = u.copies /\ v.sector = u.sector /\ v.window = u.window /\ v.hint = u.hint
      /\ v.ax = u.ax /\ v.fails = u.fails /\ v.ioerr = u.ioerr /\ v.cf = u.cf /\ v.dirty = u.cf
      /\ v.ios = u.ios
  BY <1>1, <1>2 DEF Settled, Table
<1>4. v \in Table
  BY <1>1, <1>2 DEF Settled, Table
<1>5. /\ v.sector = t.sector /\ v.window = t.window /\ v.hint = t.hint /\ v.ax = t.ax
      /\ v.fails = t.fails /\ (u.cf => v.ioerr) /\ (~u.cf => v.ioerr = t.ioerr)
      /\ (t.fails = {} => ~u.cf)
  BY <1>3 DEF Written
<1>6. Loaded(v) = Loaded(t) /\ Loaded(u) = Loaded(t) /\ DOMAIN v.window = Loaded(v)
      /\ DOMAIN t.window = Loaded(t) /\ Loaded(t) \subseteq Clusters
  BY <1>3, <1>5, TableHas DEF Loaded
<1>7. ASSUME NEW c \in Loaded(t), ~u.cf, NEW j \in 1 .. knum_fats
      PROVE  v.copies[j][c] = v.window[c]
  BY <1>3, <1>5, <1>7 DEF Written
<1>8. Mirrored(v)
  <2> SUFFICES ASSUME NEW c \in Clusters, NEW j \in 1 .. knum_fats, ~(u.cf /\ c \in Loaded(t))
               PROVE  v.copies[j][c] = v.copies[1][c]
    BY <1>3, <1>6 DEF Mirrored
  <2>1. CASE c \in Loaded(t)
    BY <1>7, <2>1, TableConstants
  <2>2. CASE c \notin Loaded(t)
    BY <1>1, <1>3, <1>6, <2>2 DEF Sound, Mirrored
  <2> QED BY <2>1, <2>2
<1>9. Sound(v)
  BY <1>3, <1>6, <1>7, <1>8, TableConstants DEF Sound
<1>10. v \in Tables
  BY <1>4, <1>9, TableOf
<1>11. View(v) = View(t)
  <2>1. ASSUME NEW c \in Clusters PROVE View(v)[c] = View(t)[c]
    <3>1. CASE c \in Loaded(t)
      BY <1>5, <1>6, <3>1, ViewIs
    <3>2. CASE c \notin Loaded(t)
      <4>1. v.copies[1][c] = t.copies[1][c]
        BY <1>3, <3>2, TableConstants DEF Written
      <4> QED BY <1>5, <1>6, <3>2, <4>1, ViewIs
    <3> QED BY <3>1, <3>2
  <2> QED BY <2>1, ViewIs
<1>12. Onwards(t, v) /\ (u.cf => Broken(v))
  BY <1>3 DEF Onwards, Written, Broken
<1> QED BY <1>2, <1>3, <1>5, <1>10, <1>11, <1>12 DEF Kept

(* window_flush *)
LEMMA WindowFlushIs ==
  ASSUME NEW t \in Tables
  PROVE  LET u == WindowFlush(t) IN
         /\ Kept(t, u) /\ u.sector = t.sector /\ u.window = t.window /\ u.ax = t.ax
         /\ u.cf \in BOOLEAN
         /\ u.dirty = u.cf
         /\ u.cf => u.ioerr /\ Broken(u)
         /\ ~u.cf => u.ioerr = t.ioerr
         /\ t.fails = {} => ~u.cf
<1>1. PICK u : u = WindowFlush(t)
  OBVIOUS
<1>2. CASE t.dirty
  <2>1. PICK w : w = WriteCopies(t)
    OBVIOUS
  <2>2. Written(t, w, knum_fats)
    BY <1>2, <2>1, WriteCopiesIs
  <2>3. u = Settled(w)
    BY <1>1, <1>2, <2>1 DEF WindowFlush, Settled
  <2>4. /\ Kept(t, u) /\ u.sector = t.sector /\ u.window = t.window
        /\ u.ax = t.ax /\ u.cf = w.cf /\ u.dirty = w.cf
        /\ (w.cf => u.ioerr /\ Broken(u)) /\ (~w.cf => u.ioerr = t.ioerr)
    BY <2>2, <2>3, SettledIs
  <2>5. (t.fails = {} => ~w.cf) /\ w.cf \in BOOLEAN
    BY <2>2, TableHas DEF Written
  <2> QED BY <1>1, <2>4, <2>5
<1>3. CASE ~t.dirty
  <2>1. u = [t EXCEPT !.cf = FALSE]
    BY <1>1, <1>3 DEF WindowFlush
  <2>2. /\ u \in Tables /\ SameTable(t, u) /\ View(u) = View(t)
        /\ ~u.cf /\ u.ioerr = t.ioerr /\ u.fails = t.fails /\ u.ax = t.ax /\ u.ios = t.ios
    BY <2>1, ClearedIs
  <2>3. u.cf \in BOOLEAN /\ u.dirty \in BOOLEAN
    BY <2>2, TableHas
  <2>4. Onwards(t, u)
    BY <2>2, TableHas DEF Onwards, SameTable
  <2> QED BY <1>1, <1>3, <2>2, <2>3, <2>4 DEF Kept, SameTable
<1> QED BY <1>2, <1>3, TableHas

FirstCopy(t, s) == IF s = NoSector THEN <<>> ELSE [c \in InSector(s) |-> t.copies[1][c]]
Showing(t, s) == [t EXCEPT !.sector = s, !.window = FirstCopy(t, s)]

(* A clean window may be loaded with another sector. *)
LEMMA ShowingIs ==
  ASSUME NEW t \in Tables, ~t.dirty, NEW s \in FatSectors \cup {NoSector}
  PROVE  LET u == Showing(t, s) IN
         /\ u \in Tables /\ View(u) = View(t) /\ u.sector = s /\ u.hint = t.hint
         /\ u.fails = t.fails /\ u.ioerr = t.ioerr /\ u.ax = t.ax /\ u.cf = t.cf
         /\ Onwards(t, u) /\ u.ios = t.ios
<1>1. PICK W : W = FirstCopy(t, s)
  OBVIOUS
<1>2. PICK u : u = Showing(t, s)
  OBVIOUS
<1>3. t \in Table /\ Mirrored(t) /\ DOMAIN t.window = Loaded(t)
  BY TableHas
<1>4. /\ u.copies = t.copies /\ u.sector = s /\ u.window = W /\ u.hint = t.hint
      /\ u.ax = t.ax /\ u.fails = t.fails /\ u.ioerr = t.ioerr /\ u.cf = t.cf /\ u.dirty = t.dirty
      /\ u.ios = t.ios
  BY <1>1, <1>2, <1>3 DEF Showing, Table
<1>5. /\ W \in Windows /\ DOMAIN W = Loaded(u)
      /\ \A c \in DOMAIN W : W[c] = t.copies[1][c]
  <2>1. CASE s = NoSector
    BY <1>1, <1>4, <2>1 DEF FirstCopy, Windows, Loaded
  <2>2. CASE s # NoSector
    <3>1. W = [c \in InSector(s) |-> t.copies[1][c]] /\ s \in FatSectors
      BY <1>1, <2>2 DEF FirstCopy
    <3>2. \A c \in InSector(s) : c \in Clusters
      BY DEF InSector
    <3>3. W \in [InSector(s) -> Entry]
      BY <3>1, <3>2, TableHas, TableConstants
    <3>4. W \in UNION {[InSector(z) -> Entry] : z \in FatSectors}
      BY <3>1, <3>3
    <3> QED BY <1>4, <2>2, <3>1, <3>4 DEF Windows, Loaded
  <2> QED BY <2>1, <2>2
<1>6. u \in Table
  BY <1>1, <1>2, <1>3, <1>5 DEF Showing, Table, Windows
<1>7. Mirrored(u)
  BY <1>3, <1>4 DEF Mirrored
<1>8. u \in Tables
  BY <1>4, <1>5, <1>6, <1>7, TableOf DEF Sound
<1>9. \A c \in Clusters : View(u)[c] = t.copies[1][c]
  BY ZenonT(60), <1>4, <1>5, ViewIs
<1>10. t.copies[1] = View(t)
  BY CleanView, TableConstants
<1>11. View(u) = View(t)
  BY <1>9, <1>10, ViewIs
<1>12. Onwards(t, u)
  BY <1>4, TableHas DEF Onwards
<1> QED BY <1>2, <1>4, <1>8, <1>11, <1>12

(* Every cluster's entry is in a sector of the FAT. *)
LEMMA SectorsAre == \A c \in Clusters : /\ SectorOf(c) \in FatSectors /\ SectorOf(c) # NoSector
                                        /\ c \in InSector(SectorOf(c))
<1> SUFFICES ASSUME NEW c \in Clusters
             PROVE SectorOf(c) \in FatSectors /\ SectorOf(c) # NoSector /\ c \in InSector(SectorOf(c))
  OBVIOUS
<1>1. c \div EntriesPerSector \in Nat
  BY TableConstants, ClustersAre
<1> QED BY <1>1 DEF SectorOf, FatSectors, NoSector, InSector

(* Two steps that keep what entries read are one. *)
LEMMA KeptMore ==
  ASSUME NEW t \in Tables, NEW u, NEW v, Kept(t, u), Kept(u, v)
  PROVE  Kept(t, v)
<1>1. v.ios >= t.ios
  <2>1. t.ios \in Nat /\ u.ios \in Nat /\ v.ios \in Nat
    BY TableHas DEF Kept
  <2> QED BY <2>1 DEF Kept, Onwards
<1>2. Onwards(t, v)
  BY <1>1 DEF Kept, Onwards
<1> QED BY <1>2 DEF Kept

(* window_load *)
LEMMA WindowLoadIs ==
  ASSUME NEW t \in Tables, NEW s \in FatSectors, s # NoSector
  PROVE  LET u == WindowLoad(t, s) IN
         /\ Kept(t, u) /\ u.cf \in BOOLEAN /\ u.ax = t.ax
         /\ ~u.cf => u.sector = s /\ u.ioerr = t.ioerr
         /\ u.cf => Broken(u) /\ t.sector # s
         /\ t.fails = {} => ~u.cf
<1>1. PICK u : u = WindowLoad(t, s)
  OBVIOUS
<1>2. CASE t.sector = s
  <2>1. u = [t EXCEPT !.cf = FALSE]
    BY <1>1, <1>2 DEF WindowLoad
  <2>2. /\ u \in Tables /\ SameTable(t, u) /\ View(u) = View(t)
        /\ ~u.cf /\ u.ioerr = t.ioerr /\ u.fails = t.fails /\ u.ax = t.ax /\ u.ios = t.ios
    BY <2>1, ClearedIs
  <2>3. u.cf \in BOOLEAN
    BY <2>2, TableHas
  <2>4. Onwards(t, u)
    BY <2>2, TableHas DEF Onwards, SameTable
  <2> QED BY <1>1, <1>2, <2>2, <2>3, <2>4 DEF Kept, SameTable
<1>3. CASE t.sector # s
  <2>1. PICK w : w = WindowFlush(t)
    OBVIOUS
  <2>2. /\ Kept(t, w) /\ w.sector = t.sector /\ w.ax = t.ax /\ w.cf \in BOOLEAN
        /\ w.dirty = w.cf /\ (~w.cf => w.ioerr = t.ioerr) /\ (t.fails = {} => ~w.cf)
        /\ (w.cf => Broken(w))
    BY <2>1, WindowFlushIs
  <2>3. CASE w.cf
    <3>1. u = w
      BY <1>1, <1>3, <2>1, <2>3 DEF WindowLoad
    <3> QED BY <1>1, <1>3, <2>2, <2>3, <3>1
  <2>4. CASE ~w.cf
    <3>1. PICK x : x = Io(w)
      OBVIOUS
    <3>2. /\ x \in Tables /\ SameTable(w, x) /\ View(x) = View(w)
          /\ x.ioerr = w.ioerr /\ x.fails = w.fails /\ x.ax = w.ax
          /\ x.ios = w.ios + 1 /\ (x.cf => Broken(x))
          /\ w.fails = {} => ~x.cf
      BY <2>2, <3>1, IoIs DEF Kept
    <3>6. Kept(w, x)
      <4>1. w.ios \in Nat
        BY <2>2, TableHas DEF Kept
      <4> QED BY <3>2, <4>1 DEF Kept, SameTable, Onwards
    <3>3. x.cf \in BOOLEAN /\ ~x.dirty /\ Kept(t, x)
      BY <2>2, <2>4, <3>2, <3>6, TableHas, KeptMore DEF SameTable
    <3>4. CASE x.cf
      <4>1. u = Showing(x, NoSector)
        BY <1>1, <1>3, <2>1, <2>4, <3>1, <3>4 DEF WindowLoad, Showing, FirstCopy
      <4>2. /\ u \in Tables /\ View(u) = View(x) /\ u.hint = x.hint
            /\ u.fails = x.fails /\ u.ioerr = x.ioerr /\ u.ax = x.ax /\ u.cf = x.cf
            /\ Onwards(x, u) /\ u.ios = x.ios
        BY <3>2, <3>3, <4>1, ShowingIs
      <4>3. Kept(x, u)
        BY <4>2 DEF Kept
      <4>4. Kept(t, u)
        BY <3>3, <4>3, KeptMore
      <4>5. Broken(u)
        BY <3>2, <3>4, <4>2 DEF Broken
      <4> QED BY <1>1, <1>3, <2>2, <3>2, <3>3, <3>4, <4>2, <4>4, <4>5 DEF Kept
    <3>5. CASE ~x.cf
      <4>1. u = Showing(x, s)
        BY <1>1, <1>3, <2>1, <2>4, <3>1, <3>5 DEF WindowLoad, Showing, FirstCopy
      <4>2. /\ u \in Tables /\ View(u) = View(x) /\ u.sector = s /\ u.hint = x.hint
            /\ u.fails = x.fails /\ u.ioerr = x.ioerr /\ u.ax = x.ax /\ u.cf = x.cf
            /\ Onwards(x, u) /\ u.ios = x.ios
        BY <3>2, <3>3, <4>1, ShowingIs
      <4>3. Kept(x, u)
        BY <4>2 DEF Kept
      <4>4. Kept(t, u)
        BY <3>3, <4>3, KeptMore
      <4> QED BY <1>1, <2>2, <2>4, <3>2, <3>3, <3>5, <4>2, <4>4
    <3> QED BY <3>4, <3>5
  <2> QED BY <2>3, <2>4
<1> QED BY <1>2, <1>3

-----------------------------------------------------------------------------
(* Entries *)

(* An entry in the window reads as the window has it. *)
LEMMA ShownAt ==
  ASSUME NEW t \in Tables, NEW c \in Clusters, t.sector = SectorOf(c)
  PROVE  c \in Loaded(t) /\ t.window[c] = View(t)[c] /\ t.window[c] \in Entry
<1>1. c \in Loaded(t)
  BY SectorsAre DEF Loaded
<1> QED BY <1>1, TableHas, ViewIs

Answering(t, a) == [t EXCEPT !.ax = a]

(* An answer in AX leaves the table's contents. *)
LEMMA AnsweringIs ==
  ASSUME NEW t \in Tables, NEW a \in Entry
  PROVE  LET u == Answering(t, a) IN
         /\ u \in Tables /\ SameTable(t, u) /\ View(u) = View(t)
         /\ u.cf = t.cf /\ u.ioerr = t.ioerr /\ u.fails = t.fails /\ u.ax = a
         /\ u.ios = t.ios /\ Onwards(t, u) /\ Kept(t, u)
<1>1. PICK u : u = Answering(t, a)
  OBVIOUS
<1>2. u = Registers(t, a, t.cf, t.ios, t.ioerr, t.fails)
  <2>1. t \in Table
    BY TableHas
  <2> QED BY <1>1, <2>1 DEF Answering, Registers, Table
<1>3. t.cf \in BOOLEAN /\ t.ios \in Nat /\ t.ioerr \in BOOLEAN /\ t.fails \in SUBSET Nat
  BY TableHas
<1>4. /\ u \in Tables /\ SameTable(t, u) /\ View(u) = View(t)
      /\ u.ax = a /\ u.cf = t.cf /\ u.ioerr = t.ioerr /\ u.fails = t.fails /\ u.ios = t.ios
  BY <1>2, <1>3, RegistersKeep
<1>5. Onwards(t, u)
  BY <1>3, <1>4 DEF Onwards, SameTable
<1>6. Kept(t, u)
  BY <1>4, <1>5 DEF Kept, SameTable
<1> QED BY <1>1, <1>4, <1>5, <1>6

(* fat_next *)
LEMMA FatNextIs ==
  ASSUME NEW t \in Tables, NEW c \in Clusters
  PROVE  LET u == FatNext(t, c) IN
         /\ Kept(t, u) /\ u.ax \in Entry
         /\ u.ax \in {View(t)[c], EOC} /\ u.cf \in BOOLEAN
         /\ ~u.cf => u.ax = View(t)[c] /\ u.sector = SectorOf(c)
         /\ u.cf => u.ax = EOC /\ Broken(u)
         /\ t.fails = {} => u.ax = View(t)[c] /\ ~u.cf
<1>1. PICK u : u = FatNext(t, c)
  OBVIOUS
<1>2. PICK w : w = WindowLoad(t, SectorOf(c))
  OBVIOUS
<1>3. /\ Kept(t, w) /\ w.cf \in BOOLEAN
      /\ ~w.cf => w.sector = SectorOf(c) /\ w.ioerr = t.ioerr
      /\ w.cf => Broken(w)
      /\ t.fails = {} => ~w.cf
  BY <1>2, WindowLoadIs, SectorsAre
<1>4. PICK a : a = IF w.cf THEN EOC ELSE w.window[c]
  OBVIOUS
<1>5. w \in Tables /\ View(w) = View(t)
  BY <1>3 DEF Kept
<1>6. a \in Entry /\ (w.cf => a = EOC) /\ (~w.cf => a = View(t)[c])
  BY <1>3, <1>4, <1>5, ShownAt, ClustersAre
<1>7. u = Answering(w, a)
  BY <1>1, <1>2, <1>4 DEF FatNext, Answering
<1>8. /\ u \in Tables /\ SameTable(w, u) /\ View(u) = View(w)
      /\ u.cf = w.cf /\ u.ioerr = w.ioerr /\ u.fails = w.fails /\ u.ax = a
      /\ u.ios = w.ios /\ Kept(w, u)
  BY <1>5, <1>6, <1>7, AnsweringIs
<1>10. Kept(t, u)
  BY <1>3, <1>8, KeptMore
<1>11. u.sector = w.sector /\ (w.cf => Broken(u))
  BY <1>3, <1>8 DEF SameTable, Broken
<1> QED BY <1>1, <1>3, <1>6, <1>8, <1>10, <1>11

Storing(t, c, e) == [t EXCEPT !.window[c] = e, !.dirty = TRUE]

(* An entry stored in the window is the only one that reads differently. *)
LEMMA StoringIs ==
  ASSUME NEW t \in Tables, NEW c \in Clusters, t.sector = SectorOf(c), NEW e \in Entry
  PROVE  LET u == Storing(t, c, e) IN
         /\ u \in Tables /\ View(u) = [View(t) EXCEPT ![c] = e]
         /\ u.hint = t.hint /\ u.fails = t.fails /\ u.ioerr = t.ioerr /\ u.ax = t.ax /\ u.cf = t.cf
         /\ u.sector = t.sector /\ u.copies = t.copies /\ u.ios = t.ios
<1>1. PICK W : W = [t.window EXCEPT ![c] = e]
  OBVIOUS
<1>2. PICK u : u = Storing(t, c, e)
  OBVIOUS
<1>3. t \in Table /\ Mirrored(t) /\ DOMAIN t.window = Loaded(t) /\ c \in Loaded(t)
      /\ Loaded(t) = InSector(t.sector) /\ t.sector \in FatSectors /\ Loaded(t) \subseteq Clusters
      /\ \A d \in Loaded(t) : t.window[d] \in Entry
  BY TableHas, ShownAt, SectorsAre DEF Loaded
<1>4. /\ u.copies = t.copies /\ u.sector = t.sector /\ u.window = W /\ u.hint = t.hint
      /\ u.ax = t.ax /\ u.fails = t.fails /\ u.ioerr = t.ioerr /\ u.cf = t.cf /\ u.dirty = TRUE
      /\ u.ios = t.ios
  BY <1>1, <1>2, <1>3 DEF Storing, Table
<1>5. Loaded(u) = Loaded(t)
  BY <1>4 DEF Loaded
<1>6. /\ t.window = [d \in Loaded(t) |-> t.window[d]]
      /\ DOMAIN W = Loaded(t) /\ W[c] = e /\ \A d \in Loaded(t) : d # c => W[d] = t.window[d]
  <2>1. t.window \in Windows /\ c \in DOMAIN t.window
    BY <1>3, TableHas
  <2>2. t.window = [d \in DOMAIN t.window |-> t.window[d]]
    <3>1. t.window # <<>>
      BY <2>1
    <3>2. t.window \in UNION {[InSector(s) -> Entry] : s \in FatSectors}
      BY <2>1, <3>1 DEF Windows
    <3>3. PICK Z \in {[InSector(s) -> Entry] : s \in FatSectors} : t.window \in Z
      BY <3>2
    <3>4. PICK s \in FatSectors : t.window \in [InSector(s) -> Entry]
      BY <3>3
    <3> QED BY <3>4
  <2> QED BY <1>1, <1>3, <2>2
<1>7. W \in [InSector(t.sector) -> Entry]
  <2>1. W = [d \in Loaded(t) |-> W[d]]
    BY <1>1, <1>6
  <2>2. \A d \in Loaded(t) : W[d] \in Entry
    BY <1>3, <1>6
  <2> QED BY <1>3, <2>1, <2>2
<1>8. W \in Windows
  BY <1>3, <1>7 DEF Windows
<1>9. u \in Table
  BY <1>1, <1>2, <1>3, <1>8 DEF Storing, Table, Windows
<1>10. Mirrored(u)
  BY <1>3, <1>4, <1>5 DEF Mirrored
<1>11. u \in Tables
  BY <1>4, <1>5, <1>6, <1>9, <1>10, TableOf DEF Sound
<1>12. View(u) = [View(t) EXCEPT ![c] = e]
  <2>1. ASSUME NEW d \in Clusters PROVE View(u)[d] = IF d = c THEN e ELSE View(t)[d]
    <3>1. View(u)[d] = IF d \in Loaded(t) THEN W[d] ELSE t.copies[1][d]
      BY <1>4, <1>6, ViewIs
    <3>2. View(t)[d] = IF d \in Loaded(t) THEN t.window[d] ELSE t.copies[1][d]
      BY <1>3, ViewIs
    <3> QED BY <1>3, <1>6, <3>1, <3>2
  <2> QED BY <2>1, ViewIs
<1> QED BY <1>2, <1>4, <1>11, <1>12

(* What a store of e at c does, as far as the transfers let it. *)
Stored(t, u, c, e) ==
    /\ u \in Tables /\ u.hint = t.hint /\ u.fails = t.fails /\ u.ax = t.ax
    /\ Onwards(t, u)
    /\ \/ View(u) = [View(t) EXCEPT ![c] = e] /\ u.sector = SectorOf(c)
       \/ View(u) = View(t) /\ u.ioerr /\ Broken(u) /\ t.sector # SectorOf(c)
    /\ t.fails = {} => View(u) = [View(t) EXCEPT ![c] = e] /\ u.ioerr = t.ioerr

(* fat_set *)
LEMMA FatSetIs ==
  ASSUME NEW t \in Tables, NEW c \in Clusters, NEW e \in Entry
  PROVE  Stored(t, FatSet(t, c, e), c, e)
<1>1. PICK u : u = FatSet(t, c, e)
  OBVIOUS
<1>2. PICK w : w = WindowLoad(t, SectorOf(c))
  OBVIOUS
<1>3. /\ Kept(t, w) /\ w.cf \in BOOLEAN /\ w.ax = t.ax
      /\ ~w.cf => w.sector = SectorOf(c) /\ w.ioerr = t.ioerr
      /\ w.cf => Broken(w) /\ t.sector # SectorOf(c)
      /\ t.fails = {} => ~w.cf
  BY <1>2, WindowLoadIs, SectorsAre
<1>4. w \in Tables /\ View(w) = View(t) /\ w.hint = t.hint /\ w.fails = t.fails /\ Onwards(t, w)
  BY <1>3 DEF Kept
<1>5. CASE w.cf
  <2>1. u = [w EXCEPT !.ioerr = TRUE]
    BY <1>1, <1>2, <1>5 DEF FatSet
  <2>2. PICK f \in BOOLEAN : f = TRUE
    OBVIOUS
  <2>3. u = Registers(w, w.ax, w.cf, w.ios, f, w.fails)
    <3>1. w \in Table
      BY <1>4, TableHas
    <3> QED BY <2>1, <2>2, <3>1 DEF Registers, Table
  <2>4. w.ax \in Entry /\ w.ios \in Nat /\ w.fails \in SUBSET Nat /\ f \in BOOLEAN
    BY <1>4, <2>2, TableHas
  <2>5. /\ u \in Tables /\ SameTable(w, u) /\ View(u) = View(w) /\ u.ax = w.ax /\ u.fails = w.fails
        /\ u.ioerr = f /\ u.ios = w.ios
    BY <1>3, <1>4, <2>3, <2>4, RegistersKeep
  <2>6. Onwards(t, u) /\ Broken(u) /\ u.ioerr
    BY <1>3, <1>4, <1>5, <2>2, <2>5 DEF Onwards, SameTable, Broken
  <2> QED BY <1>1, <1>3, <1>4, <1>5, <2>5, <2>6 DEF Stored, SameTable
<1>6. CASE ~w.cf
  <2>1. u = Storing(w, c, e)
    BY <1>1, <1>2, <1>6 DEF FatSet, Storing
  <2>2. /\ u \in Tables /\ View(u) = [View(w) EXCEPT ![c] = e]
        /\ u.hint = w.hint /\ u.fails = w.fails /\ u.ioerr = w.ioerr /\ u.ax = w.ax
        /\ u.sector = w.sector /\ u.copies = w.copies /\ u.ios = w.ios
    BY <1>3, <1>4, <1>6, <2>1, StoringIs
  <2>3. Onwards(t, u)
    BY <1>4, <2>2 DEF Onwards
  <2> QED BY <1>1, <1>3, <1>4, <1>6, <2>2, <2>3 DEF Stored
<1> QED BY <1>3, <1>5, <1>6

(* flush_fat: when it answers success, every copy is the table. *)
LEMMA FlushFatIs ==
  ASSUME NEW t \in Tables
  PROVE  LET u == FlushFat(t) IN
         /\ u \in Tables /\ View(u) = View(t) /\ u.hint = t.hint /\ u.fails = t.fails
         /\ u.cf \in BOOLEAN /\ ~u.ioerr /\ u.sector = t.sector /\ u.ios >= t.ios
         /\ u.copies[1] \in {t.copies[1], View(t)}
         /\ t.ioerr => u.cf
         /\ u.cf => t.ioerr \/ Broken(u)
         /\ ~u.cf => \A i \in 1 .. knum_fats : u.copies[i] = View(t)
         /\ t.fails = {} /\ ~t.ioerr => ~u.cf
<1>1. PICK w : w = WindowFlush(t)
  OBVIOUS
<1>2. PICK u : u = FlushFat(t)
  OBVIOUS
<1>3. /\ Kept(t, w) /\ w.cf \in BOOLEAN /\ w.dirty = w.cf
      /\ (w.cf => w.ioerr) /\ (~w.cf => w.ioerr = t.ioerr) /\ (t.fails = {} => ~w.cf)
      /\ w.sector = t.sector /\ (w.cf => Broken(w))
  BY <1>1, WindowFlushIs
<1>4. /\ w \in Tables /\ w \in Table /\ w.ioerr \in BOOLEAN /\ w.ax \in Entry /\ w.ios \in Nat
      /\ w.fails \in SUBSET Nat
  BY <1>3, TableHas DEF Kept
<1>5. PICK f \in BOOLEAN : f = FALSE
  OBVIOUS
<1>6. u = Registers(w, w.ax, w.ioerr, w.ios, f, w.fails)
  BY <1>1, <1>2, <1>4, <1>5 DEF FlushFat, Registers, Table
<1>7. /\ u \in Tables /\ SameTable(w, u) /\ View(u) = View(w)
      /\ u.cf = w.ioerr /\ u.ioerr = f /\ u.fails = w.fails /\ u.ios = w.ios
  BY <1>4, <1>5, <1>6, RegistersKeep
<1>8. ~u.cf => \A i \in 1 .. knum_fats : u.copies[i] = View(t)
  <2> SUFFICES ASSUME ~u.cf, NEW i \in 1 .. knum_fats PROVE u.copies[i] = View(t)
    OBVIOUS
  <2>1. ~w.dirty
    BY <1>3, <1>7
  <2>2. w.copies[i] = View(w)
    BY <1>4, <2>1, CleanView
  <2> QED BY <1>3, <1>7, <2>2 DEF Kept, SameTable
<1>9. (t.fails = {} /\ ~t.ioerr) => ~u.cf
  BY <1>3, <1>7
<1>10. /\ u.sector = t.sector /\ u.ios >= t.ios /\ u.copies[1] \in {t.copies[1], View(t)}
       /\ View(u) = View(t) /\ u.hint = t.hint /\ u.fails = t.fails
  BY <1>3, <1>7 DEF Kept, SameTable, Onwards
<1>11. /\ t.ioerr => u.cf
       /\ u.cf => t.ioerr \/ Broken(u)
       /\ u.cf \in BOOLEAN /\ ~u.ioerr
  <2>1. t.ioerr => w.ioerr
    BY <1>3 DEF Kept, Onwards
  <2>2. w.ioerr => t.ioerr \/ Broken(w)
    BY <1>3
  <2>3. Broken(w) <=> Broken(u)
    BY <1>7 DEF Broken
  <2> QED BY <1>4, <1>5, <1>7, <2>1, <2>2, <2>3
<1> QED BY <1>2, <1>7, <1>8, <1>9, <1>10, <1>11

-----------------------------------------------------------------------------
(* The search for a free cluster *)

(* The remainders that the search for a free cluster uses. *)
LEMMA Remainders ==
  ASSUME NEW n \in Nat, n > 0, NEW a \in Nat
  PROVE  /\ a % n \in 0 .. n - 1
         /\ a < n => a % n = a
         /\ a >= n /\ a < n + n => a % n = a - n
<1>1. a % n \in 0 .. n - 1
  OBVIOUS
<1>2. a = n * (a \div n) + (a % n) /\ a \div n \in Nat
  OBVIOUS
<1> DEFINE q == a \div n
           r == a % n
<1>3. q \in Nat /\ r \in 0 .. n - 1 /\ a = n * q + r
  BY <1>1, <1>2
<1> HIDE DEF q, r
<1>4. q # 0 => n * q >= n
  BY <1>3
<1>5. q = 0 => n * q = 0
  BY <1>3
<1>6. q = 1 => n * q = n
  BY <1>3
<1>7. q # 0 /\ q # 1 => n * q >= n + n
  BY <1>3
<1>8. (a < n => r = a) /\ (a >= n /\ a < n + n => r = a - n)
  BY <1>3, <1>4, <1>5, <1>6, <1>7
<1> QED BY <1>1, <1>8 DEF r

(* From any hint, the search comes to every cluster. *)
LEMMA AroundIs ==
  ASSUME NEW h \in Clusters
  PROVE  /\ SearchLength \in Nat /\ SearchLength > 0
         /\ \A k \in Nat : Around(h, k) \in Clusters
         /\ \A c \in Clusters : \E j \in 0 .. SearchLength - 1 : Around(h, j) = c
<1> DEFINE n == SearchLength
<1>1. n \in Nat /\ n > 0 /\ n = kmax_cluster - 2
  BY TableConstants DEF SearchLength
<1>2. h - 2 \in Nat /\ h - 2 < n /\ h \in Nat
  <2>1. h \in 2 .. kmax_cluster - 1 /\ kmax_cluster \in Nat
    BY TableConstants DEF Clusters
  <2> QED BY ONLY <1>1, <2>1
<1> HIDE DEF n
<1>3. ASSUME NEW k \in Nat PROVE Around(h, k) = 2 + ((h - 2 + k) % n) /\ h - 2 + k \in Nat
  BY <1>1, <1>2 DEF Around
<1>4. ASSUME NEW k \in Nat PROVE Around(h, k) \in Clusters
  <2>1. (h - 2 + k) % n \in 0 .. n - 1
    BY <1>1, <1>3, Remainders
  <2> QED BY <1>1, <1>3, <2>1, TableConstants DEF Clusters
<1>5. ASSUME NEW c \in Clusters PROVE \E j \in 0 .. n - 1 : Around(h, j) = c
  <2>1. c \in Nat /\ c - 2 \in Nat /\ c - 2 < n
    <3>1. c \in 2 .. kmax_cluster - 1 /\ kmax_cluster \in Nat
      BY TableConstants DEF Clusters
    <3> QED BY ONLY <1>1, <3>1
  <2>2. CASE c >= h
    <3>1. c - h \in 0 .. n - 1 /\ c - h \in Nat /\ h - 2 + (c - h) = c - 2
      BY <1>1, <1>2, <2>1, <2>2
    <3>2. (c - 2) % n = c - 2
      BY <1>1, <2>1, Remainders
    <3>3. Around(h, c - h) = 2 + (c - 2)
      BY <1>3, <3>1, <3>2
    <3> QED BY <2>1, <3>1, <3>3
  <2>3. CASE c < h
    <3>1. c - h + n \in 0 .. n - 1 /\ c - h + n \in Nat /\ h - 2 + (c - h + n) = c - 2 + n
      BY <1>1, <1>2, <2>1, <2>3
    <3>2. PICK a \in Nat : a = c - 2 + n /\ a % n = a - n
      <4>1. PICK a \in Nat : a = c - 2 + n
        BY <1>1, <2>1
      <4>2. a >= n /\ a < n + n
        BY <1>1, <2>1, <4>1
      <4>3. a % n = a - n
        BY <1>1, <4>2, Remainders
      <4> QED BY <4>1, <4>3
    <3>3. Around(h, c - h + n) = 2 + (c - 2 + n - n)
      <4>1. Around(h, c - h + n) = 2 + ((h - 2 + (c - h + n)) % n)
        BY <1>3, <3>1
      <4>2. h - 2 + (c - h + n) = a
        BY <3>1, <3>2
      <4>3. Around(h, c - h + n) = 2 + (a % n)
        BY ONLY <4>1, <4>2, Zenon
      <4>4. Around(h, c - h + n) = 2 + (a - n)
        BY ONLY <3>2, <4>3, Zenon
      <4> QED BY <1>1, <2>1, <3>2, <4>4
    <3> QED BY <1>1, <2>1, <3>1, <3>3
  <2> QED BY <1>2, <2>1, <2>2, <2>3
<1> QED BY <1>1, <1>4, <1>5 DEF n

SearchNext(p, c) == IF p.tab.ax = FREE THEN p ELSE [at |-> c, tab |-> FatNext(p.tab, c)]
SearchTurns(g, t) ==
    g = [k \in 0 .. SearchLength |->
            IF k = 0 THEN [at |-> t.hint, tab |-> [t EXCEPT !.ax = EOC]]
            ELSE SearchNext(g[k - 1], Around(t.hint, k - 1))]

Places == [at : Clusters, tab : Tables]

(* After k turns: a free cluster, or none of the first k is free. *)
Searched(t, p, k) ==
    /\ p \in Places /\ Kept(t, p.tab)
    /\ p.tab.ax = FREE => View(t)[p.at] = FREE /\ p.tab.sector = SectorOf(p.at)
    /\ t.fails = {} => IF p.tab.ax = FREE THEN View(t)[p.at] = FREE
                       ELSE \A j \in 0 .. k - 1 : View(t)[Around(t.hint, j)] # FREE

(* One more cluster looked at in the search for a free one. *)
LEMMA SearchNextIs ==
  ASSUME NEW t \in Tables, NEW p, NEW k \in Nat \ {0}, Searched(t, p, k - 1)
  PROVE  Searched(t, SearchNext(p, Around(t.hint, k - 1)), k)
<1>1. k - 1 \in Nat /\ t.hint \in Clusters
  BY TableHas
<1>2. PICK c \in Clusters : c = Around(t.hint, k - 1)
  BY <1>1, AroundIs
<1>3. PICK q : q = SearchNext(p, c)
  OBVIOUS
<1>4. CASE p.tab.ax = FREE
  BY <1>2, <1>3, <1>4 DEF Searched, SearchNext
<1>5. CASE p.tab.ax # FREE
  <2>1. PICK u : u = FatNext(p.tab, c)
    OBVIOUS
  <2>2. q = [at |-> c, tab |-> u]
    BY <1>3, <1>5, <2>1 DEF SearchNext
  <2>3. p.tab \in Tables /\ Kept(t, p.tab)
    BY DEF Searched, Kept
  <2>4. /\ Kept(p.tab, u) /\ u.ax \in Entry
        /\ u.cf \in BOOLEAN /\ (~u.cf => u.ax = View(p.tab)[c] /\ u.sector = SectorOf(c))
        /\ (u.cf => u.ax = EOC)
        /\ p.tab.fails = {} => u.ax = View(p.tab)[c]
    BY <2>1, <2>3, FatNextIs
  <2>5. Kept(t, u)
    BY <2>3, <2>4, KeptMore
  <2>6. q \in Places /\ q.tab = u /\ q.at = c
    BY <2>2, <2>5 DEF Places, Kept
  <2>7. t.fails = {} => u.ax = View(t)[c] /\ \A j \in 0 .. (k - 1) - 1 : View(t)[Around(t.hint, j)] # FREE
    BY <1>5, <2>3, <2>4 DEF Searched, Kept
  <2>8. \A j \in 0 .. k - 1 : j \in 0 .. (k - 1) - 1 \/ j = k - 1
    OBVIOUS
  <2>9. u.ax = FREE => View(t)[c] = FREE /\ u.sector = SectorOf(c)
    BY <2>3, <2>4, ClustersAre DEF Kept
  <2> QED BY <1>2, <1>3, <2>5, <2>6, <2>7, <2>8, <2>9 DEF Searched
<1> QED BY <1>4, <1>5

(* The search has looked at every cluster or has found a free one. *)
LEMMA SearchIs ==
  ASSUME NEW t \in Tables
  PROVE  \E g : SearchTurns(g, t) /\ \A h : SearchTurns(h, t) => Searched(t, h[SearchLength], SearchLength)
<1>1. SearchLength \in Nat /\ t.hint \in Clusters /\ EOC \in Entry /\ EOC # FREE
  BY AroundIs, TableHas, ClustersAre
<1>2. PICK e : e = Answering(t, EOC)
  OBVIOUS
<1>3. e \in Tables /\ Kept(t, e) /\ e.ax = EOC
  BY <1>1, <1>2, AnsweringIs DEF Kept, SameTable
<1>4. PICK b : b = [at |-> t.hint, tab |-> e]
  OBVIOUS
<1>5. Searched(t, b, 0)
  <2>1. b \in Places /\ b.tab = e
    BY <1>1, <1>3, <1>4 DEF Places
  <2>2. 0 .. 0 - 1 = {}
    OBVIOUS
  <2> QED BY <1>1, <1>3, <2>1, <2>2 DEF Searched
<1> DEFINE X == {p \in (0 .. SearchLength) \X Places : Searched(t, p[2], p[1])}
           S == [p \in Places \X (1 .. SearchLength) |-> SearchNext(p[1], Around(t.hint, p[2] - 1))]
<1>6. <<0, b>> \in X
  BY <1>1, <1>5 DEF Searched
<1>7. ASSUME NEW k \in 0 + 1 .. SearchLength, NEW x, <<k - 1, x>> \in X
      PROVE  /\ S[<<x, k>>] = SearchNext(x, Around(t.hint, k - 1))
             /\ <<k, SearchNext(x, Around(t.hint, k - 1))>> \in X
  <2>1. /\ Searched(t, x, k - 1) /\ x \in Places /\ k \in 1 .. SearchLength /\ k \in 0 .. SearchLength
        /\ k \in Nat \ {0}
    BY <1>1, <1>7
  <2>2. Searched(t, SearchNext(x, Around(t.hint, k - 1)), k)
    BY <2>1, SearchNextIs
  <2> QED BY <2>1, <2>2 DEF Searched
<1> HIDE DEF X, S
<1>8. PICK g : Turns(g, X, 0, SearchLength, b, S)
  <2>1. \A k \in 0 + 1 .. SearchLength : \A x : <<k - 1, x>> \in X => <<k, S[<<x, k>>]>> \in X
    BY <1>7
  <2>2. 0 \in Nat /\ SearchLength \in Nat /\ 0 <= SearchLength
    BY <1>1
  <2> QED BY ONLY <1>6, <2>1, <2>2, TurnsExist
<1>9. SearchTurns(g, t)
  <2>1. ASSUME NEW i \in 0 .. SearchLength, i # 0
        PROVE  g[i] = SearchNext(g[i - 1], Around(t.hint, i - 1))
    <3>1. i \in 0 + 1 .. SearchLength /\ i - 1 \in 0 .. SearchLength
      BY <1>1, <2>1
    <3>2. <<i - 1, g[i - 1]>> \in X /\ g[i] = S[<<g[i - 1], i>>]
      BY <1>8, <3>1 DEF Turns
    <3> QED BY <1>7, <3>1, <3>2
  <2>2. g = [i \in 0 .. SearchLength |-> g[i]] /\ g[0] = b
    BY <1>8 DEF Turns
  <2>3. g = [i \in 0 .. SearchLength |-> IF i = 0 THEN b ELSE SearchNext(g[i - 1], Around(t.hint, i - 1))]
    BY <2>1, <2>2
  <2> QED BY <1>2, <1>4, <2>3 DEF SearchTurns, Answering
<1>10. ASSUME NEW c, SearchTurns(c, t) PROVE Searched(t, c[SearchLength], SearchLength)
  <2> DEFINE I == {k \in 0 .. SearchLength : <<k, c[k]>> \in X}
  <2>1. 0 \in I
    <3>1. c[0] = b
      BY <1>1, <1>2, <1>4, <1>10 DEF SearchTurns, Answering
    <3> QED BY <1>1, <1>6, <3>1
  <2>2. ASSUME NEW k \in 0 + 1 .. SearchLength, k - 1 \in I PROVE k \in I
    <3>1. k \in 0 .. SearchLength /\ k # 0 /\ k - 1 \in 0 .. SearchLength
      BY <1>1
    <3>2. c[k] = SearchNext(c[k - 1], Around(t.hint, k - 1))
      BY <1>10, <3>1 DEF SearchTurns
    <3>3. <<k - 1, c[k - 1]>> \in X
      BY <2>2
    <3> QED BY <1>7, <3>1, <3>2, <3>3
  <2> HIDE DEF I
  <2>3. SearchLength \in I
    BY <1>1, <2>1, <2>2, Upwards
  <2>4. <<SearchLength, c[SearchLength]>> \in X
    BY <2>3 DEF I
  <2> QED BY <2>4 DEF X
<1> QED BY <1>9, <1>10

Took(p) == IF p.tab.ax # FREE THEN [p.tab EXCEPT !.cf = TRUE]
           ELSE [FatSet(p.tab, p.at, EOC) EXCEPT !.ax = p.at, !.hint = NextHint(p.at), !.cf = FALSE]

(* fat_alloc *)
Allocates(t, u) ==
    /\ u \in Tables /\ u.fails = t.fails /\ u.cf \in BOOLEAN
    /\ ~u.cf => /\ u.ax \in Clusters
                /\ View(t)[u.ax] = FREE /\ View(u) = [View(t) EXCEPT ![u.ax] = EOC]
    /\ u.cf => View(u) = View(t)
    /\ Onwards(t, u)
    /\ t.fails = {} =>
          /\ u.ioerr = t.ioerr
          /\ u.cf => \A c \in Clusters : View(t)[c] # FREE

(* What the search found is taken, or none is. *)
LEMMA TookIs ==
  ASSUME NEW t \in Tables, NEW p, Searched(t, p, SearchLength)
  PROVE  Allocates(t, Took(p))
<1>1. PICK u : u = Took(p)
  OBVIOUS
<1>2. PICK w \in Tables : w = p.tab
  BY DEF Searched, Places
<1>3. Kept(t, w) /\ p.at \in Clusters
  BY <1>2 DEF Searched, Places
<1>4. CASE w.ax # FREE
  <2>1. PICK f \in BOOLEAN : f = TRUE
    OBVIOUS
  <2>2. u = Registers(w, w.ax, f, w.ios, w.ioerr, w.fails)
    <3>1. w \in Table
      BY TableHas
    <3>2. u = [w EXCEPT !.cf = TRUE]
      BY <1>1, <1>2, <1>4 DEF Took
    <3> QED BY <2>1, <3>1, <3>2 DEF Registers, Table
  <2>3. w.ax \in Entry /\ w.ios \in Nat /\ w.fails \in SUBSET Nat /\ w.ioerr \in BOOLEAN
        /\ f \in BOOLEAN /\ w \in Tables
    BY <1>2, <2>1, TableHas
  <2>4. /\ u \in Tables /\ SameTable(w, u) /\ View(u) = View(w)
        /\ u.ax = w.ax /\ u.cf = f /\ u.ioerr = w.ioerr /\ u.fails = w.fails /\ u.ios = w.ios
    BY ONLY <2>2, <2>3, RegistersKeep
  <2>5. ASSUME t.fails = {}, NEW c \in Clusters PROVE View(t)[c] # FREE
    <3>1. PICK j \in 0 .. SearchLength - 1 : Around(t.hint, j) = c
      BY AroundIs, TableHas
    <3> QED BY <1>2, <1>4, <2>5, <3>1 DEF Searched
  <2>6. Onwards(t, u)
    BY <1>3, <2>4 DEF Kept, Onwards, SameTable
  <2> QED BY <1>1, <1>3, <2>1, <2>4, <2>5, <2>6 DEF Allocates, Kept
<1>5. CASE w.ax = FREE
  <2>1. PICK c \in Clusters : c = p.at
    BY <1>3
  <2>2. PICK x : x = FatSet(w, c, EOC)
    OBVIOUS
  <2>3. Stored(w, x, c, EOC)
    BY <2>2, FatSetIs, ClustersAre
  <2>4. x \in Tables /\ x \in Table /\ Sound(x) /\ c \in Entry
    BY <2>3, TableHas, ClustersAre DEF Stored
  <2>5. PICK n \in Clusters : n = NextHint(c)
    BY AroundIs DEF NextHint
  <2>6. u = [x EXCEPT !.ax = c, !.hint = n, !.cf = FALSE]
    BY <1>1, <1>2, <1>5, <2>1, <2>2, <2>5 DEF Took
  <2>7. u \in Table
    BY <2>4, <2>6 DEF Table
  <2>8. /\ u.copies = x.copies /\ u.sector = x.sector /\ u.window = x.window /\ u.dirty = x.dirty
        /\ u.ioerr = x.ioerr /\ u.fails = x.fails /\ u.ax = c /\ u.cf = FALSE /\ u.ios = x.ios
    BY <2>4, <2>6 DEF Table
  <2>9. Sound(u) /\ View(u) = View(x)
    BY <2>4, <2>8 DEF Sound, Mirrored, Loaded, View
  <2>10. u \in Tables
    BY <2>7, <2>9, TableOf
  <2>11. View(t)[c] = FREE /\ w.sector = SectorOf(c)
    BY <1>2, <1>5, <2>1 DEF Searched
  <2>12. View(x) = [View(t) EXCEPT ![c] = EOC]
    BY <1>3, <2>3, <2>11 DEF Stored, Kept
  <2>13. Onwards(t, u)
    <3>1. t.ios \in Nat /\ w.ios \in Nat /\ x.ios \in Nat
      BY <2>4, TableHas
    <3>2. Onwards(t, w) /\ Onwards(w, x) /\ View(w) = View(t)
      BY <1>3, <2>3 DEF Kept, Stored
    <3> QED BY <2>8, <3>1, <3>2 DEF Onwards
  <2> QED BY <1>1, <1>3, <2>1, <2>3, <2>8, <2>9, <2>10, <2>11, <2>12, <2>13 DEF Allocates, Kept, Stored
<1> QED BY <1>4, <1>5

(* fat_alloc: a free cluster becomes the end of a chain, or none is free,  *)
(* or a transfer fails.                                                    *)
LEMMA FatAllocIs == ASSUME NEW t \in Tables PROVE Allocates(t, FatAlloc(t))
<1> DEFINE c == CHOOSE h : SearchTurns(h, t)
<1>1. SearchTurns(c, t) /\ Searched(t, c[SearchLength], SearchLength)
  BY SearchIs
<1>2. FatAlloc(t) = Took(c[SearchLength])
  BY DEF FatAlloc, SearchTurns, SearchNext, Took
<1> HIDE DEF c
<1> QED BY <1>1, <1>2, TookIs

-----------------------------------------------------------------------------
(* Freeing a chain *)

FreeNext(u) ==
    IF u.ax \notin Clusters THEN u
    ELSE [FatSet(FatNext(u, u.ax), u.ax, FREE) EXCEPT !.ax = FatNext(u, u.ax).ax]

(* One turn of fat_free_chain: the entry is free, and AX is the next       *)
(* cluster.                                                                *)
LEMMA FreeNextIs ==
  ASSUME NEW u \in Tables
  PROVE  LET v == FreeNext(u) IN
         /\ v \in Tables /\ v.hint = u.hint /\ v.fails = u.fails
         /\ u.ax \notin Clusters => v = u
         /\ Onwards(u, v)
         /\ u.ax \in Clusters =>
               /\ \/ View(v) = [View(u) EXCEPT ![u.ax] = FREE]
                  \/ View(v) = View(u) /\ v.ioerr /\ Broken(v)
               /\ v.ax \in {View(u)[u.ax], EOC} /\ (v.ax # View(u)[u.ax] => Broken(v))
         /\ u.ax \in Clusters /\ u.fails = {} =>
               /\ View(v) = [View(u) EXCEPT ![u.ax] = FREE]
               /\ v.ax = View(u)[u.ax]
               /\ v.ioerr = u.ioerr
<1>1. PICK v : v = FreeNext(u)
  OBVIOUS
<1>2. CASE u.ax \notin Clusters
  <2>1. v = u /\ u.ios \in Nat
    BY <1>1, <1>2, TableHas DEF FreeNext
  <2>2. Onwards(u, v)
    BY <2>1 DEF Onwards
  <2> QED BY <1>1, <1>2, <2>1, <2>2
<1>3. CASE u.ax \in Clusters
  <2>1. PICK d \in Clusters : d = u.ax
    BY <1>3
  <2>2. PICK w : w = FatNext(u, d)
    OBVIOUS
  <2>3. PICK x : x = FatSet(w, d, FREE)
    OBVIOUS
  <2>4. /\ Kept(u, w) /\ w.ax \in Entry
        /\ u.fails = {} => w.ax = View(u)[d]
        /\ w.ax \in {View(u)[d], EOC} /\ (w.ax # View(u)[d] => Broken(w))
    BY <2>2, FatNextIs
  <2>5. Stored(w, x, d, FREE)
    <3>1. w \in Tables /\ FREE \in Entry
      BY <2>4, ClustersAre DEF Kept
    <3> QED BY <2>3, <3>1, FatSetIs
  <2>6. v = Answering(x, w.ax)
    BY <1>1, <1>3, <2>1, <2>2, <2>3 DEF FreeNext, Answering
  <2>7. x \in Tables
    BY <2>5 DEF Stored
  <2>8. /\ v \in Tables /\ SameTable(x, v) /\ View(v) = View(x)
        /\ v.ioerr = x.ioerr /\ v.fails = x.fails /\ v.ax = w.ax /\ v.ios = x.ios
    BY <2>4, <2>6, <2>7, AnsweringIs
  <2>9. w \in Tables /\ Onwards(u, w) /\ Onwards(w, x) /\ View(w) = View(u)
    BY <2>4, <2>5 DEF Kept, Stored
  <2>10. Broken(x) <=> Broken(v)
    BY <2>8 DEF Broken
  <2>11. w.ax # View(u)[d] => Broken(v)
    BY <2>4, <2>7, <2>9, <2>10, BrokenStays
  <2>12. Onwards(u, v)
    <3>1. u.ios \in Nat /\ w.ios \in Nat /\ x.ios \in Nat
      BY <2>7, <2>9, TableHas
    <3> QED BY <2>8, <2>9, <3>1 DEF Onwards, SameTable
  <2>13. \/ View(v) = [View(u) EXCEPT ![d] = FREE]
         \/ View(v) = View(u) /\ v.ioerr /\ Broken(v)
    BY <2>5, <2>8, <2>9, <2>10 DEF Stored
  <2>14. /\ v \in Tables /\ v.hint = u.hint /\ v.fails = u.fails
         /\ u.fails = {} => /\ View(v) = [View(u) EXCEPT ![d] = FREE]
                            /\ v.ax = View(u)[d] /\ v.ioerr = u.ioerr
    BY <2>4, <2>5, <2>8 DEF Stored, Kept, SameTable
  <2>15. v.ax \in {View(u)[d], EOC} /\ (v.ax # View(u)[d] => Broken(v))
    BY <2>4, <2>8, <2>11
  <2> QED BY <1>1, <2>1, <2>12, <2>13, <2>14, <2>15
<1> QED BY <1>2, <1>3, TableHas

NClusters == Cardinality(Clusters)

(* There are finitely many clusters. *)
LEMMA ClustersFinite == IsFiniteSet(Clusters) /\ NClusters \in Nat
<1>1. IsFiniteSet(Clusters)
  BY TableConstants, FS_Interval DEF Clusters
<1> QED BY <1>1, FS_CardinalityType DEF NClusters

FreeTurns(g, t, c) ==
    g = [k \in 0 .. NClusters |-> IF k = 0 THEN [t EXCEPT !.ax = c] ELSE FreeNext(g[k - 1])]

SameBounds(t, u) == u \in Tables /\ u.hint = t.hint /\ u.fails = t.fails

(* Every turn of fat_free_chain leaves a table. *)
LEMMA FreeTurnsTypes ==
  ASSUME NEW t \in Tables, NEW c \in Entry, NEW g, FreeTurns(g, t, c)
  PROVE  \A k \in 0 .. NClusters : SameBounds(t, g[k])
<1> DEFINE I == {k \in 0 .. NClusters : SameBounds(t, g[k])}
<1>1. 0 \in I
  <2>1. g[0] = Answering(t, c)
    BY ClustersFinite DEF FreeTurns, Answering
  <2>2. SameBounds(t, g[0])
    BY <2>1, AnsweringIs DEF SameBounds, SameTable
  <2> QED BY <2>2, ClustersFinite
<1>2. ASSUME NEW k \in 0 + 1 .. NClusters, k - 1 \in I PROVE k \in I
  <2>1. k \in 0 .. NClusters /\ k # 0 /\ k - 1 \in 0 .. NClusters
    BY ClustersFinite
  <2>2. g[k] = FreeNext(g[k - 1])
    BY <2>1 DEF FreeTurns
  <2>3. SameBounds(t, g[k - 1])
    BY <1>2
  <2>4. SameBounds(t, g[k])
    BY <2>2, <2>3, FreeNextIs DEF SameBounds
  <2> QED BY <2>1, <2>4
<1> HIDE DEF I
<1>3. \A k \in 0 .. NClusters : k \in I
  BY <1>1, <1>2, ClustersFinite, Upwards
<1> QED BY <1>3 DEF I

(* fat_free_chain is its last turn. *)
LEMMA FreeTurnsExist ==
  ASSUME NEW t \in Tables, NEW c \in Entry
  PROVE  \E g : FreeTurns(g, t, c) /\ FreeChain(t, c) = g[NClusters]
<1>1. PICK b : b = Answering(t, c)
  OBVIOUS
<1> DEFINE X == (0 .. NClusters) \X Tables
           S == [p \in Tables \X (1 .. NClusters) |-> FreeNext(p[1])]
<1>2. <<0, b>> \in X
  BY <1>1, AnsweringIs, ClustersFinite
<1>3. ASSUME NEW k \in 0 + 1 .. NClusters, NEW x, <<k - 1, x>> \in X
      PROVE  S[<<x, k>>] = FreeNext(x) /\ <<k, FreeNext(x)>> \in X
  <2>1. x \in Tables /\ k \in 1 .. NClusters /\ k \in 0 .. NClusters
    BY <1>3, ClustersFinite
  <2>2. FreeNext(x) \in Tables
    BY <2>1, FreeNextIs
  <2> QED BY <2>1, <2>2
<1> HIDE DEF X, S
<1>4. PICK g : Turns(g, X, 0, NClusters, b, S)
  <2>1. \A k \in 0 + 1 .. NClusters : \A x : <<k - 1, x>> \in X => <<k, S[<<x, k>>]>> \in X
    BY <1>3
  <2>2. 0 \in Nat /\ NClusters \in Nat /\ 0 <= NClusters
    BY ClustersFinite
  <2> QED BY ONLY <1>2, <2>1, <2>2, TurnsExist
<1>5. FreeTurns(g, t, c)
  <2>1. ASSUME NEW i \in 0 .. NClusters, i # 0 PROVE g[i] = FreeNext(g[i - 1])
    <3>1. i \in 0 + 1 .. NClusters /\ i - 1 \in 0 .. NClusters
      BY <2>1, ClustersFinite
    <3>2. <<i - 1, g[i - 1]>> \in X /\ g[i] = S[<<g[i - 1], i>>]
      BY <1>4, <3>1 DEF Turns
    <3> QED BY <1>3, <3>1, <3>2
  <2>2. g = [i \in 0 .. NClusters |-> g[i]] /\ g[0] = b
    BY <1>4 DEF Turns
  <2>3. g = [i \in 0 .. NClusters |-> IF i = 0 THEN b ELSE FreeNext(g[i - 1])]
    BY <2>1, <2>2
  <2> QED BY <1>1, <2>3 DEF FreeTurns, Answering
<1> DEFINE h == CHOOSE z : FreeTurns(z, t, c)
<1>6. FreeTurns(h, t, c)
  BY <1>5
<1>7. FreeChain(t, c) = h[NClusters]
  BY DEF FreeChain, FreeTurns, FreeNext, NClusters
<1> QED BY <1>6, <1>7

(* fat_free_chain leaves a table. *)
LEMMA FreeChainTypes ==
  ASSUME NEW t \in Tables, NEW c \in Entry
  PROVE  SameBounds(t, FreeChain(t, c))
<1>1. PICK g : FreeTurns(g, t, c) /\ FreeChain(t, c) = g[NClusters]
  BY FreeTurnsExist
<1>2. NClusters \in 0 .. NClusters
  BY ClustersFinite
<1> QED BY <1>1, <1>2, FreeTurnsTypes

(* S is a chain from c, and pos says where in it each cluster stands. *)
ChainFrom(F, S, pos, c) ==
    /\ S \in SUBSET Clusters /\ pos \in [S -> Nat] /\ c \in S /\ pos[c] = 0
    /\ \A x \in S : F[x] = EOC \/ (F[x] \in S /\ pos[F[x]] = pos[x] + 1)
    /\ \A x, y \in S : pos[x] = pos[y] => x = y
    /\ \A x \in S : pos[x] # 0 => \E p \in S : pos[p] + 1 = pos[x] /\ F[p] = x
    /\ \A x \in S : pos[x] < NClusters

(* After k turns of freeing: the clusters before the k-th may be free, and *)
(* are unless a transfer failed.                                           *)
FreedUpTo(t, u, S, pos, c, k) ==
    /\ SameBounds(t, u) /\ u.ios >= t.ios /\ (t.ioerr => u.ioerr)
    /\ u.ax = EOC \/ (u.ax \in S /\ pos[u.ax] = k)
    /\ \A x \in Clusters : \/ View(u)[x] = View(t)[x]
                           \/ x \in S /\ View(u)[x] = FREE /\ pos[x] < k
    /\ ~Broken(u) => \A x \in S : /\ pos[x] < k => View(u)[x] = FREE
                                  /\ pos[x] = k => u.ax = x
    /\ k = 0 => u.ax = c
    /\ ~u.ioerr /\ k # 0 => View(u)[c] = FREE
    /\ \/ u.copies[1] = t.copies[1]
       \/ \A x \in Clusters \ S : u.copies[1][x] = View(t)[x]

(* One more cluster of the chain freed. *)
LEMMA FreedStep ==
  ASSUME NEW t \in Tables, NEW u, NEW S, NEW pos, NEW c, NEW k \in Nat,
         ChainFrom(View(t), S, pos, c), FreedUpTo(t, u, S, pos, c, k)
  PROVE  FreedUpTo(t, FreeNext(u), S, pos, c, k + 1)
<1>1. PICK v : v = FreeNext(u)
  OBVIOUS
<1>2. /\ u \in Tables /\ u.hint = t.hint /\ u.fails = t.fails /\ u.ios >= t.ios /\ (t.ioerr => u.ioerr)
      /\ u.ax = EOC \/ (u.ax \in S /\ pos[u.ax] = k)
      /\ S \subseteq Clusters /\ c \in S /\ pos[c] = 0 /\ \A x \in S : pos[x] \in Nat
  BY DEF FreedUpTo, SameBounds, ChainFrom
<1>3. /\ v \in Tables /\ v.hint = u.hint /\ v.fails = u.fails /\ Onwards(u, v)
      /\ u.ax \notin Clusters => v = u
      /\ u.ax \in Clusters =>
            /\ \/ View(v) = [View(u) EXCEPT ![u.ax] = FREE]
               \/ View(v) = View(u) /\ v.ioerr /\ Broken(v)
            /\ v.ax \in {View(u)[u.ax], EOC} /\ (v.ax # View(u)[u.ax] => Broken(v))
  BY <1>1, <1>2, FreeNextIs
<1>4. SameBounds(t, v) /\ v.ios >= t.ios /\ (t.ioerr => v.ioerr) /\ (~Broken(v) => ~Broken(u))
  <2>1. t.ios \in Nat /\ u.ios \in Nat /\ v.ios \in Nat
    BY <1>2, <1>3, TableHas
  <2> QED BY <1>2, <1>3, <2>1, BrokenStays DEF SameBounds, Onwards
<1>5. /\ \A x \in Clusters : \/ View(u)[x] = View(t)[x]
                             \/ x \in S /\ View(u)[x] = FREE /\ pos[x] < k
      /\ ~Broken(u) => \A x \in S : /\ pos[x] < k => View(u)[x] = FREE
                                    /\ pos[x] = k => u.ax = x
      /\ k = 0 => u.ax = c
      /\ ~u.ioerr /\ k # 0 => View(u)[c] = FREE
      /\ \/ u.copies[1] = t.copies[1]
         \/ \A x \in Clusters \ S : u.copies[1][x] = View(t)[x]
  BY DEF FreedUpTo
<1>6. /\ \A x \in S : View(t)[x] = EOC \/ (View(t)[x] \in S /\ pos[View(t)[x]] = pos[x] + 1)
      /\ \A x, y \in S : pos[x] = pos[y] => x = y
      /\ \A x \in S : pos[x] # 0 => \E p \in S : pos[p] + 1 = pos[x] /\ View(t)[p] = x
  BY DEF ChainFrom
<1>7. \/ v.copies[1] = t.copies[1]
      \/ \A x \in Clusters \ S : v.copies[1][x] = View(t)[x]
  BY <1>3, <1>5 DEF Onwards
<1>8. CASE u.ax = EOC
  <2>1. v = u
    BY <1>3, <1>8, ClustersAre
  <2>2. ASSUME ~Broken(u), NEW x \in S PROVE pos[x] # k /\ pos[x] # k + 1
    <3>1. \A y \in S : pos[y] # k
      BY <1>2, <1>5, <1>8, <2>2, ClustersAre
    <3>2. ASSUME pos[x] = k + 1 PROVE FALSE
      <4>1. PICK p \in S : pos[p] + 1 = pos[x]
        BY <1>6, <3>2
      <4> QED BY <1>2, <3>1, <3>2, <4>1
    <3> QED BY <3>1, <3>2
  <2>3. ~Broken(u) => \A x \in S : /\ pos[x] < k + 1 => View(u)[x] = FREE
                                   /\ pos[x] = k + 1 => u.ax = x
    BY <1>2, <1>5, <2>2
  <2>4. \A x \in S : pos[x] < k => pos[x] < k + 1
    BY <1>2
  <2>5. k # 0
    BY <1>2, <1>5, <1>8, ClustersAre
  <2>6. \A x \in Clusters : \/ View(u)[x] = View(t)[x]
                            \/ x \in S /\ View(u)[x] = FREE /\ pos[x] < k + 1
    BY <1>5, <2>4
  <2>7. k + 1 # 0 /\ (~u.ioerr => View(u)[c] = FREE)
    BY <1>5, <2>5
  <2>8. FreedUpTo(t, u, S, pos, c, k + 1)
    BY ONLY Zenon, <1>4, <1>7, <1>8, <2>1, <2>3, <2>6, <2>7 DEF FreedUpTo
  <2> QED BY <1>1, <2>1, <2>8
<1>9. CASE u.ax # EOC
  <2>1. PICK d \in S : d = u.ax
    BY <1>2, <1>9
  <2>2. d \in Clusters /\ pos[d] = k /\ pos[d] \in Nat
    BY <1>2, <1>9, <2>1
  <2>3. View(u)[d] = View(t)[d]
    BY <1>5, <2>2
  <2>4. View(u) \in [Clusters -> Entry]
    BY <1>2, ViewTypes
  <2>5. /\ \/ View(v) = [View(u) EXCEPT ![d] = FREE]
           \/ View(v) = View(u) /\ v.ioerr /\ Broken(v)
        /\ v.ax \in {View(u)[d], EOC} /\ (v.ax # View(u)[d] => Broken(v))
    BY <1>3, <2>1, <2>2
  <2>6. v.ax = EOC \/ (v.ax \in S /\ pos[v.ax] = k + 1)
    BY <1>6, <2>2, <2>3, <2>5
  <2>7. ASSUME NEW x \in Clusters
        PROVE  \/ View(v)[x] = View(t)[x]
               \/ x \in S /\ View(v)[x] = FREE /\ pos[x] < k + 1
    <3>1. CASE View(v)[x] = View(u)[x]
      BY <1>2, <1>5, <3>1
    <3>2. CASE View(v)[x] # View(u)[x]
      <4>1. x = d /\ View(v)[x] = FREE
        BY <2>4, <2>5, <3>2
      <4> QED BY <2>1, <2>2, <4>1
    <3> QED BY <3>1, <3>2
  <2>8. ASSUME ~Broken(v), NEW x \in S
        PROVE  /\ pos[x] < k + 1 => View(v)[x] = FREE
               /\ pos[x] = k + 1 => v.ax = x
    <3>1. View(v) = [View(u) EXCEPT ![d] = FREE] /\ v.ax = View(t)[d] /\ ~Broken(u)
      BY <1>4, <2>3, <2>5, <2>8
    <3>2. x \in Clusters /\ pos[x] \in Nat
      BY <1>2
    <3>3. ASSUME pos[x] < k + 1 PROVE View(v)[x] = FREE
      <4>1. CASE pos[x] = k
        <5>1. x = d
          BY <1>6, <2>2, <4>1
        <5> QED BY <2>4, <3>1, <3>2, <5>1
      <4>2. CASE pos[x] # k
        <5>1. pos[x] < k
          BY <3>2, <3>3, <4>2
        <5>2. View(u)[x] = FREE
          BY <1>5, <3>1, <5>1
        <5> QED BY <2>4, <3>1, <3>2, <5>2
      <4> QED BY <4>1, <4>2
    <3>4. ASSUME pos[x] = k + 1 PROVE v.ax = x
      <4>1. PICK p \in S : pos[p] + 1 = pos[x] /\ View(t)[p] = x
        BY <1>6, <3>4
      <4>2. pos[p] = k
        BY <1>2, <3>4, <4>1
      <4>3. p = d
        BY <1>6, <2>2, <4>2
      <4> QED BY <3>1, <4>1, <4>3
    <3> QED BY <3>3, <3>4
  <2>9. ASSUME ~v.ioerr PROVE View(v)[c] = FREE
    <3>1. View(v) = [View(u) EXCEPT ![d] = FREE] /\ ~u.ioerr /\ c \in Clusters
      BY <1>2, <1>3, <2>5, <2>9 DEF Onwards
    <3>2. CASE c = d
      BY <2>4, <3>1, <3>2
    <3>3. CASE c # d
      <4>1. k # 0
        BY <1>5, <2>1, <3>3
      <4> QED BY <1>5, <2>4, <3>1, <3>3, <4>1
    <3> QED BY <3>2, <3>3
  <2>10. k + 1 # 0
    OBVIOUS
  <2>11. FreedUpTo(t, v, S, pos, c, k + 1)
    BY ONLY Zenon, <1>4, <1>7, <2>6, <2>7, <2>8, <2>9, <2>10 DEF FreedUpTo
  <2> QED BY <1>1, <2>11
<1> QED BY <1>8, <1>9

(* free_chain on a chain: its clusters are freed, all of them when no      *)
(* transfer fails, and the first when fat_io_error is not set.             *)
LEMMA FreeChainIs ==
  ASSUME NEW t \in Tables, NEW S, NEW pos, NEW c, ChainFrom(View(t), S, pos, c)
  PROVE  LET u == FreeChain(t, c) IN
         /\ SameBounds(t, u) /\ u.ios >= t.ios /\ (t.ioerr => u.ioerr)
         /\ \A x \in Clusters : View(u)[x] = View(t)[x] \/ (x \in S /\ View(u)[x] = FREE)
         /\ ~Broken(u) => \A x \in S : View(u)[x] = FREE
         /\ ~u.ioerr => View(u)[c] = FREE
         /\ \/ u.copies[1] = t.copies[1]
            \/ \A x \in Clusters \ S : u.copies[1][x] = View(t)[x]
<1>0. c \in Clusters /\ c \in Entry /\ c \in S /\ pos[c] = 0 /\ \A x \in S : pos[x] \in Nat /\ pos[x] < NClusters
  BY ClustersAre DEF ChainFrom
<1>1. PICK g : FreeTurns(g, t, c) /\ FreeChain(t, c) = g[NClusters]
  BY <1>0, FreeTurnsExist
<1> DEFINE I == {k \in 0 .. NClusters : FreedUpTo(t, g[k], S, pos, c, k)}
<1>2. 0 \in I
  <2>1. g[0] = Answering(t, c)
    BY <1>1, ClustersFinite DEF FreeTurns, Answering
  <2>2. /\ SameBounds(t, g[0]) /\ g[0].ax = c /\ View(g[0]) = View(t) /\ g[0].ios >= t.ios
        /\ (t.ioerr => g[0].ioerr) /\ g[0].copies[1] = t.copies[1]
    <3>1. /\ g[0] \in Tables /\ SameTable(t, g[0]) /\ View(g[0]) = View(t)
          /\ g[0].ioerr = t.ioerr /\ g[0].fails = t.fails /\ g[0].ax = c /\ g[0].ios = t.ios
      BY <1>0, <2>1, AnsweringIs
    <3> QED BY <3>1, TableHas DEF SameBounds, SameTable
  <2>3. \A x \in S : ~(pos[x] < 0) /\ (pos[x] = 0 => x = c)
    BY <1>0 DEF ChainFrom
  <2>4. FreedUpTo(t, g[0], S, pos, c, 0)
    BY Zenon, <1>0, <2>2, <2>3 DEF FreedUpTo
  <2> QED BY <2>4, ClustersFinite
<1>3. ASSUME NEW k \in 0 + 1 .. NClusters, k - 1 \in I PROVE k \in I
  <2>1. k \in 0 .. NClusters /\ k # 0 /\ k - 1 \in Nat /\ (k - 1) + 1 = k
    BY ClustersFinite
  <2>2. g[k] = FreeNext(g[k - 1])
    BY <1>1, <2>1 DEF FreeTurns
  <2>3. FreedUpTo(t, g[k - 1], S, pos, c, k - 1)
    BY <1>3
  <2>4. FreedUpTo(t, FreeNext(g[k - 1]), S, pos, c, (k - 1) + 1)
    BY <2>1, <2>3, FreedStep
  <2> QED BY <2>1, <2>2, <2>4
<1> HIDE DEF I
<1>4. NClusters \in I
  BY <1>2, <1>3, ClustersFinite, Upwards
<1>5. PICK u : u = FreeChain(t, c)
  OBVIOUS
<1>6. FreedUpTo(t, u, S, pos, c, NClusters)
  BY <1>1, <1>4, <1>5 DEF I
<1>7. NClusters # 0
  BY <1>0, ClustersFinite
<1> QED BY <1>0, <1>5, <1>6, <1>7 DEF FreedUpTo

(* In the table of a formatted volume every cluster is free. *)
LEMMA EmptyTableIs ==
  /\ EmptyTable \in Tables /\ ~EmptyTable.ioerr /\ EmptyTable.fails = {}
  /\ \A c \in Clusters : View(EmptyTable)[c] = FREE
<1>1. EmptyTable.window = <<>> /\ EmptyTable.sector = NoSector /\ ~EmptyTable.dirty
      /\ EmptyTable.copies = [i \in 1 .. knum_fats |-> [c \in Clusters |-> FREE]]
      /\ ~EmptyTable.ioerr /\ EmptyTable.fails = {}
  BY DEF EmptyTable
<1>2. EmptyTable \in Table
  BY ClustersAre DEF EmptyTable, Table
<1>3. Sound(EmptyTable)
  <2>1. Loaded(EmptyTable) = {} /\ DOMAIN EmptyTable.window = {}
    BY <1>1 DEF Loaded
  <2>2. Mirrored(EmptyTable)
    BY <1>1, TableConstants DEF Mirrored
  <2> QED BY <2>1, <2>2 DEF Sound
<1>4. \A c \in Clusters : View(EmptyTable)[c] = FREE
  <2>1. DOMAIN EmptyTable.window = {}
    BY <1>1
  <2> QED BY <1>1, <2>1, TableConstants DEF View
<1> QED BY <1>1, <1>2, <1>3, <1>4, TableOf

=============================================================================
