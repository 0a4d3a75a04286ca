-------------------------- MODULE HandleTableProofs --------------------------
(***************************************************************************)
(* Every root's reference count is exact, and no slot or unsaved file is   *)
(* lost, for any number of slots, files and programs inside one another,   *)
(* as long as the count's word can hold the references and files can be    *)
(* saved.                                                                  *)
(*                                                                         *)
(* The references to a root are counted as a set of pairs: <<0, h>> for a  *)
(* handle h in use, its own or an alias, and <<p, h>> for such a handle    *)
(* in the job file table of a process p that has inherited it.             *)
(***************************************************************************)
EXTENDS HandleTable, FunctionTheorems, SequenceTheorems, FiniteSetTheorems, WellFoundedInduction, TLAPS

Tables == [Handles -> Slot]
Jfts == Seq(SUBSET Handles)

Refers(t, h, r) == t[h].used = 1 /\ Root(t, h) = r
Inherits(t, J, p, h) == p \in 2 .. Len(J) /\ h \in J[p] /\ t[h].owner < p
RefSet(t, J, r) ==
    {x \in (0 .. Len(J)) \X Handles :
        Refers(t, x[2], r) /\ (x[1] = 0 \/ Inherits(t, J, x[1], x[2]))}

(* The counts of the slots t are exact for the job file tables J.          *)
AliasRight(t, r) == t[r].refs = 0 /\ Usable(t, r) /\ t[r].file = NONE
RootRight(t, J, r) ==
    t[r].refs = Cardinality(RefSet(t, J, r)) /\ t[r].refs > 0 /\ t[r].file # NONE
Counted(t, J) ==
    \A r \in Handles : t[r].used # 0 => IF IsAlias(t, r) THEN AliasRight(t, r) ELSE RootRight(t, J, r)

Owned(t, J) ==
    \A h \in Handles : t[h].used = 1 => t[h].owner \in 1 .. Len(J) /\ h \in J[t[h].owner]

(* The counts can be held in a word. *)
WordHolds == (MaxDepth + 2) * MAX_HANDLES < 65536

-----------------------------------------------------------------------------
(* Slots and sets of references *)

LEMMA Constants ==
  /\ MAX_HANDLES \in Nat /\ MAX_HANDLES > 0 /\ N_STD \in Nat /\ MaxDepth \in Nat
  /\ \A h \in Handles : h \in Nat /\ h \in Int /\ h < MAX_HANDLES /\ h # NONE
  /\ NONE \notin Nat /\ CON # NONE /\ CON \notin Files /\ NONE \notin Files
BY HandleAssumption DEF Handles

LEMMA SlotHas ==
  ASSUME NEW t \in Tables, NEW h \in Handles
  PROVE  /\ t[h] \in Slot /\ t[h].used \in 0 .. 2 /\ t[h].used \in Nat
         /\ t[h].alias \in Handles \cup {NONE} /\ t[h].refs \in Nat /\ t[h].owner \in Nat
         /\ t[h].file \in Files \cup {CON, NONE}
         /\ IsAlias(t, h) => t[h].alias \in Handles /\ Root(t, h) = t[h].alias
         /\ ~IsAlias(t, h) => Root(t, h) = h
         /\ Root(t, h) \in Handles
BY DEF Tables, Slot, IsAlias, Root

LEMMA JftHas ==
  ASSUME NEW J \in Jfts
  PROVE  /\ Len(J) \in Nat /\ DOMAIN J = 1 .. Len(J)
         /\ \A p \in 1 .. Len(J) : J[p] \subseteq Handles
BY DEF Jfts

LEMMA RefSetHas ==
  ASSUME NEW t, NEW J \in Jfts, NEW r
  PROVE  /\ \A p, h : <<p, h>> \in RefSet(t, J, r) <=>
                /\ p \in 0 .. Len(J) /\ h \in Handles
                /\ Refers(t, h, r) /\ (p = 0 \/ Inherits(t, J, p, h))
         /\ \A x \in RefSet(t, J, r) : x \in Nat \X Handles
<1>1. \A p \in 0 .. Len(J) : p \in Nat
  BY JftHas
<1> QED BY <1>1 DEF RefSet

LEMMA PairsEqual ==
  ASSUME NEW S, NEW T, S \subseteq Nat \X Handles, T \subseteq Nat \X Handles,
         \A p \in Nat, h \in Handles : <<p, h>> \in S <=> <<p, h>> \in T
  PROVE  S = T
<1>1. \A x \in Nat \X Handles : \E p \in Nat, h \in Handles : x = <<p, h>>
  OBVIOUS
<1> QED BY <1>1

LEMMA RefSetFinite ==
  ASSUME NEW t, NEW J \in Jfts, NEW r
  PROVE  /\ IsFiniteSet(RefSet(t, J, r)) /\ Cardinality(RefSet(t, J, r)) \in Nat
         /\ Cardinality(RefSet(t, J, r)) <= (Len(J) + 1) * MAX_HANDLES
<1>1. 0 \in Int /\ Len(J) \in Int /\ Len(J) \in Nat /\ MAX_HANDLES - 1 \in Int /\ MAX_HANDLES \in Nat
  BY JftHas, Constants
<1>2. IsFiniteSet(0 .. Len(J)) /\ Cardinality(0 .. Len(J)) = Len(J) + 1
  <2>1. IsFiniteSet(0 .. Len(J)) /\ Cardinality(0 .. Len(J)) = IF 0 > Len(J) THEN 0 ELSE Len(J) - 0 + 1
    BY <1>1, FS_Interval
  <2> QED BY <1>1, <2>1
<1>3. IsFiniteSet(Handles) /\ Cardinality(Handles) = MAX_HANDLES
  <2>1. IsFiniteSet(Handles)
        /\ Cardinality(Handles) = IF 0 > MAX_HANDLES - 1 THEN 0 ELSE MAX_HANDLES - 1 - 0 + 1
    BY <1>1, FS_Interval DEF Handles
  <2> QED BY <1>1, <2>1
<1>4. /\ IsFiniteSet((0 .. Len(J)) \X Handles)
      /\ Cardinality((0 .. Len(J)) \X Handles) = (Len(J) + 1) * MAX_HANDLES
  BY <1>2, <1>3, FS_Product
<1>5. RefSet(t, J, r) \subseteq (0 .. Len(J)) \X Handles
  BY DEF RefSet
<1>6. IsFiniteSet(RefSet(t, J, r)) /\ Cardinality(RefSet(t, J, r)) <= Cardinality((0 .. Len(J)) \X Handles)
  BY <1>4, <1>5, FS_Subset
<1> QED BY <1>4, <1>6, FS_CardinalityType

LEMMA WithOne ==
  ASSUME NEW S, IsFiniteSet(S), NEW x, x \notin S
  PROVE  Cardinality(S \cup {x}) = Cardinality(S) + 1
BY FS_AddElement

LEMMA WithoutOne ==
  ASSUME NEW S, IsFiniteSet(S), NEW x, x \in S
  PROVE  /\ Cardinality(S \ {x}) = Cardinality(S) - 1
         /\ Cardinality(S) \in Nat /\ Cardinality(S) > 0
         /\ Cardinality(S) = 1 => S = {x}
<1>1. IsFiniteSet(S \ {x}) /\ Cardinality(S \ {x}) = Cardinality(S) - 1 /\ Cardinality(S) \in Nat
  BY FS_RemoveElement, FS_CardinalityType
<1>2. Cardinality(S) # 0
  BY FS_EmptySet
<1>3. ASSUME Cardinality(S) = 1 PROVE S = {x}
  <2>1. Cardinality(S \ {x}) = 0
    BY <1>1, <1>3
  <2>2. S \ {x} = {}
    BY <1>1, <2>1, FS_EmptySet
  <2> QED BY <2>2
<1> QED BY <1>1, <1>2, <1>3

(* Every nonempty set of naturals has a least element. *)
LEMMA NatHasMin ==
  ASSUME NEW S \in SUBSET Nat, S # {}
  PROVE  Min(S) \in S /\ \A n \in S : Min(S) <= n
<1> DEFINE R == {ss \in Nat \X Nat : ss[1] < ss[2]}
<1>1. IsWellFoundedOn(R, Nat)
  BY NatLessThanWellFounded DEF OpToRel
<1> HIDE DEF R
<1>2. PICK m \in S : \A n \in S : ~(<<n, m>> \in R)
  BY <1>1, WFMin
<1>3. \A n \in S : m <= n
  <2> TAKE n \in S
  <2>1. ~(<<n, m>> \in R) /\ n \in Nat /\ m \in Nat
    BY <1>2
  <2> QED BY <2>1 DEF R
<1> QED BY <1>3 DEF Min

-----------------------------------------------------------------------------
(* One handle more, or less *)

(* u and K differ from t and J only in what they say of h. *)
SameBut(t, u, h) ==
    \A g \in Handles \ {h} :
        /\ u[g].used = 1 <=> t[g].used = 1
        /\ t[g].used = 1 => u[g].alias = t[g].alias /\ u[g].owner = t[g].owner
SameJftBut(J, K, h) ==
    Len(K) = Len(J) /\ \A p \in 1 .. Len(J) : \A g \in Handles \ {h} : g \in K[p] <=> g \in J[p]

LEMMA OthersRefer ==
  ASSUME NEW t, NEW u, NEW J \in Jfts, NEW K \in Jfts, NEW h,
         SameBut(t, u, h), SameJftBut(J, K, h), NEW r, NEW p \in Nat, NEW g \in Handles \ {h}
  PROVE  <<p, g>> \in RefSet(u, K, r) <=> <<p, g>> \in RefSet(t, J, r)
<1>1. u[g].used = 1 <=> t[g].used = 1
  BY DEF SameBut
<1>2. ASSUME t[g].used = 1
      PROVE  u[g].owner = t[g].owner /\ Root(u, g) = Root(t, g)
  BY <1>2 DEF SameBut, Root, IsAlias
<1>3. Refers(u, g, r) <=> Refers(t, g, r)
  BY <1>1, <1>2 DEF Refers
<1>4. Len(K) = Len(J) /\ (p \in 2 .. Len(J) => (g \in K[p] <=> g \in J[p]))
  <2>1. p \in 2 .. Len(J) => p \in 1 .. Len(J)
    BY JftHas
  <2> QED BY <2>1 DEF SameJftBut
<1>5. t[g].used = 1 => (Inherits(u, K, p, g) <=> Inherits(t, J, p, g))
  BY <1>2, <1>4 DEF Inherits
<1> QED BY <1>3, <1>4, <1>5, RefSetHas DEF Refers

(* The running program's own handles are inherited by nobody. *)
LEMMA OwnNotInherited ==
  ASSUME NEW t \in Tables, NEW J \in Jfts, NEW h \in Handles, t[h].owner >= Len(J), NEW p
  PROVE  ~Inherits(t, J, p, h)
<1>1. Len(J) \in Nat /\ t[h].owner \in Nat
  BY JftHas, SlotHas
<1> QED BY <1>1 DEF Inherits

LEMMA Adding ==
  ASSUME NEW t, NEW u \in Tables, NEW J \in Jfts, NEW K \in Jfts, NEW h \in Handles,
         SameBut(t, u, h), SameJftBut(J, K, h),
         t[h].used # 1, u[h].used = 1, u[h].owner >= Len(J), NEW r
  PROVE  /\ r = Root(u, h) => RefSet(u, K, r) = RefSet(t, J, r) \cup {<<0, h>>}
         /\ r # Root(u, h) => RefSet(u, K, r) = RefSet(t, J, r)
         /\ <<0, h>> \notin RefSet(t, J, r)
<1>1. \A p : <<p, h>> \notin RefSet(t, J, r)
  BY RefSetHas DEF Refers
<1>2. Len(K) = Len(J)
  BY DEF SameJftBut
<1>3. \A p : <<p, h>> \in RefSet(u, K, r) <=> p = 0 /\ r = Root(u, h)
  <2>1. \A p : ~Inherits(u, K, p, h)
    BY <1>2, OwnNotInherited
  <2>2. 0 \in 0 .. Len(K)
    BY JftHas
  <2> QED BY <2>1, <2>2, RefSetHas DEF Refers
<1>4. \A p \in Nat, g \in Handles \ {h} : <<p, g>> \in RefSet(u, K, r) <=> <<p, g>> \in RefSet(t, J, r)
  BY OthersRefer
<1>5. <<0, h>> \in Nat \X Handles
  OBVIOUS
<1>6. RefSet(u, K, r) \subseteq Nat \X Handles /\ RefSet(t, J, r) \subseteq Nat \X Handles
  BY RefSetHas
<1>7. CASE r = Root(u, h)
  <2>1. \A p \in Nat, g \in Handles :
            <<p, g>> \in RefSet(u, K, r) <=> <<p, g>> \in RefSet(t, J, r) \cup {<<0, h>>}
    <3> TAKE p \in Nat, g \in Handles
    <3>1. CASE g = h
      BY <1>1, <1>3, <1>7, <3>1
    <3>2. CASE g # h
      BY <1>4, <3>2
    <3> QED BY <3>1, <3>2
  <2> DEFINE T == RefSet(t, J, r) \cup {<<0, h>>}
  <2>2. T \subseteq Nat \X Handles
    BY <1>5, <1>6
  <2> HIDE DEF T
  <2>3. RefSet(u, K, r) = T
    BY <1>6, <2>1, <2>2, PairsEqual DEF T
  <2> QED BY <1>1, <1>7, <2>3 DEF T
<1>8. CASE r # Root(u, h)
  <2>1. \A p \in Nat, g \in Handles : <<p, g>> \in RefSet(u, K, r) <=> <<p, g>> \in RefSet(t, J, r)
    <3> TAKE p \in Nat, g \in Handles
    <3>1. CASE g = h
      BY <1>1, <1>3, <1>8, <3>1
    <3>2. CASE g # h
      BY <1>4, <3>2
    <3> QED BY <3>1, <3>2
  <2>2. RefSet(u, K, r) = RefSet(t, J, r)
    BY <1>6, <2>1, PairsEqual
  <2> QED BY <1>1, <1>8, <2>2
<1> QED BY <1>7, <1>8

(* The one reference less is h's own. *)
Dropped(t, J, u, K, h) ==
    \A r : /\ RefSet(u, K, r) = RefSet(t, J, r) \ {<<0, h>>}
           /\ r = Root(t, h) => <<0, h>> \in RefSet(t, J, r)
           /\ r # Root(t, h) => RefSet(u, K, r) = RefSet(t, J, r)

LEMMA Dropping ==
  ASSUME NEW t \in Tables, NEW u, NEW J \in Jfts, NEW K \in Jfts, NEW h \in Handles,
         SameBut(t, u, h), SameJftBut(J, K, h),
         t[h].used = 1, u[h].used # 1, t[h].owner >= Len(J)
  PROVE  Dropped(t, J, u, K, h)
<1> SUFFICES ASSUME NEW r
    PROVE  /\ RefSet(u, K, r) = RefSet(t, J, r) \ {<<0, h>>}
           /\ r = Root(t, h) => <<0, h>> \in RefSet(t, J, r)
           /\ r # Root(t, h) => RefSet(u, K, r) = RefSet(t, J, r)
  BY DEF Dropped
<1>1. \A p : <<p, h>> \notin RefSet(u, K, r)
  BY RefSetHas DEF Refers
<1>3. \A p : <<p, h>> \in RefSet(t, J, r) <=> p = 0 /\ r = Root(t, h)
  <2>1. \A p : ~Inherits(t, J, p, h)
    BY OwnNotInherited
  <2>2. 0 \in 0 .. Len(J)
    BY JftHas
  <2> QED BY <2>1, <2>2, RefSetHas DEF Refers
<1>4. \A p \in Nat, g \in Handles \ {h} : <<p, g>> \in RefSet(u, K, r) <=> <<p, g>> \in RefSet(t, J, r)
  BY OthersRefer
<1>6. RefSet(u, K, r) \subseteq Nat \X Handles /\ RefSet(t, J, r) \subseteq Nat \X Handles
  BY RefSetHas
<1>5. PICK T : T = RefSet(t, J, r) \ {<<0, h>>}
  OBVIOUS
<1>7. \A p \in Nat, g \in Handles : <<p, g>> \in RefSet(u, K, r) <=> <<p, g>> \in T
  <2> TAKE p \in Nat, g \in Handles
  <2>1. CASE g = h
    BY <1>1, <1>3, <1>5, <2>1
  <2>2. CASE g # h
    BY <1>4, <1>5, <2>2
  <2> QED BY <2>1, <2>2
<1>8. T \subseteq Nat \X Handles
  BY <1>5, <1>6
<1>9. RefSet(u, K, r) = T
  <2>1. PICK S : S = RefSet(u, K, r)
    OBVIOUS
  <2>2. S \subseteq Nat \X Handles
    BY <1>6, <2>1
  <2>3. \A p \in Nat, g \in Handles : <<p, g>> \in S <=> <<p, g>> \in T
    BY <1>7, <2>1
  <2>4. S = T
    BY ONLY <1>8, <2>2, <2>3, PairsEqual
  <2> QED BY <2>1, <2>4
<1>10. r # Root(t, h) => T = RefSet(t, J, r)
  BY <1>3, <1>5
<1> QED BY <1>3, <1>5, <1>9, <1>10

(* A handle that is not in use, or is the running process's own, may be    *)
(* marked without a reference more or less.                                *)
LEMMA SameOwn ==
  ASSUME NEW t \in Tables, NEW J \in Jfts, NEW K \in Jfts, NEW h \in Handles, SameJftBut(J, K, h),
         t[h].used # 1 \/ t[h].owner >= Len(J), NEW r
  PROVE  RefSet(t, K, r) = RefSet(t, J, r)
<1>1. SameBut(t, t, h) /\ Len(K) = Len(J)
  BY DEF SameBut, SameJftBut
<1>2. ASSUME NEW p \in Nat, NEW g \in Handles
      PROVE  <<p, g>> \in RefSet(t, K, r) <=> <<p, g>> \in RefSet(t, J, r)
  <2>1. CASE g # h
    BY <1>1, <2>1, OthersRefer
  <2>2. CASE g = h
    <3>1. Refers(t, h, r) => ~Inherits(t, K, p, h) /\ ~Inherits(t, J, p, h)
      BY <1>1, OwnNotInherited DEF Refers
    <3>2. 0 \in 0 .. Len(J) /\ 0 \in 0 .. Len(K)
      BY JftHas
    <3> QED BY <2>2, <3>1, <3>2, RefSetHas
  <2> QED BY <2>1, <2>2
<1>3. PICK S : S = RefSet(t, K, r)
  OBVIOUS
<1>4. PICK T : T = RefSet(t, J, r)
  OBVIOUS
<1>5. S \subseteq Nat \X Handles /\ T \subseteq Nat \X Handles
  BY <1>3, <1>4, RefSetHas
<1>6. \A p \in Nat, g \in Handles : <<p, g>> \in S <=> <<p, g>> \in T
  BY <1>2, <1>3, <1>4
<1>7. S = T
  BY ONLY <1>5, <1>6, PairsEqual
<1> QED BY <1>3, <1>4, <1>7

-----------------------------------------------------------------------------
(* Exact counts *)

LEMMA CountedRefers ==
  ASSUME NEW t \in Tables, NEW J \in Jfts, Counted(t, J), NEW h \in Handles, t[h].used = 1
  PROVE  /\ Root(t, h) \in Handles /\ t[Root(t, h)].used # 0 /\ ~IsAlias(t, Root(t, h))
         /\ Usable(t, h)
<1>1. CASE IsAlias(t, h)
  <2>1. Usable(t, h)
    BY <1>1 DEF Counted, AliasRight
  <2> QED BY <1>1, <2>1, SlotHas DEF Usable, Root
<1>2. CASE ~IsAlias(t, h)
  BY <1>2 DEF Root, Usable
<1> QED BY <1>1, <1>2

LEMMA NoRefs ==
  ASSUME NEW t \in Tables, NEW J \in Jfts, Counted(t, J), NEW r \in Handles,
         t[r].used = 0 \/ IsAlias(t, r)
  PROVE  RefSet(t, J, r) = {}
<1>1. ASSUME NEW x \in RefSet(t, J, r) PROVE FALSE
  <2>1. x[2] \in Handles /\ t[x[2]].used = 1 /\ Root(t, x[2]) = r
    BY <1>1 DEF RefSet, Refers
  <2> QED BY <2>1, CountedRefers
<1> QED BY <1>1

LEMMA RootHas ==
  ASSUME NEW t \in Tables, NEW J \in Jfts, Counted(t, J), NEW r \in Handles,
         t[r].used # 0, ~IsAlias(t, r)
  PROVE  /\ t[r].refs = Cardinality(RefSet(t, J, r)) /\ t[r].refs > 0
         /\ t[r].file # NONE /\ RefSet(t, J, r) # {}
<1>1. RootRight(t, J, r)
  BY DEF Counted
<1> QED BY <1>1, FS_EmptySet DEF RootRight

LEMMA NotEmpty ==
  ASSUME NEW t, NEW J \in Jfts, NEW r, RefSet(t, J, r) # {}
  PROVE  Cardinality(RefSet(t, J, r)) > 0
<1>1. Cardinality(RefSet(t, J, r)) # 0
  BY RefSetFinite, FS_EmptySet
<1> QED BY <1>1, RefSetFinite

(* Every reference to a root is by a handle in use, or by a copy of one.   *)
LEMMA FirstLevel ==
  ASSUME NEW t, NEW J \in Jfts, NEW r, RefSet(t, J, r) # {}
  PROVE  \E h \in Handles : Refers(t, h, r) /\ <<0, h>> \in RefSet(t, J, r)
<1>1. PICK x : x \in RefSet(t, J, r)
  OBVIOUS
<1>2. PICK p \in 0 .. Len(J), h \in Handles : x = <<p, h>>
  BY <1>1 DEF RefSet
<1>3. 0 \in 0 .. Len(J)
  BY JftHas
<1> QED BY <1>1, <1>2, <1>3, RefSetHas

LEMMA AtFirst ==
  ASSUME NEW t, NEW J \in Jfts, NEW h \in Handles, t[h].used = 1
  PROVE  <<0, h>> \in RefSet(t, J, Root(t, h))
<1>1. 0 \in 0 .. Len(J)
  BY JftHas
<1> QED BY <1>1, RefSetHas DEF Refers

-----------------------------------------------------------------------------
(* Levels of inheritance *)

(* K is J with the handles B at level p.                                   *)
Deeper(t, J, K, p, B) ==
    /\ p \in Nat \ {0} /\ B \subseteq Handles
    /\ \A q \in Nat, h \in Handles :
         t[h].used = 1 => (Inherits(t, K, q, h) <=> Inherits(t, J, q, h) \/ (q = p /\ h \in B))
    /\ \A h \in B : t[h].used = 1 => ~Inherits(t, J, p, h)

LEMMA PairsAtLevel ==
  ASSUME NEW p, NEW X, IsFiniteSet(X)
  PROVE  /\ IsFiniteSet({<<p, h>> : h \in X}) /\ Cardinality({<<p, h>> : h \in X}) = Cardinality(X)
<1> DEFINE T == {<<p, h>> : h \in X}
           f == [h \in X |-> <<p, h>>]
<1>1. f \in Bijection(X, T)
  <2>1. f \in [X -> T]
    OBVIOUS
  <2>2. \A a, b \in X : f[a] = f[b] => a = b
    OBVIOUS
  <2>3. \A y \in T : \E a \in X : f[a] = y
    OBVIOUS
  <2> QED BY <2>1, <2>2, <2>3, Fun_IsBij
<1>2. ExistsBijection(X, T)
  BY <1>1 DEF ExistsBijection
<1> QED BY <1>2, FS_Bijection

LEMMA DeeperCounts ==
  ASSUME NEW t \in Tables, NEW J \in Jfts, NEW K \in Jfts, NEW p, NEW B,
         Deeper(t, J, K, p, B), NEW r
  PROVE  LET X == {h \in B : Refers(t, h, r)} IN
         /\ IsFiniteSet(X) /\ Cardinality(X) \in Nat
         /\ Cardinality(RefSet(t, K, r)) = Cardinality(RefSet(t, J, r)) + Cardinality(X)
         /\ RefSet(t, J, r) = {} <=> RefSet(t, K, r) = {}
<1>1. PICK X : X = {h \in B : Refers(t, h, r)}
  OBVIOUS
<1>2. X \subseteq Handles /\ p \in Nat /\ p # 0
  BY <1>1 DEF Deeper
<1>3. IsFiniteSet(X) /\ Cardinality(X) \in Nat
  <2>1. IsFiniteSet(Handles)
    BY Constants, FS_Interval DEF Handles
  <2> QED BY <1>2, <2>1, FS_Subset, FS_CardinalityType
<1>4. PICK T : T = {<<p, h>> : h \in X}
  OBVIOUS
<1>5. IsFiniteSet(T) /\ Cardinality(T) = Cardinality(X) /\ T \subseteq Nat \X Handles
  <2>1. IsFiniteSet({<<p, h>> : h \in X}) /\ Cardinality({<<p, h>> : h \in X}) = Cardinality(X)
    BY <1>3, PairsAtLevel, Zenon
  <2>2. T \subseteq Nat \X Handles
    BY <1>2, <1>4
  <2> QED BY <1>4, <2>1, <2>2
<1>6. RefSet(t, K, r) = RefSet(t, J, r) \cup T
  <2>1. \A q \in Nat, h \in Handles :
            <<q, h>> \in RefSet(t, K, r) <=> <<q, h>> \in RefSet(t, J, r) \cup T
    <3> TAKE q \in Nat, h \in Handles
    <3>1. q \in 2 .. Len(J) => q \in 0 .. Len(J)
      BY JftHas
    <3>2. q \in 2 .. Len(K) => q \in 0 .. Len(K)
      BY JftHas
    <3>3. 0 \in 0 .. Len(J) /\ 0 \in 0 .. Len(K)
      BY JftHas
    <3>4. <<q, h>> \in RefSet(t, J, r) <=> Refers(t, h, r) /\ (q = 0 \/ Inherits(t, J, q, h))
      BY <3>1, <3>3, RefSetHas DEF Inherits
    <3>5. <<q, h>> \in RefSet(t, K, r) <=> Refers(t, h, r) /\ (q = 0 \/ Inherits(t, K, q, h))
      BY <3>2, <3>3, RefSetHas DEF Inherits
    <3>6. <<q, h>> \in T <=> q = p /\ h \in B /\ Refers(t, h, r)
      BY <1>1, <1>4
    <3>7. Refers(t, h, r) => (Inherits(t, K, q, h) <=> Inherits(t, J, q, h) \/ (q = p /\ h \in B))
      BY DEF Refers, Deeper
    <3> QED BY <3>4, <3>5, <3>6, <3>7
  <2>2. PICK U : U = RefSet(t, J, r) \cup T
    OBVIOUS
  <2>3. PICK S : S = RefSet(t, K, r)
    OBVIOUS
  <2>4. S \subseteq Nat \X Handles /\ U \subseteq Nat \X Handles
    BY <1>5, <2>2, <2>3, RefSetHas
  <2>5. \A q \in Nat, h \in Handles : <<q, h>> \in S <=> <<q, h>> \in U
    BY <2>1, <2>2, <2>3
  <2>6. S = U
    BY ONLY <2>4, <2>5, PairsEqual
  <2> QED BY <2>2, <2>3, <2>6
<1>7. RefSet(t, J, r) \cap T = {}
  <2>1. ASSUME NEW h \in X PROVE <<p, h>> \notin RefSet(t, J, r)
    <3>1. h \in B /\ Refers(t, h, r)
      BY <1>1, <2>1
    <3>2. ~Inherits(t, J, p, h)
      BY <3>1 DEF Deeper, Refers
    <3> QED BY <1>2, <3>2, RefSetHas
  <2> QED BY <1>4, <2>1
<1>8. Cardinality(RefSet(t, K, r)) = Cardinality(RefSet(t, J, r)) + Cardinality(X)
  <2>1. Cardinality(RefSet(t, J, r) \cup T) = Cardinality(RefSet(t, J, r)) + Cardinality(T)
    <3>1. IsFiniteSet(RefSet(t, J, r)) /\ Cardinality(RefSet(t, J, r)) \in Nat
      BY RefSetFinite
    <3>2. PICK S : S = RefSet(t, J, r)
      OBVIOUS
    <3>3. Cardinality(S \cup T) = Cardinality(S) + Cardinality(T) - Cardinality(S \cap T)
      BY <1>5, <3>1, <3>2, FS_Union, Zenon
    <3>4. Cardinality(S \cap T) = 0
      BY <1>7, <3>2, FS_EmptySet
    <3> QED BY <1>3, <1>5, <3>1, <3>2, <3>3, <3>4
  <2> QED BY <1>5, <1>6, <2>1
<1>9. RefSet(t, J, r) = {} <=> RefSet(t, K, r) = {}
  <2>1. ASSUME RefSet(t, K, r) # {} PROVE RefSet(t, J, r) # {}
    <3>1. PICK h \in Handles : Refers(t, h, r)
      BY <2>1, FirstLevel
    <3> QED BY <3>1, AtFirst DEF Refers
  <2> QED BY <1>6, <2>1
<1> QED BY <1>1, <1>3, <1>8, <1>9

-----------------------------------------------------------------------------
(* New handles *)

LEMMA MakeAliasIs ==
  ASSUME NEW t \in Tables, NEW h \in Handles, NEW r \in Handles, h # r, jft \in Jfts
  PROVE  /\ MakeAlias(t, h, r) \in Tables
         /\ MakeAlias(t, h, r)[h] = AliasSlot(r)
         /\ MakeAlias(t, h, r)[r] = [t[r] EXCEPT !.refs = t[r].refs + 1]
         /\ \A g \in Handles : g # h /\ g # r => MakeAlias(t, h, r)[g] = t[g]
<1>1. t \in [Handles -> Slot] /\ t[r] \in Slot
  BY DEF Tables
<1>2. AliasSlot(r) \in Slot
  BY JftHas DEF AliasSlot, Slot, cur
<1>3. [t[r] EXCEPT !.refs = t[r].refs + 1] \in Slot
  BY <1>1 DEF Slot
<1> QED BY <1>1, <1>2, <1>3 DEF MakeAlias, Tables

LEMMA AliasKeeps ==
  ASSUME NEW t \in Tables, NEW J \in Jfts, NEW K \in Jfts, Counted(t, J),
         NEW h \in Handles, t[h].used = 0, SameJftBut(J, K, h),
         NEW r \in Handles, t[r].used # 0, ~IsAlias(t, r), jft \in Jfts, cur = Len(J)
  PROVE  Counted(MakeAlias(t, h, r), K)
<1>1. PICK u : u = MakeAlias(t, h, r)
  OBVIOUS
<1>2. /\ u \in Tables /\ h # r
      /\ u[h] = [used |-> 1, alias |-> r, refs |-> 0, owner |-> cur, file |-> NONE]
      /\ u[r] = [t[r] EXCEPT !.refs = t[r].refs + 1]
      /\ \A g \in Handles : g # h /\ g # r => u[g] = t[g]
  BY <1>1, MakeAliasIs DEF AliasSlot
<1>3. t[r] \in Slot
  BY SlotHas
<1>4. /\ u[h].used = 1 /\ u[h].alias = r /\ u[h].refs = 0 /\ u[h].owner = cur /\ u[h].file = NONE
      /\ u[r].used = t[r].used /\ u[r].alias = t[r].alias /\ u[r].owner = t[r].owner
      /\ u[r].file = t[r].file /\ u[r].refs = t[r].refs + 1
  <2>1. PICK w \in Slot : w = t[r]
    BY <1>3
  <2>2. u[r] = [w EXCEPT !.refs = w.refs + 1]
    BY <1>2, <2>1
  <2>3. /\ u[r].used = w.used /\ u[r].alias = w.alias /\ u[r].owner = w.owner
        /\ u[r].file = w.file /\ u[r].refs = w.refs + 1
    BY ONLY <2>2, w \in Slot DEF Slot
  <2>4. /\ u[h].used = 1 /\ u[h].alias = r /\ u[h].refs = 0 /\ u[h].owner = cur
        /\ u[h].file = NONE
    BY <1>2
  <2> QED BY <2>1, <2>3, <2>4
<1>5. SameBut(t, u, h)
  <2> SUFFICES ASSUME NEW g \in Handles, g # h
               PROVE  /\ u[g].used = 1 <=> t[g].used = 1
                      /\ t[g].used = 1 => u[g].alias = t[g].alias /\ u[g].owner = t[g].owner
    BY Zenon DEF SameBut
  <2>1. g # r => u[g] = t[g]
    BY <1>2
  <2>2. u[r].used = t[r].used /\ u[r].alias = t[r].alias /\ u[r].owner = t[r].owner
    BY <1>4
  <2> QED BY ONLY <2>1, <2>2
<1>6. Root(u, h) = r /\ cur >= Len(J)
  <2>1. Len(J) \in Nat
    BY JftHas
  <2> QED BY <1>4, <2>1, Constants DEF Root, IsAlias
<1>7. \A g : /\ g = r => RefSet(u, K, g) = RefSet(t, J, g) \cup {<<0, h>>}
             /\ g # r => RefSet(u, K, g) = RefSet(t, J, g)
             /\ <<0, h>> \notin RefSet(t, J, g)
  BY <1>2, <1>4, <1>5, <1>6, Adding
<1>8. ASSUME NEW g \in Handles, u[g].used # 0
      PROVE  IF IsAlias(u, g) THEN AliasRight(u, g) ELSE RootRight(u, K, g)
  <2>1. CASE g = h
    <3>1. ~IsAlias(u, r) /\ IsAlias(u, h) /\ u[r].used # 0
      BY <1>4, Constants DEF IsAlias
    <3> QED BY <1>4, <2>1, <3>1 DEF AliasRight, Usable
  <2>2. CASE g = r
    <3>1. Cardinality(RefSet(u, K, r)) = Cardinality(RefSet(t, J, r)) + 1
      BY <1>7, RefSetFinite, WithOne
    <3>2. t[r].refs = Cardinality(RefSet(t, J, r)) /\ t[r].refs > 0 /\ t[r].file # NONE /\ t[r].refs \in Nat
      BY RootHas, SlotHas
    <3>3. ~IsAlias(u, r)
      BY <1>4 DEF IsAlias
    <3> QED BY <1>4, <2>2, <3>1, <3>2, <3>3 DEF RootRight
  <2>3. CASE g # h /\ g # r
    <3>1. u[g] = t[g] /\ t[g].used # 0
      BY <1>2, <1>8, <2>3
    <3>2. CASE IsAlias(t, g)
      <4>1. AliasRight(t, g) /\ t[g].alias \in Handles /\ t[t[g].alias].used # 0
        BY <3>1, <3>2, SlotHas DEF Counted, AliasRight, Usable
      <4>2. u[t[g].alias].used # 0 /\ u[t[g].alias].alias = t[t[g].alias].alias
        BY <1>2, <1>4, <4>1
      <4> QED BY <3>1, <3>2, <4>1, <4>2 DEF AliasRight, Usable, IsAlias
    <3>3. CASE ~IsAlias(t, g)
      <4>1. RootRight(t, J, g)
        BY <3>1, <3>3 DEF Counted
      <4> QED BY <1>7, <2>3, <3>1, <3>3, <4>1 DEF RootRight, IsAlias
    <3> QED BY <3>2, <3>3
  <2> QED BY <2>1, <2>2, <2>3
<1> QED BY <1>1, <1>8 DEF Counted

LEMMA RootKeeps ==
  ASSUME NEW t \in Tables, NEW J \in Jfts, NEW K \in Jfts, Counted(t, J),
         NEW h \in Handles, t[h].used = 0, SameJftBut(J, K, h),
         NEW f \in Files \cup {CON}, jft \in Jfts, cur = Len(J)
  PROVE  /\ [t EXCEPT ![h] = RootSlot(f)] \in Tables
         /\ Counted([t EXCEPT ![h] = RootSlot(f)], K)
<1>1. PICK u : u = [t EXCEPT ![h] = RootSlot(f)]
  OBVIOUS
<1>2. /\ u[h] = [used |-> 1, alias |-> NONE, refs |-> 1, owner |-> cur, file |-> f]
      /\ \A g \in Handles : g # h => u[g] = t[g]
  BY <1>1 DEF Tables, RootSlot
<1>3. u \in Tables
  <2>1. cur \in Nat
    BY JftHas DEF cur
  <2>2. RootSlot(f) \in Slot
    BY <2>1 DEF RootSlot, Slot
  <2> QED BY <1>1, <2>2 DEF Tables
<1>4. u[h].used = 1 /\ u[h].alias = NONE /\ u[h].refs = 1 /\ u[h].owner = cur /\ u[h].file = f
  BY <1>2
<1>5. SameBut(t, u, h)
  BY <1>2 DEF SameBut
<1>6. Root(u, h) = h /\ cur >= Len(J) /\ ~IsAlias(u, h)
  <2>1. Len(J) \in Nat
    BY JftHas
  <2> QED BY <1>4, <2>1 DEF Root, IsAlias
<1>7. \A g : /\ g = h => RefSet(u, K, g) = RefSet(t, J, g) \cup {<<0, h>>}
             /\ g # h => RefSet(u, K, g) = RefSet(t, J, g)
  <2>1. u[h].owner >= Len(J) /\ t[h].used # 1
    BY <1>4, <1>6
  <2>2. \A g : /\ g = Root(u, h) => RefSet(u, K, g) = RefSet(t, J, g) \cup {<<0, h>>}
               /\ g # Root(u, h) => RefSet(u, K, g) = RefSet(t, J, g)
               /\ <<0, h>> \notin RefSet(t, J, g)
    BY <1>3, <1>4, <1>5, <2>1, Adding, Zenon
  <2> QED BY <1>6, <2>2
<1>8. ASSUME NEW g \in Handles, u[g].used # 0
      PROVE  IF IsAlias(u, g) THEN AliasRight(u, g) ELSE RootRight(u, K, g)
  <2>1. CASE g = h
    <3>1. RefSet(t, J, h) = {}
      BY NoRefs
    <3>2. RefSet(u, K, h) = {<<0, h>>}
      BY <1>7, <3>1
    <3>3. Cardinality(RefSet(u, K, h)) = 1
      BY <3>2, FS_Singleton
    <3> QED BY <1>4, <1>6, <2>1, <3>3, Constants DEF RootRight
  <2>3. CASE g # h
    <3>1. u[g] = t[g] /\ t[g].used # 0
      BY <1>2, <1>8, <2>3
    <3>2. CASE IsAlias(t, g)
      <4>1. AliasRight(t, g) /\ t[g].alias \in Handles /\ t[t[g].alias].used # 0
        BY <3>1, <3>2, SlotHas DEF Counted, AliasRight, Usable
      <4>2. u[t[g].alias] = t[t[g].alias]
        BY <1>2, <4>1
      <4> QED BY <3>1, <3>2, <4>1, <4>2 DEF AliasRight, Usable, IsAlias
    <3>3. CASE ~IsAlias(t, g)
      <4>1. RootRight(t, J, g)
        BY <3>1, <3>3 DEF Counted
      <4> QED BY <1>7, <2>3, <3>1, <3>3, <4>1 DEF RootRight, IsAlias
    <3> QED BY <3>2, <3>3
  <2> QED BY <2>1, <2>3
<1> QED BY <1>1, <1>3, <1>8 DEF Counted

LEMMA ReviveKeeps ==
  ASSUME NEW t \in Tables, NEW J \in Jfts, NEW K \in Jfts, Counted(t, J),
         NEW c \in Handles, t[c].used = 2, SameJftBut(J, K, c), t[c].owner >= Len(J)
  PROVE  /\ [t EXCEPT ![c].used = 1, ![c].refs = @ + 1] \in Tables
         /\ Counted([t EXCEPT ![c].used = 1, ![c].refs = @ + 1], K)
<1>1. PICK u : u = [t EXCEPT ![c].used = 1, ![c].refs = @ + 1]
  OBVIOUS
<1>0. t[c] \in Slot /\ t \in [Handles -> Slot] /\ t[c].refs \in Nat
  BY SlotHas DEF Tables
<1>2. /\ u[c] = [t[c] EXCEPT !.used = 1, !.refs = t[c].refs + 1]
      /\ \A g \in Handles : g # c => u[g] = t[g]
      /\ u \in Tables
  <2>1. [t[c] EXCEPT !.used = 1, !.refs = t[c].refs + 1] \in Slot
    <3>1. t[c].refs + 1 \in Nat /\ 1 \in 0 .. 2
      BY <1>0
    <3> QED BY <1>0, <3>1 DEF Slot
  <2>2. u = [t EXCEPT ![c] = [t[c] EXCEPT !.used = 1, !.refs = t[c].refs + 1]]
    BY <1>0, <1>1 DEF Slot
  <2> QED BY <1>0, <2>1, <2>2 DEF Tables
<1>4. /\ u[c].used = 1 /\ u[c].alias = t[c].alias /\ u[c].refs = t[c].refs + 1
      /\ u[c].owner = t[c].owner /\ u[c].file = t[c].file
  BY <1>0, <1>2 DEF Slot
<1>5. SameBut(t, u, c)
  BY <1>2 DEF SameBut
<1>6. Root(u, c) = c /\ ~IsAlias(u, c) /\ ~IsAlias(t, c)
  <2>1. ~IsAlias(t, c)
    BY DEF Counted, AliasRight, Usable
  <2> QED BY <1>4, <2>1 DEF Root, IsAlias
<1>7. \A g : /\ g = c => RefSet(u, K, g) = RefSet(t, J, g) \cup {<<0, c>>}
             /\ g # c => RefSet(u, K, g) = RefSet(t, J, g)
             /\ <<0, c>> \notin RefSet(t, J, g)
  <2>1. u[c].owner >= Len(J) /\ t[c].used # 1
    BY <1>4
  <2>2. \A g : /\ g = Root(u, c) => RefSet(u, K, g) = RefSet(t, J, g) \cup {<<0, c>>}
               /\ g # Root(u, c) => RefSet(u, K, g) = RefSet(t, J, g)
               /\ <<0, c>> \notin RefSet(t, J, g)
    BY <1>2, <1>4, <1>5, <2>1, Adding, Zenon
  <2> QED BY <1>6, <2>2
<1>8. ASSUME NEW g \in Handles, u[g].used # 0
      PROVE  IF IsAlias(u, g) THEN AliasRight(u, g) ELSE RootRight(u, K, g)
  <2>1. CASE g = c
    <3>1. Cardinality(RefSet(u, K, c)) = Cardinality(RefSet(t, J, c)) + 1
      BY <1>7, RefSetFinite, WithOne
    <3>2. t[c].refs = Cardinality(RefSet(t, J, c)) /\ t[c].refs > 0 /\ t[c].file # NONE
      BY <1>6, RootHas
    <3> QED BY <1>0, <1>4, <1>6, <2>1, <3>1, <3>2 DEF RootRight
  <2>3. CASE g # c
    <3>1. u[g] = t[g] /\ t[g].used # 0
      BY <1>2, <1>8, <2>3
    <3>2. CASE IsAlias(t, g)
      <4>1. AliasRight(t, g) /\ t[g].alias \in Handles /\ t[t[g].alias].used # 0
        BY <3>1, <3>2, SlotHas DEF Counted, AliasRight, Usable
      <4>2. u[t[g].alias].used # 0 /\ u[t[g].alias].alias = t[t[g].alias].alias
        BY <1>2, <1>4, <4>1
      <4> QED BY <3>1, <3>2, <4>1, <4>2 DEF AliasRight, Usable, IsAlias
    <3>3. CASE ~IsAlias(t, g)
      <4>1. RootRight(t, J, g)
        BY <3>1, <3>3 DEF Counted
      <4> QED BY <1>7, <2>3, <3>1, <3>3, <4>1 DEF RootRight, IsAlias
    <3> QED BY <3>2, <3>3
  <2> QED BY <2>1, <2>3
<1> QED BY <1>1, <1>2, <1>8 DEF Counted

-----------------------------------------------------------------------------
(* Closing a handle *)

LEMMA TimesMore == \A a, b, m \in Nat : a <= b => a * m <= b * m
<1> TAKE a, b, m \in Nat
<1> HAVE a <= b
<1>1. PICK d \in Nat : b = a + d
  BY SMT
<1>2. b * m = a * m + d * m
  BY <1>1
<1>3. d * m \in Nat /\ a * m \in Nat
  OBVIOUS
<1> QED BY <1>2, <1>3

LEMMA RefsFit ==
  ASSUME WordHolds, NEW t, NEW J \in Jfts, Len(J) <= MaxDepth + 1, NEW r
  PROVE  Cardinality(RefSet(t, J, r)) < 65536
<1>1. Len(J) + 1 \in Nat /\ MaxDepth + 2 \in Nat /\ MAX_HANDLES \in Nat /\ Len(J) + 1 <= MaxDepth + 2
  BY JftHas, Constants
<1>2. (Len(J) + 1) * MAX_HANDLES <= (MaxDepth + 2) * MAX_HANDLES
  BY <1>1, TimesMore, Zenon
<1>3. PICK x : x = (Len(J) + 1) * MAX_HANDLES
  OBVIOUS
<1>4. PICK y : y = (MaxDepth + 2) * MAX_HANDLES
  OBVIOUS
<1>5. x \in Nat /\ y \in Nat
  BY <1>1, <1>3, <1>4
<1>6. x <= y /\ y < 65536 /\ Cardinality(RefSet(t, J, r)) <= x /\ Cardinality(RefSet(t, J, r)) \in Nat
  BY <1>2, <1>3, <1>4, RefSetFinite DEF WordHolds
<1> QED BY <1>5, <1>6

LEMMA DecIs == \A n \in Nat : n > 0 /\ n < 65536 => Dec(n) = n - 1
BY DEF Dec

(* With u as after the close, what is left of the references.              *)
LEMMA LastOne ==
  ASSUME NEW t, NEW J \in Jfts, NEW r, NEW h, <<0, h>> \in RefSet(t, J, r),
         Cardinality(RefSet(t, J, r)) = 1, NEW g \in Handles, g # h
  PROVE  ~Refers(t, g, r)
<1>1. RefSet(t, J, r) = {<<0, h>>}
  BY RefSetFinite, WithoutOne
<1>2. <<0, g>> \notin RefSet(t, J, r)
  BY <1>1
<1> QED BY <1>2, AtFirst DEF Refers

(* Closing only takes slots away. *)
Lessens(t, u) ==
    \A g \in Handles : u[g].used # 0 =>
        /\ t[g].used # 0 /\ u[g].alias = t[g].alias
        /\ u[g].owner = t[g].owner /\ u[g].file = t[g].file

LEMMA CloseAliasKeeps ==
  ASSUME WordHolds, NEW t \in Tables, NEW J \in Jfts, NEW K \in Jfts, Counted(t, J),
         Len(J) <= MaxDepth + 1, NEW h \in Handles, t[h].used = 1, t[h].owner >= Len(J),
         SameJftBut(J, K, h), IsAlias(t, h)
  PROVE  LET u == CloseTable(t, h, {}) IN
         u \in Tables /\ Counted(u, K) /\ SameBut(t, u, h) /\ u[h].used = 0 /\ Lessens(t, u)
<1>1. PICK u : u = CloseTable(t, h, {})
  OBVIOUS
<1>2. PICK r \in Handles : r = t[h].alias
  BY SlotHas
<1>3. /\ r # h /\ t[r].used # 0 /\ ~IsAlias(t, r) /\ Root(t, h) = r
      /\ r # NONE
  BY <1>2, CountedRefers, Constants DEF Root, IsAlias
<1>4. /\ t[r].refs = Cardinality(RefSet(t, J, r)) /\ t[r].refs > 0 /\ t[r].file # NONE
      /\ t[r].refs \in Nat /\ t[r].refs < 65536 /\ t[r] \in Slot /\ t \in [Handles -> Slot]
  BY <1>3, RootHas, RefsFit, SlotHas DEF Tables
<1>5. <<0, h>> \in RefSet(t, J, r)
  BY <1>3, AtFirst
<1>6. FreeSlot \in Slot
  BY Constants DEF FreeSlot, Slot
<1>7. u = [t EXCEPT ![h] = FreeSlot,
                    ![r] = IF t[r].refs = 1 THEN FreeSlot ELSE [t[r] EXCEPT !.refs = t[r].refs - 1]]
  <2>1. Dec(t[r].refs) = t[r].refs - 1
    BY <1>4, DecIs
  <2>0. PICK s : s = [t[r] EXCEPT !.refs = t[r].refs - 1]
    OBVIOUS
  <2>2. PICK v : v = [t EXCEPT ![h] = FreeSlot, ![r].refs = IF t[r].used = 0 THEN @ ELSE Dec(@)]
    OBVIOUS
  <2>3. v = [t EXCEPT ![h] = FreeSlot, ![r] = s]
    BY <1>3, <1>4, <2>0, <2>1, <2>2
  <2>4. u = IF LastReference(t, h) THEN CloseRoot(v, r, {}) ELSE v
    BY <1>1, <1>2, <2>2 DEF CloseTable
  <2>5. LastReference(t, h) <=> t[r].refs = 1
    BY <1>2, <1>3 DEF LastReference
  <2>6. CloseRoot(v, r, {}) = [t EXCEPT ![h] = FreeSlot, ![r] = FreeSlot]
    <3>1. CloseRoot(v, r, {}) = [v EXCEPT ![r] = FreeSlot]
      BY DEF CloseRoot
    <3>2. [v EXCEPT ![r] = FreeSlot] = [t EXCEPT ![h] = FreeSlot, ![r] = FreeSlot]
      BY <2>3
    <3> QED BY <3>1, <3>2
  <2>7. CASE t[r].refs = 1
    <3>1. u = [t EXCEPT ![h] = FreeSlot, ![r] = FreeSlot]
      BY <2>4, <2>5, <2>6, <2>7
    <3> QED BY <2>7, <3>1
  <2>8. CASE t[r].refs # 1
    <3>1. u = [t EXCEPT ![h] = FreeSlot, ![r] = s]
      BY <2>3, <2>4, <2>5, <2>8
    <3> QED BY <2>0, <2>8, <3>1
  <2> QED BY <2>7, <2>8
<1>8. /\ u[h] = FreeSlot
      /\ u[r] = IF t[r].refs = 1 THEN FreeSlot ELSE [t[r] EXCEPT !.refs = t[r].refs - 1]
      /\ \A g \in Handles : g # h /\ g # r => u[g] = t[g]
  BY <1>3, <1>4, <1>7
<1>9. u \in Tables
  <2>1. t[r].refs # 1 => [t[r] EXCEPT !.refs = t[r].refs - 1] \in Slot
    <3>1. t[r].refs - 1 \in Nat
      BY <1>4
    <3> QED BY <1>4, <3>1 DEF Slot
  <2> QED BY <1>4, <1>6, <1>7, <2>1 DEF Tables
<1>10. u[h].used = 0
  BY <1>8 DEF FreeSlot
<1>13. Lessens(t, u)
  <2>1. t[r].refs # 1 => /\ u[r].alias = t[r].alias /\ u[r].owner = t[r].owner
                         /\ u[r].file = t[r].file
    BY <1>4, <1>8 DEF Slot
  <2>2. t[r].refs = 1 => u[r].used = 0
    BY <1>8 DEF FreeSlot
  <2>3. ASSUME NEW g \in Handles, u[g].used # 0
        PROVE  /\ t[g].used # 0 /\ u[g].alias = t[g].alias
               /\ u[g].owner = t[g].owner /\ u[g].file = t[g].file
    <3>1. g # h
      BY <1>10, <2>3
    <3>2. CASE g = r
      BY <1>3, <2>1, <2>2, <2>3, <3>2
    <3>3. CASE g # r
      BY <1>8, <2>3, <3>1, <3>3
    <3> QED BY <3>2, <3>3
  <2> QED BY <2>3 DEF Lessens
<1>11. CASE t[r].refs = 1
  <2>1. \A g \in Handles : g # h => ~Refers(t, g, r)
    <3>1. Cardinality(RefSet(t, J, r)) = 1
      BY <1>4, <1>11
    <3> QED BY <1>5, <3>1, LastOne, Zenon
  <2>2. t[r].used # 1 /\ u[r].used = 0
    BY <1>3, <1>8, <1>11, <2>1 DEF Refers, Root, FreeSlot
  <2>3. SameBut(t, u, h)
    <3> SUFFICES ASSUME NEW g \in Handles \ {h}
        PROVE  /\ u[g].used = 1 <=> t[g].used = 1
               /\ t[g].used = 1 => u[g].alias = t[g].alias /\ u[g].owner = t[g].owner
      BY DEF SameBut
    <3>1. CASE g = r
      BY <2>2, <3>1
    <3>2. CASE g # r
      BY <1>8, <3>2
    <3> QED BY <3>1, <3>2
  <2>4. \A g : g # r => RefSet(u, K, g) = RefSet(t, J, g)
    <3>1. u[h].used # 1
      BY <1>10
    <3>2. \A g : g # Root(t, h) => RefSet(u, K, g) = RefSet(t, J, g)
      <4>1. Dropped(t, J, u, K, h)
        BY <2>3, <3>1, Dropping
      <4> QED BY <4>1 DEF Dropped
    <3> QED BY <1>3, <3>2
  <2>5. ASSUME NEW g \in Handles, u[g].used # 0
        PROVE  IF IsAlias(u, g) THEN AliasRight(u, g) ELSE RootRight(u, K, g)
    <3>1. g # h /\ g # r
      BY <1>10, <2>2, <2>5
    <3>2. u[g] = t[g] /\ t[g].used # 0
      BY <1>8, <2>5, <3>1
    <3>3. CASE IsAlias(t, g)
      <4>1. AliasRight(t, g) /\ t[g].alias \in Handles /\ t[t[g].alias].used # 0 /\ t[g].used = 1
        BY <3>2, <3>3, SlotHas DEF Counted, AliasRight, Usable
      <4>2. t[g].alias # r
        BY <2>1, <3>1, <3>3, <4>1 DEF Refers, Root
      <4>3. t[g].alias # h
        BY <3>3, <4>1 DEF AliasRight, Usable
      <4>4. u[t[g].alias] = t[t[g].alias]
        BY <1>8, <4>1, <4>2, <4>3
      <4> QED BY <3>2, <3>3, <4>1, <4>4 DEF AliasRight, Usable, IsAlias
    <3>4. CASE ~IsAlias(t, g)
      <4>1. RootRight(t, J, g)
        BY <3>2, <3>4 DEF Counted
      <4> QED BY <2>4, <3>1, <3>2, <3>4, <4>1 DEF RootRight, IsAlias
    <3> QED BY <3>3, <3>4
  <2>6. Counted(u, K)
    BY <2>5 DEF Counted
  <2> QED BY <1>1, <1>9, <1>10, <1>13, <2>3, <2>6
<1>12. CASE t[r].refs # 1
  <2>1. /\ u[r].used = t[r].used /\ u[r].alias = t[r].alias /\ u[r].owner = t[r].owner
        /\ u[r].file = t[r].file /\ u[r].refs = t[r].refs - 1
    BY <1>4, <1>8, <1>12 DEF Slot
  <2>3. SameBut(t, u, h)
    BY <1>8, <2>1 DEF SameBut
  <2>4. \A g : /\ RefSet(u, K, g) = RefSet(t, J, g) \ {<<0, h>>}
               /\ g # r => RefSet(u, K, g) = RefSet(t, J, g)
    <3>1. u[h].used # 1
      BY <1>10
    <3>2. \A g : /\ RefSet(u, K, g) = RefSet(t, J, g) \ {<<0, h>>}
                 /\ g # Root(t, h) => RefSet(u, K, g) = RefSet(t, J, g)
      <4>1. Dropped(t, J, u, K, h)
        BY <2>3, <3>1, Dropping
      <4> QED BY <4>1 DEF Dropped
    <3> QED BY <1>3, <3>2
  <2>5. ASSUME NEW g \in Handles, u[g].used # 0
        PROVE  IF IsAlias(u, g) THEN AliasRight(u, g) ELSE RootRight(u, K, g)
    <3>1. g # h
      BY <1>10, <2>5
    <3>5. CASE g = r
      <4>1. Cardinality(RefSet(u, K, r)) = Cardinality(RefSet(t, J, r)) - 1
        BY <1>5, <2>4, RefSetFinite, WithoutOne
      <4>2. ~IsAlias(u, r)
        BY <1>3, <2>1 DEF IsAlias
      <4> QED BY <1>4, <1>12, <2>1, <3>5, <4>1, <4>2 DEF RootRight
    <3>6. CASE g # r
      <4>2. u[g] = t[g] /\ t[g].used # 0
        BY <1>8, <2>5, <3>1, <3>6
      <4>3. CASE IsAlias(t, g)
        <5>1. AliasRight(t, g) /\ t[g].alias \in Handles /\ t[t[g].alias].used # 0
          BY <4>2, <4>3, SlotHas DEF Counted, AliasRight, Usable
        <5>3. t[g].alias # h
          BY <4>3, <5>1 DEF AliasRight, Usable
        <5>4. u[t[g].alias].used # 0 /\ u[t[g].alias].alias = t[t[g].alias].alias
          BY <1>8, <2>1, <5>1, <5>3
        <5> QED BY <4>2, <4>3, <5>1, <5>4 DEF AliasRight, Usable, IsAlias
      <4>4. CASE ~IsAlias(t, g)
        <5>1. RootRight(t, J, g)
          BY <4>2, <4>4 DEF Counted
        <5> QED BY <2>4, <3>6, <4>2, <4>4, <5>1 DEF RootRight, IsAlias
      <4> QED BY <4>3, <4>4
    <3> QED BY <3>5, <3>6
  <2>6. Counted(u, K)
    BY <2>5 DEF Counted
  <2> QED BY <1>1, <1>9, <1>10, <1>13, <2>3, <2>6
<1> QED BY <1>11, <1>12

LEMMA CloseOwnRootKeeps ==
  ASSUME NEW t \in Tables, NEW J \in Jfts, NEW K \in Jfts, Counted(t, J),
         NEW h \in Handles, t[h].used = 1, t[h].owner >= Len(J),
         SameJftBut(J, K, h), ~IsAlias(t, h)
  PROVE  LET u == CloseTable(t, h, {}) IN
         /\ u \in Tables /\ Counted(u, K) /\ SameBut(t, u, h) /\ Lessens(t, u)
         /\ u[h].used = IF t[h].refs <= 1 THEN 0 ELSE 2
<1>1. PICK u : u = CloseTable(t, h, {})
  OBVIOUS
<1>3. Root(t, h) = h
  BY DEF Root
<1>4. /\ t[h].refs = Cardinality(RefSet(t, J, h)) /\ t[h].refs > 0 /\ t[h].file # NONE
      /\ t[h].refs \in Nat /\ t[h] \in Slot /\ t \in [Handles -> Slot]
  BY RootHas, SlotHas DEF Tables
<1>5. <<0, h>> \in RefSet(t, J, h)
  BY <1>3, AtFirst
<1>6. FreeSlot \in Slot
  BY Constants DEF FreeSlot, Slot
<1>7. u = IF t[h].refs <= 1 THEN [t EXCEPT ![h] = FreeSlot]
          ELSE [t EXCEPT ![h] = [t[h] EXCEPT !.used = 2, !.refs = t[h].refs - 1]]
  <2>1. LastReference(t, h) <=> t[h].refs <= 1
    BY DEF LastReference
  <2>2. CloseRoot(t, h, {}) = [t EXCEPT ![h] = FreeSlot]
    BY DEF CloseRoot
  <2>3. PICK s : s = [t[h] EXCEPT !.used = 2, !.refs = t[h].refs - 1]
    OBVIOUS
  <2>4. [t EXCEPT ![h].used = 2, ![h].refs = @ - 1] = [t EXCEPT ![h] = s]
    BY <1>4, <2>3 DEF Slot
  <2>5. u = IF LastReference(t, h) THEN CloseRoot(t, h, {})
            ELSE [t EXCEPT ![h].used = 2, ![h].refs = @ - 1]
    BY <1>1 DEF CloseTable
  <2> QED BY <2>1, <2>2, <2>3, <2>4, <2>5
<1>8. /\ u[h] = IF t[h].refs <= 1 THEN FreeSlot ELSE [t[h] EXCEPT !.used = 2, !.refs = t[h].refs - 1]
      /\ \A g \in Handles : g # h => u[g] = t[g]
  BY <1>4, <1>7
<1>9. u \in Tables
  <2>1. t[h].refs > 1 => [t[h] EXCEPT !.used = 2, !.refs = t[h].refs - 1] \in Slot
    <3>1. t[h].refs > 1 => t[h].refs - 1 \in Nat
      BY <1>4
    <3>2. 2 \in 0 .. 2
      OBVIOUS
    <3> QED BY <1>4, <3>1, <3>2 DEF Slot
  <2> QED BY <1>4, <1>6, <1>7, <2>1 DEF Tables
<1>10. u[h].used = IF t[h].refs <= 1 THEN 0 ELSE 2
  BY <1>4, <1>8 DEF FreeSlot, Slot
<1>11. u[h].used # 1
  BY <1>10
<1>12. SameBut(t, u, h)
  BY <1>8 DEF SameBut
<1>13. \A g : /\ RefSet(u, K, g) = RefSet(t, J, g) \ {<<0, h>>}
              /\ g # h => RefSet(u, K, g) = RefSet(t, J, g)
  <2>1. Dropped(t, J, u, K, h)
    BY <1>11, <1>12, Dropping
  <2> QED BY <1>3, <2>1 DEF Dropped
<1>14. ASSUME NEW g \in Handles, u[g].used # 0
       PROVE  IF IsAlias(u, g) THEN AliasRight(u, g) ELSE RootRight(u, K, g)
  <2>1. CASE g = h
    <3>1. /\ t[h].refs > 1 /\ u[h].refs = t[h].refs - 1 /\ u[h].alias = t[h].alias
          /\ u[h].file = t[h].file
      BY <1>4, <1>8, <1>10, <1>14, <2>1 DEF Slot
    <3>2. Cardinality(RefSet(u, K, h)) = Cardinality(RefSet(t, J, h)) - 1
      BY <1>5, <1>13, RefSetFinite, WithoutOne
    <3>3. ~IsAlias(u, h)
      BY <3>1 DEF IsAlias
    <3> QED BY <1>4, <2>1, <3>1, <3>2, <3>3 DEF RootRight
  <2>2. CASE g # h
    <3>1. u[g] = t[g] /\ t[g].used # 0
      BY <1>8, <1>14, <2>2
    <3>2. CASE IsAlias(t, g)
      <4>1. AliasRight(t, g) /\ t[g].alias \in Handles /\ t[t[g].alias].used # 0 /\ t[g].used = 1
        BY <3>1, <3>2, SlotHas DEF Counted, AliasRight, Usable
      <4>2. t[g].alias = h => t[h].refs > 1
        <5>1. ASSUME t[g].alias = h, t[h].refs <= 1 PROVE FALSE
          <6>1. Cardinality(RefSet(t, J, h)) = 1
            BY <1>4, <5>1
          <6>2. ~Refers(t, g, h)
            BY <1>5, <2>2, <6>1, LastOne
          <6> QED BY <3>2, <4>1, <5>1, <6>2 DEF Refers, Root
        <5> QED BY <1>4, <5>1
      <4>3. u[t[g].alias].used # 0 /\ u[t[g].alias].alias = t[t[g].alias].alias
        <5>1. CASE t[g].alias = h
          <6>1. u[h] = [t[h] EXCEPT !.used = 2, !.refs = t[h].refs - 1]
            BY <1>4, <1>8, <4>2, <5>1
          <6>2. u[h].used = 2 /\ u[h].alias = t[h].alias
            BY <1>4, <6>1 DEF Slot
          <6> QED BY <5>1, <6>2
        <5>2. CASE t[g].alias # h
          BY <1>8, <4>1, <5>2
        <5> QED BY <5>1, <5>2
      <4> QED BY <3>1, <3>2, <4>1, <4>3 DEF AliasRight, Usable, IsAlias
    <3>3. CASE ~IsAlias(t, g)
      <4>1. RootRight(t, J, g)
        BY <3>1, <3>3 DEF Counted
      <4> QED BY <1>13, <2>2, <3>1, <3>3, <4>1 DEF RootRight, IsAlias
    <3> QED BY <3>2, <3>3
  <2> QED BY <2>1, <2>2
<1>16. Lessens(t, u)
  <2>1. u[h].used # 0 => /\ u[h].alias = t[h].alias /\ u[h].owner = t[h].owner
                         /\ u[h].file = t[h].file
    <3>1. u[h].used # 0 => u[h] = [t[h] EXCEPT !.used = 2, !.refs = t[h].refs - 1]
      BY <1>8, <1>10
    <3> QED BY <1>4, <3>1 DEF Slot
  <2>2. ASSUME NEW g \in Handles, u[g].used # 0
        PROVE  /\ t[g].used # 0 /\ u[g].alias = t[g].alias
               /\ u[g].owner = t[g].owner /\ u[g].file = t[g].file
    <3>1. CASE g = h
      BY <2>1, <2>2, <3>1
    <3>2. CASE g # h
      BY <1>8, <2>2, <3>2
    <3> QED BY <3>1, <3>2
  <2> QED BY <2>2 DEF Lessens
<1>15. Counted(u, K)
  BY <1>14 DEF Counted
<1> QED BY <1>1, <1>9, <1>10, <1>12, <1>15, <1>16

(* A close that saves its file gives up exactly the handle's reference.    *)
LEMMA CloseKeeps ==
  ASSUME WordHolds, NEW t \in Tables, NEW J \in Jfts, NEW K \in Jfts, Counted(t, J),
         Len(J) <= MaxDepth + 1, NEW h \in Handles, t[h].used = 1, t[h].owner >= Len(J),
         SameJftBut(J, K, h)
  PROVE  LET u == CloseTable(t, h, {}) IN
         /\ u \in Tables /\ Counted(u, K) /\ SameBut(t, u, h) /\ Lessens(t, u) /\ u[h].used # 1
         /\ (IsAlias(t, h) \/ t[h].refs <= 1) => u[h].used = 0
BY CloseAliasKeeps, CloseOwnRootKeeps

-----------------------------------------------------------------------------
(* A root replaced by its lowest alias *)

LEMMA LowestAlias ==
  ASSUME NEW t, NEW c, Aliases(t, c) # {}
  PROVE  /\ Min(Aliases(t, c)) \in Aliases(t, c)
         /\ \A g \in Aliases(t, c) : g \in Handles
<1>1. Aliases(t, c) \subseteq Nat
  BY Constants DEF Aliases
<1>2. Min(Aliases(t, c)) \in Aliases(t, c)
  BY <1>1, NatHasMin
<1> QED BY <1>2 DEF Aliases

(* What a table u is like when n has taken the place of c in t.            *)
TakesPlace(t, u, c, n, refs) ==
    /\ u[c] = FreeSlot
    /\ u[n].used = 1 /\ u[n].alias = NONE /\ u[n].refs = refs
    /\ u[n].owner = t[n].owner /\ u[n].file = t[c].file
    /\ \A g \in Aliases(t, c) \ {n} :
         /\ u[g].used = 1 /\ u[g].alias = n /\ u[g].refs = t[g].refs
         /\ u[g].owner = t[g].owner /\ u[g].file = t[g].file
    /\ \A g \in Handles : g # c /\ g \notin Aliases(t, c) => u[g] = t[g]

LEMMA PromoteIs ==
  ASSUME NEW t \in Tables, NEW c \in Handles, ~IsAlias(t, c), NEW refs \in Nat, Aliases(t, c) # {}
  PROVE  LET n == Min(Aliases(t, c)) IN
         /\ n \in Aliases(t, c) /\ n # c /\ c \notin Aliases(t, c)
         /\ Promote(t, c, refs) \in Tables
         /\ TakesPlace(t, Promote(t, c, refs), c, n, refs)
<1>1. PICK n : n = Min(Aliases(t, c))
  OBVIOUS
<1>2. n \in Aliases(t, c) /\ n \in Handles
  BY <1>1, LowestAlias
<1>3. \A g \in Aliases(t, c) : g \in Handles /\ g # c /\ t[g].used = 1 /\ t[g].alias = c
  BY Constants DEF Aliases, IsAlias
<1>4. PICK v : v = [t[n] EXCEPT !.alias = NONE, !.refs = refs, !.file = t[c].file]
  OBVIOUS
<1>5. v \in Slot /\ v.used = 1 /\ v.alias = NONE /\ v.refs = refs /\ v.owner = t[n].owner /\ v.file = t[c].file
  <2>1. t[n] \in Slot /\ t[c].file \in Files \cup {CON, NONE} /\ t[n].used = 1
    BY <1>2, <1>3, SlotHas
  <2> QED BY <1>4, <2>1 DEF Slot
<1>6. ASSUME NEW g \in Aliases(t, c)
      PROVE  LET w == [t[g] EXCEPT !.alias = n] IN
             /\ w \in Slot /\ w.used = 1 /\ w.alias = n /\ w.refs = t[g].refs
             /\ w.owner = t[g].owner /\ w.file = t[g].file
  <2>1. t[g] \in Slot /\ t[g].used = 1
    BY <1>3, <1>6, SlotHas
  <2> QED BY <1>2, <2>1 DEF Slot
<1>7. FreeSlot \in Slot /\ \A g \in Handles : t[g] \in Slot
  BY Constants DEF FreeSlot, Slot, Tables
<1>8. PICK u : u = Promote(t, c, refs)
  OBVIOUS
<1>9. u = [h \in Handles |->
            CASE h = c -> FreeSlot
              [] h = n -> v
              [] h \in Aliases(t, c) \ {n} -> [t[h] EXCEPT !.alias = n]
              [] OTHER -> t[h]]
  BY <1>1, <1>4, <1>8 DEF Promote
<1>10. u[c] = FreeSlot
  <2>1. c # n /\ c \notin Aliases(t, c)
    BY <1>2, <1>3
  <2> QED BY <1>9, <2>1
<1>11. u[n] = v
  <2>1. n # c
    BY <1>2, <1>3
  <2> QED BY <1>2, <1>9, <2>1
<1>12. ASSUME NEW g \in Aliases(t, c) \ {n} PROVE u[g] = [t[g] EXCEPT !.alias = n]
  <2>1. g \in Handles /\ g # c /\ g # n
    BY <1>3, <1>12
  <2> QED BY <1>9, <1>12, <2>1
<1>13. ASSUME NEW g \in Handles, g # c, g \notin Aliases(t, c) PROVE u[g] = t[g]
  <2>1. g # n /\ g \notin Aliases(t, c) \ {n}
    BY <1>2, <1>13
  <2>2. u[g] = CASE g = c -> FreeSlot
                 [] g = n -> v
                 [] g \in Aliases(t, c) \ {n} -> [t[g] EXCEPT !.alias = n]
                 [] OTHER -> t[g]
    BY <1>9, <1>13, Zenon
  <2> QED BY ONLY <1>13, <2>1, <2>2
<1>14. TakesPlace(t, u, c, n, refs)
  <2>1. /\ u[n].used = 1 /\ u[n].alias = NONE /\ u[n].refs = refs
        /\ u[n].owner = t[n].owner /\ u[n].file = t[c].file
    BY <1>5, <1>11, Zenon
  <2>2. \A g \in Aliases(t, c) \ {n} :
          /\ u[g].used = 1 /\ u[g].alias = n /\ u[g].refs = t[g].refs
          /\ u[g].owner = t[g].owner /\ u[g].file = t[g].file
    <3> SUFFICES ASSUME NEW g \in Aliases(t, c) \ {n}
                 PROVE  /\ u[g].used = 1 /\ u[g].alias = n /\ u[g].refs = t[g].refs
                        /\ u[g].owner = t[g].owner /\ u[g].file = t[g].file
      OBVIOUS
    <3>1. u[g] = [t[g] EXCEPT !.alias = n] /\ g \in Aliases(t, c)
      BY <1>12
    <3> QED BY <1>6, <3>1, Zenon
  <2>3. \A g \in Handles : g # c /\ g \notin Aliases(t, c) => u[g] = t[g]
    BY <1>13, Zenon
  <2> QED BY <1>10, <2>1, <2>2, <2>3, Zenon DEF TakesPlace
<1>15. u \in Tables
  <2>1. DOMAIN u = Handles /\ u = [h \in Handles |-> u[h]]
    BY <1>9
  <2>2. ASSUME NEW g \in Handles PROVE u[g] \in Slot
    <3>1. CASE g = c
      BY <1>7, <1>10, <3>1
    <3>2. CASE g = n
      BY <1>5, <1>11, <3>2
    <3>3. CASE g \in Aliases(t, c) \ {n}
      BY <1>6, <1>12, <3>3
    <3>4. CASE g # c /\ g \notin Aliases(t, c)
      BY <1>7, <1>13, <3>4
    <3> QED BY <3>1, <3>2, <3>3, <3>4
  <2> QED BY <2>1, <2>2 DEF Tables
<1> QED BY <1>1, <1>2, <1>3, <1>8, <1>14, <1>15

LEMMA PlaceTaken ==
  ASSUME NEW t \in Tables, NEW J \in Jfts, Counted(t, J), NEW u \in Tables,
         NEW c \in Handles, t[c].used # 0, ~IsAlias(t, c), t[c].owner >= Len(J),
         NEW n \in Aliases(t, c), n # c, c \notin Aliases(t, c), NEW refs \in Nat,
         TakesPlace(t, u, c, n, refs), NEW r \in Handles, r # c
  PROVE  RefSet(u, J, r) = IF r = n THEN RefSet(t, J, c) \ {<<0, c>>} ELSE RefSet(t, J, r)
<1>1. n \in Handles /\ t[n].used = 1 /\ t[n].alias = c /\ IsAlias(t, n)
  BY Constants DEF Aliases, IsAlias
<1>2. u[c].used = 0
  BY DEF TakesPlace, FreeSlot
<1>3. ASSUME NEW g \in Handles, g # c
      PROVE  /\ u[g].used = 1 <=> t[g].used = 1
             /\ t[g].used = 1 => /\ u[g].owner = t[g].owner
                                 /\ Root(t, g) = c => Root(u, g) = n
                                 /\ Root(t, g) # c => Root(u, g) = Root(t, g)
                                 /\ Root(t, g) # n
  <2>1. CASE g = n
    BY <1>1, <2>1 DEF TakesPlace, Root, IsAlias
  <2>2. CASE g \in Aliases(t, c) \ {n}
    <3>1. t[g].used = 1 /\ t[g].alias = c /\ u[g].used = 1 /\ u[g].alias = n /\ u[g].owner = t[g].owner
      BY <2>2 DEF Aliases, TakesPlace
    <3> QED BY <1>1, <1>3, <3>1, Constants DEF Root, IsAlias
  <2>3. CASE g \notin Aliases(t, c)
    <3>1. u[g] = t[g]
      BY <1>3, <2>3 DEF TakesPlace
    <3>2. t[g].used = 1 => Root(t, g) # c
      BY <1>3, <2>3 DEF Root, IsAlias, Aliases
    <3>3. t[g].used = 1 => Root(t, g) # n
      BY <1>1, CountedRefers
    <3> QED BY <3>1, <3>2, <3>3 DEF Root, IsAlias
  <2> QED BY <2>1, <2>2, <2>3
<1>4. ASSUME NEW p \in Nat, NEW g \in Handles
      PROVE  <<p, g>> \in RefSet(u, J, r) <=>
                IF r = n THEN <<p, g>> \in RefSet(t, J, c) /\ <<p, g>> # <<0, c>>
                ELSE <<p, g>> \in RefSet(t, J, r)
  <2>1. CASE g = c
    <3>1. <<p, c>> \notin RefSet(u, J, r)
      BY <1>2, RefSetHas DEF Refers
    <3>2. <<p, c>> \in RefSet(t, J, c) => p = 0
      BY OwnNotInherited, RefSetHas
    <3>3. <<p, c>> \notin RefSet(t, J, r)
      BY RefSetHas DEF Refers, Root
    <3> QED BY <2>1, <3>1, <3>2, <3>3
  <2>2. CASE g # c
    <3>1. t[g].used = 1 => (Inherits(u, J, p, g) <=> Inherits(t, J, p, g))
      BY <1>3, <2>2 DEF Inherits
    <3>2. Refers(u, g, r) <=> IF r = n THEN Refers(t, g, c) ELSE Refers(t, g, r)
      <4>1. CASE t[g].used = 1
        BY <1>3, <2>2, <4>1 DEF Refers
      <4>2. CASE t[g].used # 1
        BY <1>3, <2>2, <4>2 DEF Refers
      <4> QED BY <4>1, <4>2
    <3> QED BY <2>2, <3>1, <3>2, RefSetHas DEF Refers
  <2> QED BY <2>1, <2>2
<1>5. PICK S : S = RefSet(u, J, r)
  OBVIOUS
<1>6. PICK T : T = IF r = n THEN RefSet(t, J, c) \ {<<0, c>>} ELSE RefSet(t, J, r)
  OBVIOUS
<1>7. S \subseteq Nat \X Handles /\ T \subseteq Nat \X Handles
  BY <1>5, <1>6, RefSetHas
<1>8. \A p \in Nat, g \in Handles : <<p, g>> \in S <=> <<p, g>> \in T
  BY <1>4, <1>5, <1>6
<1>9. S = T
  BY ONLY <1>7, <1>8, PairsEqual
<1> QED BY <1>5, <1>6, <1>9

LEMMA PromoteKeeps ==
  ASSUME NEW t \in Tables, NEW J \in Jfts, Counted(t, J), NEW c \in Handles,
         t[c].owner >= Len(J), OthersShare(t, c), Aliases(t, c) # {}
  PROVE  LET u == Promote(t, c, OtherReferences(t, c)) IN
         /\ u \in Tables /\ Counted(u, J) /\ u[c].used = 0
         /\ \A g \in Handles \ {c} :
              /\ u[g].used = 1 <=> t[g].used = 1
              /\ u[g].used = 1 => u[g].owner = t[g].owner
         /\ \A g \in Handles \ {c} : ~IsAlias(t, g) => u[g] = t[g]
<1>1. ~IsAlias(t, c) /\ t[c].used # 0
  <2>1. t[c].used = 2 => ~IsAlias(t, c)
    BY DEF Counted, AliasRight, Usable
  <2> QED BY <2>1 DEF OthersShare
<1>2. PICK k : k = OtherReferences(t, c)
  OBVIOUS
<1>3. PICK u : u = Promote(t, c, k)
  OBVIOUS
<1>4. PICK n : n = Min(Aliases(t, c))
  OBVIOUS
<1>5. /\ t[c].refs = Cardinality(RefSet(t, J, c)) /\ t[c].refs > 0 /\ t[c].file # NONE
      /\ t[c].refs \in Nat
  BY <1>1, RootHas, SlotHas
<1>6. k \in Nat
  BY <1>2, <1>5 DEF OtherReferences
<1>7. /\ n \in Aliases(t, c) /\ n # c /\ c \notin Aliases(t, c) /\ u \in Tables
      /\ TakesPlace(t, u, c, n, k)
  BY <1>1, <1>3, <1>4, <1>6, PromoteIs
<1>8. /\ n \in Handles /\ t[n].used = 1 /\ t[n].alias = c /\ IsAlias(t, n)
  BY <1>7, Constants DEF Aliases, IsAlias
<1>9. u[c].used = 0
  BY <1>7 DEF TakesPlace, FreeSlot
<1>10. \A r \in Handles : r # c =>
          RefSet(u, J, r) = IF r = n THEN RefSet(t, J, c) \ {<<0, c>>} ELSE RefSet(t, J, r)
  BY <1>1, <1>6, <1>7, PlaceTaken
<1>11. ~IsAlias(u, n) /\ u[n].refs = k /\ u[n].used = 1 /\ u[n].file = t[c].file
  BY <1>7 DEF TakesPlace, IsAlias
<1>12. RootRight(u, J, n)
  <2>1. RefSet(u, J, n) = RefSet(t, J, c) \ {<<0, c>>}
    BY <1>7, <1>8, <1>10
  <2>2. CASE t[c].used = 1
    <3>1. <<0, c>> \in RefSet(t, J, c)
      BY <1>1, <2>2, AtFirst DEF Root
    <3>2. Cardinality(RefSet(u, J, n)) = Cardinality(RefSet(t, J, c)) - 1
      BY <2>1, <3>1, RefSetFinite, WithoutOne
    <3>3. k = t[c].refs - 1 /\ t[c].refs > 1
      BY <1>2, <2>2 DEF OtherReferences, OthersShare
    <3> QED BY <1>5, <1>11, <3>2, <3>3 DEF RootRight
  <2>3. CASE t[c].used # 1
    <3>1. <<0, c>> \notin RefSet(t, J, c)
      BY <2>3, RefSetHas DEF Refers
    <3>2. RefSet(u, J, n) = RefSet(t, J, c)
      BY <2>1, <3>1
    <3>3. k = t[c].refs
      BY <1>2, <2>3 DEF OtherReferences
    <3> QED BY <1>5, <1>11, <3>2, <3>3 DEF RootRight
  <2> QED BY <2>2, <2>3
<1>13. ASSUME NEW g \in Handles, u[g].used # 0
       PROVE  IF IsAlias(u, g) THEN AliasRight(u, g) ELSE RootRight(u, J, g)
  <2>0. g # c
    BY <1>9, <1>13
  <2>1. CASE g = n
    BY <1>11, <1>12, <2>1
  <2>2. CASE g \in Aliases(t, c) \ {n}
    <3>1. /\ u[g].used = 1 /\ u[g].alias = n /\ u[g].refs = t[g].refs /\ u[g].file = t[g].file
          /\ t[g].used = 1 /\ IsAlias(t, g)
      BY <1>7, <2>2, Constants DEF TakesPlace, Aliases, IsAlias
    <3>2. t[g].refs = 0 /\ t[g].file = NONE
      BY <3>1 DEF Counted, AliasRight
    <3>3. IsAlias(u, g)
      BY <1>8, <3>1, Constants DEF IsAlias
    <3> QED BY <1>11, <3>1, <3>2, <3>3 DEF AliasRight, Usable
  <2>3. CASE g \notin Aliases(t, c)
    <3>1. u[g] = t[g] /\ t[g].used # 0
      BY <1>7, <1>13, <2>0, <2>3 DEF TakesPlace
    <3>2. CASE IsAlias(t, g)
      <4>1. /\ AliasRight(t, g) /\ t[g].alias \in Handles /\ t[t[g].alias].used # 0 /\ t[g].used = 1
            /\ ~IsAlias(t, t[g].alias)
        BY <3>1, <3>2, SlotHas DEF Counted, AliasRight, Usable
      <4>2. t[g].alias # c
        BY <2>3, <4>1 DEF Aliases
      <4>3. t[g].alias \notin Aliases(t, c)
        BY <4>1, Constants DEF Aliases, IsAlias
      <4>4. u[t[g].alias] = t[t[g].alias]
        BY <1>7, <4>1, <4>2, <4>3 DEF TakesPlace
      <4> QED BY <3>1, <3>2, <4>1, <4>4 DEF AliasRight, Usable, IsAlias
    <3>3. CASE ~IsAlias(t, g)
      <4>1. RootRight(t, J, g) /\ g # n
        BY <1>8, <3>1, <3>3 DEF Counted
      <4>2. RefSet(u, J, g) = RefSet(t, J, g)
        BY <1>10, <2>0, <4>1
      <4> QED BY <3>1, <3>3, <4>1, <4>2 DEF RootRight, IsAlias
    <3> QED BY <3>2, <3>3
  <2> QED BY <2>1, <2>2, <2>3
<1>14. Counted(u, J)
  BY <1>13 DEF Counted
<1>15. ASSUME NEW g \in Handles \ {c}
       PROVE  /\ u[g].used = 1 <=> t[g].used = 1
              /\ u[g].used = 1 => u[g].owner = t[g].owner
              /\ ~IsAlias(t, g) => u[g] = t[g]
  <2>1. CASE g \in Aliases(t, c)
    <3>1. t[g].used = 1 /\ IsAlias(t, g)
      BY <2>1, Constants DEF Aliases, IsAlias
    <3>2. u[g].used = 1 /\ u[g].owner = t[g].owner
      BY <1>7, <2>1 DEF TakesPlace
    <3> QED BY <3>1, <3>2
  <2>2. CASE g \notin Aliases(t, c)
    BY <1>7, <2>2 DEF TakesPlace
  <2> QED BY <2>1, <2>2
<1> QED BY <1>2, <1>3, <1>7, <1>9, <1>14, <1>15

-----------------------------------------------------------------------------
(* References counted at an EXEC and given back *)

SameSlots(t, u) ==
    \A h \in Handles : /\ u[h].used = t[h].used /\ u[h].alias = t[h].alias
                       /\ u[h].owner = t[h].owner /\ u[h].file = t[h].file

LEMMA SameRefs ==
  ASSUME NEW t, NEW u, SameSlots(t, u), NEW J \in Jfts, NEW r
  PROVE  RefSet(u, J, r) = RefSet(t, J, r)
<1>1. ASSUME NEW x \in (0 .. Len(J)) \X Handles
      PROVE  /\ Refers(u, x[2], r) <=> Refers(t, x[2], r)
             /\ Inherits(u, J, x[1], x[2]) <=> Inherits(t, J, x[1], x[2])
  BY DEF SameSlots, Refers, Root, IsAlias, Inherits
<1> QED BY <1>1 DEF RefSet

LEMMA Recounted ==
  ASSUME NEW t \in Tables, NEW u \in Tables, SameSlots(t, u), NEW J \in Jfts, NEW K \in Jfts,
         Counted(t, J),
         \A r \in Handles : t[r].used # 0 =>
            IF IsAlias(t, r) THEN u[r].refs = 0
            ELSE u[r].refs = Cardinality(RefSet(t, K, r)) /\ RefSet(t, K, r) # {}
  PROVE  Counted(u, K)
<1>1. ASSUME NEW g \in Handles, u[g].used # 0
      PROVE  IF IsAlias(u, g) THEN AliasRight(u, g) ELSE RootRight(u, K, g)
  <2>1. /\ t[g].used # 0 /\ (IsAlias(u, g) <=> IsAlias(t, g)) /\ u[g].file = t[g].file
        /\ u[g].used = t[g].used /\ u[g].alias = t[g].alias
    BY <1>1 DEF SameSlots, IsAlias
  <2>2. CASE IsAlias(t, g)
    <3>1. AliasRight(t, g) /\ t[g].alias \in Handles
      BY <2>1, <2>2, SlotHas DEF Counted
    <3>2. /\ u[t[g].alias].used = t[t[g].alias].used /\ u[t[g].alias].alias = t[t[g].alias].alias
          /\ u[g].refs = 0
      BY <2>1, <2>2, <3>1 DEF SameSlots
    <3> QED BY <2>1, <2>2, <3>1, <3>2 DEF AliasRight, Usable, IsAlias
  <2>3. CASE ~IsAlias(t, g)
    <3>1. t[g].file # NONE
      BY <2>1, <2>3, RootHas
    <3>2. u[g].refs = Cardinality(RefSet(t, K, g)) /\ RefSet(t, K, g) # {}
      BY <2>1, <2>3
    <3>3. RefSet(u, K, g) = RefSet(t, K, g)
      BY SameRefs
    <3>4. u[g].refs > 0
      BY <3>2, NotEmpty
    <3> QED BY <2>1, <2>3, <3>1, <3>2, <3>3, <3>4 DEF RootRight
  <2> QED BY <2>2, <2>3
<1> QED BY <1>1 DEF Counted

LEMMA ReferringIs ==
  ASSUME NEW t \in Tables, NEW J \in Jfts, Counted(t, J), NEW B \in SUBSET Handles, NEW r \in Handles
  PROVE  /\ Referring(t, B, r) = {h \in B : Refers(t, h, r)}
         /\ (t[r].used = 0 \/ IsAlias(t, r)) => {h \in B : Refers(t, h, r)} = {}
<1>1. ASSUME NEW h \in B, Refers(t, h, r) PROVE t[r].used # 0 /\ ~IsAlias(t, r)
  <2>1. h \in Handles /\ t[h].used = 1 /\ Root(t, h) = r
    BY <1>1 DEF Refers
  <2> QED BY <2>1, CountedRefers
<1>2. \A h \in B : Refers(t, h, r) <=> t[h].used = 1 /\ Root(t, h) = r /\ t[r].used # 0
  BY <1>1 DEF Refers
<1>3. Referring(t, B, r) = {h \in B : Refers(t, h, r)}
  BY <1>2 DEF Referring
<1> QED BY <1>1, <1>3

LEMMA InheritKeeps ==
  ASSUME NEW t \in Tables, NEW J \in Jfts, Counted(t, J), Owned(t, J), Len(J) > 0
  PROVE  LET u == Inherit(t, J[Len(J)])
             K == Append(J, J[Len(J)])
         IN  /\ u \in Tables /\ SameSlots(t, u) /\ K \in Jfts /\ Len(K) = Len(J) + 1
             /\ \A p \in 1 .. Len(J) : K[p] = J[p]
             /\ Counted(u, K)
<1>1. PICK B : B = J[Len(J)]
  OBVIOUS
<1>2. PICK K : K = Append(J, B)
  OBVIOUS
<1>3. PICK n \in Nat : n = Len(J) /\ n > 0
  BY JftHas
<1>4. B \in SUBSET Handles
  BY <1>1, <1>3, JftHas
<1>5. K \in Jfts /\ Len(K) = n + 1 /\ (\A p \in 1 .. n : K[p] = J[p]) /\ K[n + 1] = B
  BY <1>2, <1>3, <1>4 DEF Jfts
<1>6. PICK u : u = Inherit(t, B)
  OBVIOUS
<1>7. Deeper(t, J, K, n + 1, B)
  <2>1. ASSUME NEW q \in Nat, NEW h \in Handles, t[h].used = 1
        PROVE  Inherits(t, K, q, h) <=> Inherits(t, J, q, h) \/ (q = n + 1 /\ h \in B)
    <3>1. t[h].owner \in 1 .. n
      BY <1>3, <2>1 DEF Owned
    <3>2. CASE q <= n
      <4>1. q \in 2 .. n => K[q] = J[q]
        BY <1>5
      <4> QED BY <1>3, <1>5, <3>2, <4>1 DEF Inherits
    <3>3. CASE q = n + 1
      BY <1>3, <1>5, <3>1, <3>3 DEF Inherits
    <3>4. CASE q > n + 1
      BY <1>3, <1>5, <3>4 DEF Inherits
    <3> QED BY <1>3, <3>2, <3>3, <3>4
  <2>2. ASSUME NEW h \in B PROVE ~Inherits(t, J, n + 1, h)
    BY <1>3 DEF Inherits
  <2> QED BY <1>3, <1>4, <2>1, <2>2 DEF Deeper
<1>8. ASSUME NEW r \in Handles
      PROVE  LET X == {h \in B : Refers(t, h, r)} IN
             /\ Cardinality(X) \in Nat
             /\ Cardinality(RefSet(t, K, r)) = Cardinality(RefSet(t, J, r)) + Cardinality(X)
             /\ RefSet(t, J, r) = {} <=> RefSet(t, K, r) = {}
             /\ Referring(t, B, r) = X
             /\ (t[r].used = 0 \/ IsAlias(t, r)) => X = {}
  <2> DEFINE X == {h \in B : Refers(t, h, r)}
  <2>1. /\ IsFiniteSet(X) /\ Cardinality(X) \in Nat
        /\ Cardinality(RefSet(t, K, r)) = Cardinality(RefSet(t, J, r)) + Cardinality(X)
        /\ RefSet(t, J, r) = {} <=> RefSet(t, K, r) = {}
    <3>1. K \in Jfts
      BY <1>5
    <3> QED BY <1>7, <3>1, DeeperCounts, Zenon
  <2>2. Referring(t, B, r) = X
    BY <1>4, ReferringIs
  <2>3. (t[r].used = 0 \/ IsAlias(t, r)) => X = {}
    BY <1>4, ReferringIs
  <2> QED BY <2>1, <2>2, <2>3
<1>9. ASSUME NEW r \in Handles
      PROVE  u[r] = [t[r] EXCEPT !.refs = t[r].refs + Cardinality(Referring(t, B, r))]
  BY <1>6 DEF Inherit
<1>10. ASSUME NEW r \in Handles
       PROVE  /\ u[r] \in Slot /\ u[r].used = t[r].used /\ u[r].alias = t[r].alias
              /\ u[r].owner = t[r].owner /\ u[r].file = t[r].file
              /\ u[r].refs = t[r].refs + Cardinality(Referring(t, B, r))
  <2>1. t[r] \in Slot /\ t[r].refs \in Nat
    BY SlotHas
  <2>2. PICK k : k = Cardinality(Referring(t, B, r))
    OBVIOUS
  <2>3. k \in Nat
    BY <1>8, <2>2
  <2>4. t[r].refs + k \in Nat /\ u[r] = [t[r] EXCEPT !.refs = t[r].refs + k]
    <3>1. t[r].refs + k \in Nat
      BY <2>1, <2>3
    <3> QED BY <1>9, <2>2, <3>1
  <2>5. /\ u[r] \in Slot /\ u[r].used = t[r].used /\ u[r].alias = t[r].alias
        /\ u[r].owner = t[r].owner /\ u[r].file = t[r].file
        /\ u[r].refs = t[r].refs + k
    BY <2>1, <2>4 DEF Slot
  <2> QED BY <2>2, <2>5
<1>11. u \in Tables
  <2>1. u = [r \in Handles |-> u[r]]
    BY <1>6 DEF Inherit
  <2> QED BY <1>10, <2>1 DEF Tables
<1>12. SameSlots(t, u)
  BY <1>10 DEF SameSlots
<1>13. ASSUME NEW r \in Handles, t[r].used # 0
       PROVE  IF IsAlias(t, r) THEN u[r].refs = 0
              ELSE u[r].refs = Cardinality(RefSet(t, K, r)) /\ RefSet(t, K, r) # {}
  <2>1. CASE IsAlias(t, r)
    <3>1. t[r].refs = 0
      BY <1>13, <2>1 DEF Counted, AliasRight
    <3>2. Cardinality(Referring(t, B, r)) = 0
      BY <1>8, <2>1, FS_EmptySet
    <3> QED BY <1>10, <2>1, <3>1, <3>2
  <2>2. CASE ~IsAlias(t, r)
    <3>1. t[r].refs = Cardinality(RefSet(t, J, r)) /\ RefSet(t, J, r) # {}
      BY <1>13, <2>2, RootHas
    <3> QED BY <1>8, <1>10, <2>2, <3>1
  <2> QED BY <2>1, <2>2
<1>14. Counted(u, K)
  BY <1>5, <1>11, <1>12, <1>13, Recounted
<1> QED BY <1>1, <1>2, <1>3, <1>5, <1>6, <1>11, <1>12, <1>14

LEMMA MaxZero == \A n \in Nat : Max({0, n}) = n
BY DEF Max

LEMMA ReleaseKeeps ==
  ASSUME NEW t \in Tables, NEW J \in Jfts, NEW K \in Jfts, Counted(t, J),
         NEW B \in SUBSET Handles, NEW p, Deeper(t, K, J, p, {h \in B : t[h].owner # p})
  PROVE  LET u == ReleaseInherited(t, B, p) IN
         u \in Tables /\ SameSlots(t, u) /\ Counted(u, K)
<1>1. PICK F : F = {h \in B : t[h].owner # p}
  OBVIOUS
<1>2. F \in SUBSET Handles /\ Deeper(t, K, J, p, F)
  BY <1>1
<1>3. PICK u : u = ReleaseInherited(t, B, p)
  OBVIOUS
<1>4. u = [r \in Handles |->
              [t[r] EXCEPT !.refs = Max({0, t[r].refs - Cardinality(Referring(t, F, r))})]]
  BY <1>1, <1>3 DEF ReleaseInherited
<1>5. ASSUME NEW r \in Handles
      PROVE  LET X == {h \in F : Refers(t, h, r)} IN
             /\ Cardinality(X) \in Nat
             /\ Cardinality(RefSet(t, J, r)) = Cardinality(RefSet(t, K, r)) + Cardinality(X)
             /\ RefSet(t, K, r) = {} <=> RefSet(t, J, r) = {}
             /\ Referring(t, F, r) = X
             /\ (t[r].used = 0 \/ IsAlias(t, r)) => X = {}
  <2> DEFINE X == {h \in F : Refers(t, h, r)}
  <2>1. /\ Cardinality(X) \in Nat
        /\ Cardinality(RefSet(t, J, r)) = Cardinality(RefSet(t, K, r)) + Cardinality(X)
        /\ RefSet(t, K, r) = {} <=> RefSet(t, J, r) = {}
    BY <1>2, DeeperCounts
  <2>2. Referring(t, F, r) = X /\ ((t[r].used = 0 \/ IsAlias(t, r)) => X = {})
    BY <1>2, ReferringIs
  <2> QED BY <2>1, <2>2
<1>6. ASSUME NEW r \in Handles
      PROVE  \E k \in Nat : /\ u[r] = [t[r] EXCEPT !.refs = k]
                            /\ t[r].used # 0 => k = IF IsAlias(t, r) THEN 0
                                                   ELSE Cardinality(RefSet(t, K, r))
  <2>1. PICK x : x = Cardinality(Referring(t, F, r))
    OBVIOUS
  <2>2. x \in Nat /\ t[r].refs \in Nat
    BY <1>5, <2>1, SlotHas
  <2>3. PICK k : k = Max({0, t[r].refs - x})
    OBVIOUS
  <2>4. u[r] = [t[r] EXCEPT !.refs = k]
    BY <1>4, <2>1, <2>3
  <2>5. CASE t[r].used = 0 \/ IsAlias(t, r)
    <3>1. x = 0
      BY <1>5, <2>1, <2>5, FS_EmptySet
    <3>2. t[r].refs - x = t[r].refs
      BY <2>2, <3>1
    <3>3. k = t[r].refs
      BY <2>2, <2>3, <3>2, MaxZero
    <3>4. t[r].used # 0 => t[r].refs = 0
      BY <2>5 DEF Counted, AliasRight
    <3>5. t[r].used # 0 => IsAlias(t, r)
      BY <2>5
    <3> QED BY <2>2, <2>4, <3>3, <3>4, <3>5
  <2>6. CASE t[r].used # 0 /\ ~IsAlias(t, r)
    <3>1. t[r].refs = Cardinality(RefSet(t, J, r))
      BY <2>6, RootHas
    <3>2. PICK m : m = Cardinality(RefSet(t, K, r))
      OBVIOUS
    <3>3. m \in Nat
      BY <3>2, RefSetFinite
    <3>4. t[r].refs = m + x
      BY <1>5, <2>1, <3>1, <3>2
    <3>5. t[r].refs - x = m
      BY <2>2, <3>3, <3>4
    <3>6. k = m
      BY <2>3, <3>3, <3>5, MaxZero
    <3> QED BY <2>4, <2>6, <3>2, <3>3, <3>6
  <2> QED BY <2>5, <2>6
<1>7. ASSUME NEW r \in Handles
      PROVE  /\ u[r] \in Slot /\ u[r].used = t[r].used /\ u[r].alias = t[r].alias
             /\ u[r].owner = t[r].owner /\ u[r].file = t[r].file
             /\ t[r].used # 0 => u[r].refs = IF IsAlias(t, r) THEN 0 ELSE Cardinality(RefSet(t, K, r))
  <2>1. t[r] \in Slot
    BY SlotHas
  <2>2. PICK k \in Nat : /\ u[r] = [t[r] EXCEPT !.refs = k]
                         /\ t[r].used # 0 => k = IF IsAlias(t, r) THEN 0
                                                ELSE Cardinality(RefSet(t, K, r))
    BY <1>6
  <2>3. u[r].refs = k
    BY <2>1, <2>2 DEF Slot
  <2>4. /\ u[r] \in Slot /\ u[r].used = t[r].used /\ u[r].alias = t[r].alias
        /\ u[r].owner = t[r].owner /\ u[r].file = t[r].file
    BY <2>1, <2>2 DEF Slot
  <2> QED BY <2>2, <2>3, <2>4
<1>8. u \in Tables
  <2>1. u = [r \in Handles |-> u[r]]
    BY <1>4
  <2> QED BY <1>7, <2>1 DEF Tables
<1>9. SameSlots(t, u)
  BY <1>7 DEF SameSlots
<1>10. ASSUME NEW r \in Handles, t[r].used # 0
       PROVE  IF IsAlias(t, r) THEN u[r].refs = 0
              ELSE u[r].refs = Cardinality(RefSet(t, K, r)) /\ RefSet(t, K, r) # {}
  BY <1>5, <1>7, <1>10, RootHas
<1>11. Counted(u, K)
  BY <1>8, <1>9, <1>10, Recounted
<1> QED BY <1>3, <1>8, <1>9, <1>11

-----------------------------------------------------------------------------
(* Closing what a process owns *)

(* The tables that close_owned_handles goes through, slot by slot.         *)
Closing(g, t, p, n) ==
    g = [k \in 0 .. n |-> IF k = 0 THEN t ELSE CloseIfOwned(g[k - 1], k - 1, p, {})]

LEMMA ClosingExtends ==
  ASSUME NEW t, NEW p, NEW n \in Nat \ {0}, NEW g, Closing(g, t, p, n - 1)
  PROVE  \E f : Closing(f, t, p, n)
<1> DEFINE f == [k \in 0 .. n |-> IF k = n THEN CloseIfOwned(g[n - 1], n - 1, p, {}) ELSE g[k]]
<1>1. PICK e : e = CloseIfOwned(g[n - 1], n - 1, p, {})
  OBVIOUS
<1>2. ASSUME NEW k \in 0 .. n
      PROVE  f[k] = IF k = 0 THEN t ELSE CloseIfOwned(f[k - 1], k - 1, p, {})
  <2>1. CASE k = n
    <3>1. f[k] = CloseIfOwned(g[k - 1], k - 1, p, {}) /\ f[k - 1] = g[k - 1] /\ k # 0
      BY <2>1
    <3> QED BY <3>1
  <2>2. CASE k # n
    <3>1. k \in 0 .. n - 1
      BY <2>2
    <3>2. f[k] = g[k]
      BY <2>2
    <3>3. g[k] = IF k = 0 THEN t ELSE CloseIfOwned(g[k - 1], k - 1, p, {})
      BY <3>1 DEF Closing
    <3>4. CASE k = 0
      BY <3>2, <3>3, <3>4
    <3>5. CASE k # 0
      <4>1. f[k - 1] = g[k - 1]
        BY <2>2, <3>5
      <4> QED BY <3>2, <3>3, <3>5, <4>1
    <3> QED BY <3>4, <3>5
  <2> QED BY <2>1, <2>2
<1>3. Closing(f, t, p, n)
  BY <1>2 DEF Closing
<1> QED BY <1>3

LEMMA ClosingExists ==
  ASSUME NEW t, NEW p, NEW n \in Nat
  PROVE  \E g : Closing(g, t, p, n)
<1> DEFINE S == {m \in Nat : ~ \E g : Closing(g, t, p, m)}
<1>1. ASSUME S # {} PROVE FALSE
  <2>1. PICK m \in S : \A k \in S : m <= k
    BY <1>1, NatHasMin
  <2>2. CASE m = 0
    <3> DEFINE g == [k \in 0 .. 0 |-> t]
    <3>1. Closing(g, t, p, 0)
      BY DEF Closing
    <3> QED BY <2>1, <2>2, <3>1
  <2>3. CASE m # 0
    <3>1. m - 1 \in Nat /\ m - 1 \notin S /\ m \in Nat \ {0}
      BY <2>1, <2>3
    <3>2. PICK g : Closing(g, t, p, m - 1)
      BY <3>1
    <3>3. \E f : Closing(f, t, p, m)
      BY <3>1, <3>2, ClosingExtends
    <3> QED BY <2>1, <3>3
  <2> QED BY <2>2, <2>3
<1> QED BY <1>1

LEMMA CloseOwnedIs ==
  ASSUME NEW t, NEW p
  PROVE  \E g : Closing(g, t, p, MAX_HANDLES) /\ CloseOwned(t, p, {}) = g[MAX_HANDLES]
<1> DEFINE c == CHOOSE g : Closing(g, t, p, MAX_HANDLES)
<1>1. Closing(c, t, p, MAX_HANDLES)
  BY ClosingExists, Constants
<1>2. CloseOwned(t, p, {}) = c[MAX_HANDLES]
  BY DEF CloseOwned, Closing
<1> QED BY <1>1, <1>2

(* u is t with what p owns of the slots below n closed.                    *)
ClosedTo(t, u, J, p, n) ==
    /\ u \in Tables /\ Counted(u, J) /\ Lessens(t, u)
    /\ \A h \in Handles :
         /\ u[h].used = 1 => t[h].used = 1 /\ u[h].owner = t[h].owner
         /\ t[h].used = 1 => u[h].used = 1 \/ t[h].owner = p
         /\ h < n => ~(u[h].used = 1 /\ u[h].owner = p)

LEMMA LessensMore ==
  ASSUME NEW t, NEW u, NEW v, Lessens(t, u), Lessens(u, v)
  PROVE  Lessens(t, v)
BY DEF Lessens

LEMMA CloseNext ==
  ASSUME WordHolds, NEW t \in Tables, NEW u, NEW J \in Jfts, Len(J) <= MaxDepth + 1,
         NEW p \in Nat, p >= Len(J), NEW h \in Handles, ClosedTo(t, u, J, p, h)
  PROVE  ClosedTo(t, CloseIfOwned(u, h, p, {}), J, p, h + 1)
<1>1. u \in Tables /\ Counted(u, J) /\ h \in Nat
  BY Constants DEF ClosedTo
<1>2. PICK v : v = CloseIfOwned(u, h, p, {})
  OBVIOUS
<1>3. CASE u[h].used = 1 /\ u[h].owner = p
  <2>1. v = CloseTable(u, h, {})
    BY <1>2, <1>3 DEF CloseIfOwned
  <2>2. SameJftBut(J, J, h) /\ u[h].owner >= Len(J)
    BY <1>3 DEF SameJftBut
  <2>3. v \in Tables /\ Counted(v, J) /\ SameBut(u, v, h) /\ Lessens(u, v) /\ v[h].used # 1
    BY <1>1, <1>3, <2>1, <2>2, CloseKeeps
  <2>5. Lessens(t, v)
    BY <2>3, LessensMore DEF ClosedTo
  <2>4. ASSUME NEW g \in Handles
        PROVE  /\ v[g].used = 1 => t[g].used = 1 /\ v[g].owner = t[g].owner
               /\ t[g].used = 1 => v[g].used = 1 \/ t[g].owner = p
               /\ g < h + 1 => ~(v[g].used = 1 /\ v[g].owner = p)
    <3>0. /\ u[g].used = 1 => t[g].used = 1 /\ u[g].owner = t[g].owner
          /\ t[g].used = 1 => u[g].used = 1 \/ t[g].owner = p
          /\ g < h => ~(u[g].used = 1 /\ u[g].owner = p)
      BY DEF ClosedTo
    <3>1. CASE g = h
      BY <1>3, <2>3, <3>0, <3>1
    <3>2. CASE g # h
      <4>1. (v[g].used = 1 <=> u[g].used = 1) /\ (u[g].used = 1 => v[g].owner = u[g].owner)
        BY <2>3, <3>2 DEF SameBut
      <4>2. g < h + 1 => g < h
        BY <3>2, Constants
      <4> QED BY <3>0, <4>1, <4>2
    <3> QED BY <3>1, <3>2
  <2> QED BY <1>2, <2>3, <2>4, <2>5 DEF ClosedTo
<1>4. CASE ~(u[h].used = 1 /\ u[h].owner = p)
  <2>1. v = u
    BY <1>2, <1>4 DEF CloseIfOwned
  <2>2. ASSUME NEW g \in Handles, g < h + 1 PROVE g < h \/ g = h
    BY <2>2, Constants
  <2> QED BY <1>1, <1>2, <1>4, <2>1, <2>2 DEF ClosedTo
<1> QED BY <1>3, <1>4

LEMMA CloseOwnedKeeps ==
  ASSUME WordHolds, NEW t \in Tables, NEW J \in Jfts, Counted(t, J), Len(J) <= MaxDepth + 1,
         NEW p \in Nat, p >= Len(J)
  PROVE  ClosedTo(t, CloseOwned(t, p, {}), J, p, MAX_HANDLES)
<1>1. PICK g : Closing(g, t, p, MAX_HANDLES) /\ CloseOwned(t, p, {}) = g[MAX_HANDLES]
  BY CloseOwnedIs
<1>2. PICK M \in Nat : M = MAX_HANDLES
  BY Constants
<1>3. \A k \in 0 .. M : g[k] = IF k = 0 THEN t ELSE CloseIfOwned(g[k - 1], k - 1, p, {})
  BY <1>1, <1>2 DEF Closing
<1> DEFINE S == {n \in 0 .. M : ~ ClosedTo(t, g[n], J, p, n)}
<1>4. ASSUME S # {} PROVE FALSE
  <2>1. S \in SUBSET Nat
    BY <1>2
  <2>2. PICK m \in S : \A k \in S : m <= k
    BY <1>4, <2>1, NatHasMin
  <2>3. m \in 0 .. M /\ ~ ClosedTo(t, g[m], J, p, m)
    OBVIOUS
  <2>4. CASE m = 0
    <3>1. g[0] = t
      BY <1>2, <1>3
    <3>2. \A h \in Handles : ~(h < 0)
      BY Constants
    <3>3. ClosedTo(t, t, J, p, 0)
      BY <3>2 DEF ClosedTo, Lessens
    <3> QED BY <2>3, <2>4, <3>1, <3>3
  <2>5. CASE m # 0
    <3>1. PICK h : h = m - 1
      OBVIOUS
    <3>2. h \in 0 .. M /\ h \in Handles /\ h + 1 = m /\ h < m
      BY <1>2, <2>3, <2>5, <3>1 DEF Handles
    <3>3. h \notin S
      BY <2>2, <2>3, <3>2
    <3>4. ClosedTo(t, g[h], J, p, h)
      BY <3>2, <3>3
    <3>5. g[m] = CloseIfOwned(g[h], h, p, {})
      BY <1>3, <2>3, <2>5, <3>1
    <3>6. ClosedTo(t, CloseIfOwned(g[h], h, p, {}), J, p, h + 1)
      BY <3>2, <3>4, CloseNext
    <3> QED BY <2>3, <3>2, <3>5, <3>6
  <2> QED BY <2>4, <2>5
<1>5. M \in 0 .. M
  BY <1>2
<1>6. ClosedTo(t, g[M], J, p, M)
  BY <1>4, <1>5
<1> QED BY <1>1, <1>2, <1>6

-----------------------------------------------------------------------------
(* What the job file tables say *)

(* A handle that a process has open is in use and its own or inherited, or *)
(* it is the console: nobody has redirected it, or a descendant has.       *)
Opened(t, J) ==
    \A p \in 1 .. Len(J) : \A h \in J[p] :
        \/ t[h].used = 1 /\ t[h].owner <= p
        \/ h < N_STD /\ (t[h].used = 0 \/ t[h].owner > p)

(* A closed root is nobody's handle any more from its owner on.            *)
ClosedRoots(t, J) ==
    \A h \in Handles : t[h].used = 2 =>
        /\ t[h].owner \in 1 .. Len(J)
        /\ \A p \in 1 .. Len(J) : p >= t[h].owner => h \notin J[p]

(* Aliases are made by the root's owner and its descendants.               *)
AliasesOwned(t) ==
    \A h \in Handles : t[h].used = 1 /\ IsAlias(t, h) => t[t[h].alias].owner <= t[h].owner

Sound(t, J) ==
    /\ t \in Tables /\ J \in Jfts
    /\ Counted(t, J) /\ Owned(t, J) /\ Opened(t, J) /\ ClosedRoots(t, J) /\ AliasesOwned(t)

FileOf(t, h) == t[Root(t, h)].file

(* Nothing but h changes hands from t to u.                                *)
Others(t, u, h) ==
    \A g \in Handles \ {h} :
        /\ u[g].used = 1 <=> t[g].used = 1
        /\ u[g].used # 0 => t[g].used # 0 /\ u[g].owner = t[g].owner
        /\ u[g].used = 1 => FileOf(u, g) = FileOf(t, g)

(* Before and after, h is the running process's or free; afterwards it is  *)
(* in use exactly if the process has it open, or is the console.           *)
OwnsIt(t, u, J, K, h) ==
    /\ t[h].used = 0 \/ t[h].owner = Len(J)
    /\ u[h].used = 0 \/ u[h].owner = Len(J)
    /\ u[h].used = 1 <=> h \in K[Len(J)]
    /\ SameJftBut(J, K, h)
    /\ \A p \in 1 .. Len(J) : p # Len(J) => K[p] = J[p]

LEMMA OwnersInRange ==
  ASSUME NEW t, NEW J, Sound(t, J), NEW h \in Handles, t[h].used # 0
  PROVE  t[h].owner \in 1 .. Len(J)
<1>1. t[h].used \in 0 .. 2
  BY SlotHas DEF Sound
<1>2. t[h].used = 1 \/ t[h].used = 2
  BY <1>1
<1> QED BY <1>2 DEF Sound, Owned, ClosedRoots

LEMMA OwnStep ==
  ASSUME NEW t, NEW J, Sound(t, J), Len(J) > 0, NEW u \in Tables, NEW K \in Jfts, NEW h \in Handles,
         Others(t, u, h), OwnsIt(t, u, J, K, h), Counted(u, K), AliasesOwned(u)
  PROVE  Sound(u, K)
<1>1. PICK n \in Nat : n = Len(J) /\ n > 0 /\ Len(K) = n
  BY JftHas DEF Sound, OwnsIt, SameJftBut
<1>2. /\ t \in Tables /\ J \in Jfts /\ Owned(t, J) /\ Opened(t, J) /\ ClosedRoots(t, J)
  BY DEF Sound
<1>3. ASSUME NEW p \in 1 .. n, NEW g \in Handles, g # h PROVE g \in K[p] <=> g \in J[p]
  BY <1>1, <1>3 DEF OwnsIt, SameJftBut
<1>4. n \in 1 .. n
  BY <1>1
<1>5. Owned(u, K)
  <2>1. ASSUME NEW g \in Handles, u[g].used = 1
        PROVE  u[g].owner \in 1 .. n /\ g \in K[u[g].owner]
    <3>1. CASE g = h
      BY <1>1, <1>4, <2>1, <3>1 DEF OwnsIt
    <3>2. CASE g # h
      <4>1. t[g].used = 1 /\ u[g].owner = t[g].owner
        BY <2>1, <3>2 DEF Others
      <4>2. t[g].owner \in 1 .. n /\ g \in J[t[g].owner]
        BY <1>1, <1>2, <4>1 DEF Owned
      <4> QED BY <1>3, <3>2, <4>1, <4>2
    <3> QED BY <3>1, <3>2
  <2> QED BY <1>1, <2>1 DEF Owned
<1>6. Opened(u, K)
  <2>1. ASSUME NEW p \in 1 .. n, NEW g \in K[p]
        PROVE  \/ u[g].used = 1 /\ u[g].owner <= p
               \/ g < N_STD /\ (u[g].used = 0 \/ u[g].owner > p)
    <3>0. g \in Handles /\ p \in Nat /\ u[g].owner \in Nat /\ t[g].owner \in Nat
      BY <1>1, <1>2, <2>1, JftHas, SlotHas
    <3>1. CASE g # h
      <4>1. g \in J[p]
        BY <1>3, <3>0, <3>1
      <4>2. \/ t[g].used = 1 /\ t[g].owner <= p
            \/ g < N_STD /\ (t[g].used = 0 \/ t[g].owner > p)
        BY <1>1, <1>2, <4>1 DEF Opened
      <4>3. /\ u[g].used = 1 <=> t[g].used = 1
            /\ u[g].used # 0 => t[g].used # 0 /\ u[g].owner = t[g].owner
        BY <3>0, <3>1 DEF Others
      <4> QED BY <3>0, <4>2, <4>3
    <3>2. CASE g = h /\ p = n
      BY <1>1, <3>0, <3>2 DEF OwnsIt
    <3>3. CASE g = h /\ p # n
      <4>1. h \in J[p]
        BY <1>1, <3>3 DEF OwnsIt
      <4>2. \/ t[h].used = 1 /\ t[h].owner <= p
            \/ h < N_STD /\ (t[h].used = 0 \/ t[h].owner > p)
        BY <1>1, <1>2, <4>1 DEF Opened
      <4>3. (t[h].used = 0 \/ t[h].owner = n) /\ (u[h].used = 0 \/ u[h].owner = n)
        BY <1>1 DEF OwnsIt
      <4>4. p < n
        BY <1>1, <3>3
      <4> QED BY <1>1, <3>0, <3>3, <4>2, <4>3, <4>4
    <3> QED BY <3>1, <3>2, <3>3
  <2> QED BY <1>1, <2>1 DEF Opened
<1>7. ClosedRoots(u, K)
  <2>1. ASSUME NEW g \in Handles, u[g].used = 2
        PROVE  u[g].owner \in 1 .. n /\ \A p \in 1 .. n : p >= u[g].owner => g \notin K[p]
    <3>1. CASE g = h
      <4>1. u[g].owner = n /\ g \notin K[n]
        BY <1>1, <2>1, <3>1 DEF OwnsIt
      <4>2. \A p \in 1 .. n : p >= n => p = n
        BY <1>1
      <4> QED BY <1>4, <4>1, <4>2
    <3>2. CASE g # h
      <4>1. t[g].used = 2 /\ u[g].owner = t[g].owner
        <5>1. /\ u[g].used = 1 <=> t[g].used = 1
              /\ u[g].used # 0 => t[g].used # 0 /\ u[g].owner = t[g].owner
          BY <3>2 DEF Others
        <5>2. t[g].used \in 0 .. 2
          BY <1>2, SlotHas
        <5> QED BY <2>1, <5>1, <5>2
      <4>2. t[g].owner \in 1 .. n /\ \A p \in 1 .. n : p >= t[g].owner => g \notin J[p]
        BY <1>1, <1>2, <4>1 DEF ClosedRoots
      <4> QED BY <1>3, <3>2, <4>1, <4>2
    <3> QED BY <3>1, <3>2
  <2> QED BY <1>1, <2>1 DEF ClosedRoots
<1> QED BY <1>5, <1>6, <1>7 DEF Sound

(* A slot that holds the handle b of the running process's.                *)
LEMMA HasOpen ==
  ASSUME NEW t, NEW J, Sound(t, J), Len(J) > 0, NEW b \in J[Len(J)]
  PROVE  /\ b \in Handles
         /\ \/ ImplicitStd(t, b)
            \/ Usable(t, b) /\ t[b].used = 1 /\ t[b].owner \in 1 .. Len(J)
<1>1. PICK n \in Nat : n = Len(J) /\ n \in 1 .. n
  BY JftHas DEF Sound
<1>2. b \in Handles
  BY <1>1, JftHas DEF Sound
<1>3. \/ t[b].used = 1 /\ t[b].owner <= n
      \/ b < N_STD /\ (t[b].used = 0 \/ t[b].owner > n)
  BY <1>1 DEF Sound, Opened
<1>4. t[b].used # 0 => t[b].owner <= n
  BY <1>1, <1>2, OwnersInRange
<1>5. t[b].owner \in Nat
  BY <1>2, SlotHas DEF Sound
<1>6. t[b].used = 1 \/ (b < N_STD /\ t[b].used = 0)
  BY <1>1, <1>3, <1>4, <1>5
<1>7. t[b].used = 1 => Usable(t, b) /\ t[b].owner \in 1 .. Len(J)
  BY <1>2, CountedRefers, OwnersInRange DEF Sound
<1> QED BY <1>2, <1>6, <1>7 DEF ImplicitStd

-----------------------------------------------------------------------------
(* Who owns what, operation by operation *)

LEMMA RootMakes ==
  ASSUME NEW t \in Tables, NEW J \in Jfts, Counted(t, J), AliasesOwned(t), NEW h \in Handles,
         t[h].used = 0, NEW f, NEW u, u = [t EXCEPT ![h] = RootSlot(f)]
  PROVE  /\ Others(t, u, h) /\ AliasesOwned(u)
         /\ u[h].used = 1 /\ u[h].owner = cur /\ FileOf(u, h) = f
         /\ RootFiles(u) \subseteq RootFiles(t) \cup {f}
<1>1. u[h] = RootSlot(f) /\ \A g \in Handles : g # h => u[g] = t[g]
  BY DEF Tables
<1>2. u[h].used = 1 /\ u[h].owner = cur /\ FileOf(u, h) = f /\ ~IsAlias(u, h) /\ u[h].file = f
  BY <1>1 DEF RootSlot, FileOf, Root, IsAlias
<1>3. ASSUME NEW g \in Handles, g # h, t[g].used = 1
      PROVE  /\ u[g] = t[g] /\ u[Root(t, g)] = t[Root(t, g)] /\ Root(u, g) = Root(t, g)
             /\ IsAlias(t, g) => Root(t, g) = t[g].alias
  <2>1. Root(t, g) \in Handles /\ Root(t, g) # h
    BY <1>3, CountedRefers
  <2> QED BY <1>1, <1>3, <2>1 DEF Root, IsAlias
<1>4. Others(t, u, h)
  BY <1>1, <1>3 DEF Others, FileOf
<1>5. AliasesOwned(u)
  <2>1. ASSUME NEW g \in Handles, u[g].used = 1, IsAlias(u, g)
        PROVE  u[u[g].alias].owner <= u[g].owner
    <3>1. g # h
      BY <1>2, <2>1
    <3>2. u[g] = t[g] /\ t[g].used = 1 /\ IsAlias(t, g)
      BY <1>1, <2>1, <3>1 DEF IsAlias
    <3>3. u[t[g].alias] = t[t[g].alias]
      BY <1>3, <3>1, <3>2
    <3> QED BY <3>2, <3>3 DEF AliasesOwned
  <2> QED BY <2>1 DEF AliasesOwned
<1>6. RootFiles(u) \subseteq RootFiles(t) \cup {f}
  BY <1>1, <1>2 DEF RootFiles
<1> QED BY <1>2, <1>4, <1>5, <1>6

LEMMA AliasMakes ==
  ASSUME NEW t \in Tables, NEW J \in Jfts, Counted(t, J), AliasesOwned(t), NEW h \in Handles,
         t[h].used = 0, NEW r \in Handles, t[r].used # 0, ~IsAlias(t, r), t[r].owner <= cur,
         NEW u, u = MakeAlias(t, h, r), jft \in Jfts
  PROVE  /\ Others(t, u, h) /\ AliasesOwned(u)
         /\ u[h].used = 1 /\ u[h].owner = cur /\ FileOf(u, h) = t[r].file
         /\ RootFiles(u) \subseteq RootFiles(t)
<1>1. /\ u \in Tables /\ u[h] = AliasSlot(r) /\ h # r
      /\ u[r] = [t[r] EXCEPT !.refs = t[r].refs + 1]
      /\ \A g \in Handles : g # h /\ g # r => u[g] = t[g]
  BY MakeAliasIs
<1>2. /\ u[r].used = t[r].used /\ u[r].owner = t[r].owner /\ u[r].alias = t[r].alias
      /\ u[r].file = t[r].file
  <2>1. t[r] \in Slot
    BY SlotHas
  <2> QED BY <1>1, <2>1 DEF Slot
<1>3. /\ u[h].used = 1 /\ u[h].owner = cur /\ u[h].alias = r /\ IsAlias(u, h) /\ Root(u, h) = r
      /\ FileOf(u, h) = t[r].file /\ u[h].file = NONE
  <2>1. r # NONE
    BY Constants
  <2>2. u[h] = [used |-> 1, alias |-> r, refs |-> 0, owner |-> cur, file |-> NONE]
    BY <1>1 DEF AliasSlot
  <2>3. u[h].used = 1 /\ u[h].owner = cur /\ u[h].alias = r /\ u[h].file = NONE
    BY <2>2
  <2>4. IsAlias(u, h) /\ Root(u, h) = r
    BY <2>1, <2>3 DEF Root, IsAlias
  <2> QED BY <1>2, <2>3, <2>4 DEF FileOf
<1>4. ASSUME NEW g \in Handles, g # h
      PROVE  /\ u[g].used = t[g].used /\ u[g].owner = t[g].owner /\ u[g].alias = t[g].alias
             /\ u[g].file = t[g].file
  BY <1>1, <1>2, <1>4
<1>5. ASSUME NEW g \in Handles, g # h, t[g].used = 1
      PROVE  /\ Root(u, g) = Root(t, g) /\ u[Root(t, g)].file = t[Root(t, g)].file
             /\ u[Root(t, g)].owner = t[Root(t, g)].owner
  <2>1. Root(t, g) \in Handles /\ Root(t, g) # h
    BY <1>5, CountedRefers
  <2> QED BY <1>4, <1>5, <2>1 DEF Root, IsAlias
<1>6. Others(t, u, h)
  BY <1>4, <1>5 DEF Others, FileOf
<1>7. AliasesOwned(u)
  <2>1. ASSUME NEW g \in Handles, u[g].used = 1, IsAlias(u, g)
        PROVE  u[u[g].alias].owner <= u[g].owner
    <3>1. CASE g = h
      BY <1>2, <1>3, <3>1
    <3>2. CASE g # h
      <4>1. t[g].used = 1 /\ IsAlias(t, g) /\ u[g].alias = t[g].alias /\ u[g].owner = t[g].owner
        BY <1>4, <2>1, <3>2 DEF IsAlias
      <4>2. u[t[g].alias].owner = t[t[g].alias].owner
        BY <1>5, <3>2, <4>1 DEF Root
      <4> QED BY <4>1, <4>2 DEF AliasesOwned
    <3> QED BY <3>1, <3>2
  <2> QED BY <2>1 DEF AliasesOwned
<1>8. RootFiles(u) \subseteq RootFiles(t)
  BY <1>3, <1>4 DEF RootFiles
<1> QED BY <1>3, <1>6, <1>7, <1>8


LEMMA LessensKeeps ==
  ASSUME NEW t \in Tables, NEW u \in Tables, Lessens(t, u), NEW K \in Jfts, Counted(u, K),
         AliasesOwned(t), \A g \in Handles : u[g].used = 1 => t[g].used = 1
  PROVE  /\ AliasesOwned(u)
         /\ \A g \in Handles : u[g].used = 1 => FileOf(u, g) = FileOf(t, g)
<1>1. ASSUME NEW g \in Handles, u[g].used = 1
      PROVE  /\ FileOf(u, g) = FileOf(t, g)
             /\ IsAlias(u, g) => u[u[g].alias].owner <= u[g].owner
  <2>1. u[g].alias = t[g].alias /\ u[g].owner = t[g].owner /\ t[g].used = 1
    BY <1>1 DEF Lessens
  <2>2. Root(u, g) = Root(t, g) /\ (IsAlias(u, g) <=> IsAlias(t, g))
        /\ (IsAlias(u, g) => Root(u, g) = u[g].alias)
    BY <2>1 DEF Root, IsAlias
  <2>3. Root(u, g) \in Handles /\ u[Root(u, g)].used # 0
    BY <1>1, CountedRefers
  <2>4. u[Root(u, g)].file = t[Root(u, g)].file /\ u[Root(u, g)].owner = t[Root(u, g)].owner
    BY <2>3 DEF Lessens
  <2> QED BY <2>1, <2>2, <2>4 DEF FileOf, AliasesOwned
<1> QED BY <1>1 DEF AliasesOwned

LEMMA Closes ==
  ASSUME NEW t \in Tables, AliasesOwned(t), NEW h \in Handles, t[h].used = 1,
         NEW u \in Tables, NEW K \in Jfts, Counted(u, K), SameBut(t, u, h), Lessens(t, u),
         u[h].used # 1
  PROVE  /\ Others(t, u, h) /\ AliasesOwned(u)
         /\ u[h].used = 0 \/ u[h].owner = t[h].owner
<1>1. \A g \in Handles : u[g].used = 1 => t[g].used = 1
  BY DEF SameBut
<1>2. AliasesOwned(u) /\ \A g \in Handles : u[g].used = 1 => FileOf(u, g) = FileOf(t, g)
  BY <1>1, LessensKeeps
<1> QED BY <1>2 DEF Others, SameBut, Lessens

LEMMA Promotes ==
  ASSUME NEW t, NEW J, Sound(t, J), NEW c \in Handles, t[c].owner = Len(J), ~IsAlias(t, c),
         NEW refs \in Nat, Aliases(t, c) # {}
  PROVE  LET u == Promote(t, c, refs) IN
         /\ Others(t, u, c) /\ AliasesOwned(u)
         /\ \A g \in Handles \ {c} : Root(t, g) # c => u[g] = t[g]
<1>1. PICK u : u = Promote(t, c, refs)
  OBVIOUS
<1>2. PICK n : n = Min(Aliases(t, c))
  OBVIOUS
<1>3. t \in Tables /\ J \in Jfts /\ Counted(t, J) /\ Owned(t, J) /\ AliasesOwned(t)
  BY DEF Sound
<1>4. /\ n \in Aliases(t, c) /\ n # c /\ c \notin Aliases(t, c) /\ TakesPlace(t, u, c, n, refs)
  BY <1>1, <1>2, <1>3, PromoteIs
<1>5. n \in Handles /\ t[n].used = 1 /\ IsAlias(t, n) /\ Root(t, n) = c
  BY <1>4, Constants DEF Aliases, IsAlias, Root
<1>6. Len(J) \in Nat /\ \A g \in Handles : t[g].owner \in Nat
  BY <1>3, JftHas, SlotHas
<1>7. ASSUME NEW g \in Aliases(t, c)
      PROVE  /\ g \in Handles /\ g # c /\ t[g].used = 1 /\ Root(t, g) = c /\ t[g].owner = Len(J)
             /\ u[g].used = 1 /\ u[g].owner = t[g].owner
             /\ Root(u, g) = n /\ FileOf(u, g) = FileOf(t, g)
  <2>1. g \in Handles /\ g # c /\ t[g].used = 1 /\ IsAlias(t, g) /\ Root(t, g) = c /\ t[g].alias = c
    BY <1>4, <1>7, Constants DEF Aliases, IsAlias, Root
  <2>2. t[g].owner \in 1 .. Len(J) /\ t[c].owner <= t[g].owner
    BY <1>3, <2>1 DEF Owned, AliasesOwned
  <2>3. u[g].used = 1 /\ u[g].owner = t[g].owner
    BY <1>4, <1>7 DEF TakesPlace
  <2>4. Root(u, g) = n
    BY <1>4, <1>5, <1>7, Constants DEF TakesPlace, Root, IsAlias
  <2>5. u[n].file = t[c].file
    BY <1>4 DEF TakesPlace
  <2> QED BY <1>6, <2>1, <2>2, <2>3, <2>4, <2>5 DEF FileOf
<1>8. ASSUME NEW g \in Handles, g # c, g \notin Aliases(t, c)
      PROVE  /\ u[g] = t[g]
             /\ u[g].used = 1 => /\ Root(u, g) = Root(t, g) /\ u[Root(t, g)] = t[Root(t, g)]
                                 /\ Root(t, g) \in Handles
  <2>1. u[g] = t[g]
    BY <1>4, <1>8 DEF TakesPlace
  <2>2. ASSUME u[g].used = 1
        PROVE  Root(u, g) = Root(t, g) /\ u[Root(t, g)] = t[Root(t, g)] /\ Root(t, g) \in Handles
    <3>1. Root(t, g) \in Handles /\ ~IsAlias(t, Root(t, g))
      BY <1>3, <2>1, <2>2, CountedRefers
    <3>2. Root(t, g) # c
      BY <1>8, <2>1, <2>2 DEF Aliases, Root
    <3>3. Root(t, g) \notin Aliases(t, c)
      BY <3>1, Constants DEF Aliases, IsAlias
    <3> QED BY <1>4, <2>1, <3>1, <3>2, <3>3 DEF TakesPlace, Root, IsAlias
  <2> QED BY <2>1, <2>2
<1>9. Others(t, u, c)
  <2>1. ASSUME NEW g \in Handles \ {c}
        PROVE  /\ u[g].used = 1 <=> t[g].used = 1
               /\ u[g].used # 0 => t[g].used # 0 /\ u[g].owner = t[g].owner
               /\ u[g].used = 1 => FileOf(u, g) = FileOf(t, g)
    <3>1. CASE g \in Aliases(t, c)
      BY <1>7, <3>1
    <3>2. CASE g \notin Aliases(t, c)
      BY <1>8, <3>2 DEF FileOf
    <3> QED BY <3>1, <3>2
  <2> QED BY <2>1 DEF Others
<1>10. AliasesOwned(u)
  <2>1. ASSUME NEW g \in Handles, u[g].used = 1, IsAlias(u, g)
        PROVE  u[u[g].alias].owner <= u[g].owner
    <3>0. g # c
      BY <1>4, <2>1 DEF TakesPlace, FreeSlot
    <3>1. CASE g \in Aliases(t, c)
      <4>1. u[g].alias = n /\ u[n].owner = t[n].owner
        BY <1>4, <1>7, <2>1, <3>1 DEF Root, TakesPlace
      <4> QED BY <1>4, <1>6, <1>7, <3>1, <4>1
    <3>2. CASE g \notin Aliases(t, c)
      <4>1. u[g] = t[g] /\ u[t[g].alias] = t[t[g].alias] /\ IsAlias(t, g)
        BY <1>8, <2>1, <3>0, <3>2 DEF Root, IsAlias
      <4> QED BY <1>3, <2>1, <4>1 DEF AliasesOwned
    <3> QED BY <3>1, <3>2
  <2> QED BY <2>1 DEF AliasesOwned
<1>11. ASSUME NEW g \in Handles \ {c}, Root(t, g) # c PROVE u[g] = t[g]
  <2>1. g \notin Aliases(t, c)
    BY <1>7, <1>11
  <2> QED BY <1>8, <2>1
<1> QED BY <1>1, <1>9, <1>10, <1>11

(* What AH=46h leaves of its destination c: a free slot.                   *)
LEMMA Replaces ==
  ASSUME WordHolds, NEW t, NEW J, Sound(t, J), Len(J) <= MaxDepth + 1, NEW c \in Handles,
         t[c].used = 0 \/ t[c].owner = Len(J), ~ReplaceFails(t, c, {})
  PROVE  LET u == Replaced(t, c, {}) IN
         /\ u \in Tables /\ Counted(u, J) /\ Others(t, u, c) /\ AliasesOwned(u)
         /\ u[c].used = 0
         /\ \A g \in Handles \ {c} : t[g].used = 1 /\ Root(t, g) # c => Root(u, g) = Root(t, g)
<1>1. t \in Tables /\ J \in Jfts /\ Counted(t, J) /\ AliasesOwned(t)
  BY DEF Sound
<1>2. Len(J) \in Nat /\ t[c].owner \in Nat /\ t[c].used \in 0 .. 2 /\ t[c].refs \in Nat
  BY <1>1, JftHas, SlotHas
<1>3. PICK u : u = Replaced(t, c, {})
  OBVIOUS
<1>4. CASE t[c].used = 0
  <2>1. ~OthersShare(t, c)
    BY <1>4 DEF OthersShare
  <2>2. u = t
    BY <1>3, <1>4, <2>1 DEF Replaced
  <2> QED BY <1>1, <1>3, <1>4, <2>2 DEF Others
<1>5. CASE OthersShare(t, c)
  <2>1. Aliases(t, c) # {} /\ t[c].used # 0
    BY <1>5 DEF ReplaceFails, OthersShare
  <2>2. u = Promote(t, c, OtherReferences(t, c))
    BY <1>3, <1>5, <2>1 DEF Replaced
  <2>3. t[c].owner = Len(J) /\ t[c].owner >= Len(J)
    BY <1>2, <2>1
  <2>4. ~IsAlias(t, c)
    BY <1>1, <1>5 DEF OthersShare, Counted, AliasRight, Usable
  <2>5. OtherReferences(t, c) \in Nat
    BY <1>2, <1>5, <2>1 DEF OtherReferences, OthersShare
  <2>6. u \in Tables /\ Counted(u, J) /\ u[c].used = 0
    BY <1>1, <1>5, <2>1, <2>2, <2>3, PromoteKeeps
  <2>7. /\ Others(t, u, c) /\ AliasesOwned(u)
        /\ \A g \in Handles \ {c} : Root(t, g) # c => u[g] = t[g]
    BY <2>1, <2>2, <2>3, <2>4, <2>5, Promotes
  <2> QED BY <1>3, <2>6, <2>7 DEF Root, IsAlias
<1>6. CASE t[c].used # 0 /\ ~OthersShare(t, c)
  <2>1. t[c].used = 1
    <3>1. ASSUME t[c].used = 2 PROVE FALSE
      <4>1. t[c].refs = 0
        BY <1>6, <3>1 DEF OthersShare
      <4>2. ~IsAlias(t, c)
        BY <1>1, <3>1 DEF Counted, AliasRight, Usable
      <4> QED BY <1>1, <1>6, <4>1, <4>2, RootHas
    <3> QED BY <1>2, <1>6, <3>1
  <2>2. u = CloseTable(t, c, {})
    BY <1>3, <1>6, <2>1 DEF Replaced
  <2>3. t[c].owner >= Len(J) /\ SameJftBut(J, J, c)
    BY <1>2, <2>1 DEF SameJftBut
  <2>4. /\ u \in Tables /\ Counted(u, J) /\ SameBut(t, u, c) /\ Lessens(t, u) /\ u[c].used # 1
        /\ (IsAlias(t, c) \/ t[c].refs <= 1) => u[c].used = 0
    BY <1>1, <2>1, <2>2, <2>3, CloseKeeps
  <2>5. Others(t, u, c) /\ AliasesOwned(u)
    BY <1>1, <2>1, <2>4, Closes
  <2>6. u[c].used = 0
    BY <1>2, <1>6, <2>1, <2>4 DEF OthersShare
  <2>7. \A g \in Handles \ {c} : t[g].used = 1 => Root(u, g) = Root(t, g)
    BY <2>4 DEF SameBut, Root, IsAlias
  <2> QED BY <1>3, <2>4, <2>5, <2>6, <2>7
<1> QED BY <1>4, <1>5, <1>6

-----------------------------------------------------------------------------
(* Files *)

LEMMA RootFileHeld ==
  ASSUME NEW t \in Tables, NEW J \in Jfts, Counted(t, J), NEW f \in RootFiles(t)
  PROVE  f # NONE /\ \E g \in Handles : t[g].used = 1 /\ FileOf(t, g) = f
<1>1. PICK r \in Handles : t[r].used # 0 /\ t[r].file = f /\ f # NONE
  BY DEF RootFiles
<1>2. ~IsAlias(t, r)
  BY <1>1 DEF Counted, AliasRight
<1>3. PICK g \in Handles : Refers(t, g, r)
  BY <1>1, <1>2, RootHas, FirstLevel
<1> QED BY <1>1, <1>3 DEF Refers, FileOf

LEMMA HeldIsRootFile ==
  ASSUME NEW t \in Tables, NEW J \in Jfts, Counted(t, J), NEW g \in Handles, t[g].used = 1
  PROVE  FileOf(t, g) \in RootFiles(t) /\ FileOf(t, g) # NONE
<1>1. Root(t, g) \in Handles /\ t[Root(t, g)].used # 0 /\ ~IsAlias(t, Root(t, g))
  BY CountedRefers
<1>2. t[Root(t, g)].file # NONE
  BY <1>1, RootHas
<1> QED BY <1>1, <1>2 DEF RootFiles, FileOf

LEMMA RootFilesGrow ==
  ASSUME NEW t \in Tables, NEW J \in Jfts, Counted(t, J), NEW h \in Handles, t[h].used # 1,
         NEW u \in Tables, NEW K \in Jfts, Counted(u, K), Others(t, u, h)
  PROVE  RootFiles(t) \subseteq RootFiles(u)
<1> SUFFICES ASSUME NEW f \in RootFiles(t) PROVE f \in RootFiles(u)
  OBVIOUS
<1>1. PICK g \in Handles : t[g].used = 1 /\ FileOf(t, g) = f
  BY RootFileHeld
<1>2. g # h
  BY <1>1
<1>3. u[g].used = 1 /\ FileOf(u, g) = f
  BY <1>1, <1>2 DEF Others
<1> QED BY <1>3, HeldIsRootFile

LEMMA SameRootFiles ==
  ASSUME NEW t, NEW u, SameSlots(t, u)
  PROVE  RootFiles(u) = RootFiles(t) /\ \A g \in Handles : Root(t, g) \in Handles => FileOf(u, g) = FileOf(t, g)
BY DEF SameSlots, RootFiles, FileOf, Root, IsAlias

-----------------------------------------------------------------------------
(* What processes see *)

Seen(t, J, p, h) ==
    IF h \notin J[p] THEN NONE
    ELSE IF h < N_STD /\ (t[h].used = 0 \/ t[h].owner > p) THEN CON
    ELSE FileOf(t, h)

LEMMA SeenIs ==
  ASSUME NEW t, NEW J, Sound(t, J), NEW p \in 1 .. Len(J), NEW h \in J[p]
  PROVE  /\ h \in Handles
         /\ t[h].used = 1 /\ t[h].owner <= p => Seen(t, J, p, h) = FileOf(t, h)
         /\ ~(t[h].used = 1 /\ t[h].owner <= p) => Seen(t, J, p, h) = CON
         /\ Seen(t, J, p, h) # NONE
<1>1. h \in Handles /\ t[h].owner \in Nat /\ p \in Nat
  BY JftHas, SlotHas DEF Sound
<1>2. \/ t[h].used = 1 /\ t[h].owner <= p
      \/ h < N_STD /\ (t[h].used = 0 \/ t[h].owner > p)
  BY DEF Sound, Opened
<1>3. ASSUME t[h].used = 1, t[h].owner <= p
      PROVE  Seen(t, J, p, h) = FileOf(t, h) /\ Seen(t, J, p, h) # NONE
  <2>1. Seen(t, J, p, h) = FileOf(t, h)
    BY <1>1, <1>3 DEF Seen
  <2>2. FileOf(t, h) # NONE
    BY <1>1, <1>3, HeldIsRootFile DEF Sound
  <2> QED BY <2>1, <2>2
<1>4. ASSUME ~(t[h].used = 1 /\ t[h].owner <= p)
      PROVE  Seen(t, J, p, h) = CON /\ Seen(t, J, p, h) # NONE
  <2>1. Seen(t, J, p, h) = CON
    BY <1>2, <1>4 DEF Seen
  <2> QED BY <2>1, Constants
<1> QED BY <1>1, <1>3, <1>4

(* The files that processes have open are those of the roots.              *)
LEMMA SeenFiles ==
  ASSUME NEW t, NEW J, Sound(t, J), NEW f \in Files
  PROVE  f \in RootFiles(t) <=> \E p \in 1 .. Len(J), h \in Handles : Seen(t, J, p, h) = f
<1>1. t \in Tables /\ J \in Jfts /\ Counted(t, J) /\ Owned(t, J)
  BY DEF Sound
<1>2. ASSUME f \in RootFiles(t)
      PROVE  \E p \in 1 .. Len(J), h \in Handles : Seen(t, J, p, h) = f
  <2>1. PICK g \in Handles : t[g].used = 1 /\ FileOf(t, g) = f
    BY <1>1, <1>2, RootFileHeld
  <2>2. t[g].owner \in 1 .. Len(J) /\ g \in J[t[g].owner] /\ t[g].owner <= t[g].owner
    BY <1>1, <2>1, SlotHas DEF Owned
  <2>3. Seen(t, J, t[g].owner, g) = f
    BY <2>1, <2>2, SeenIs
  <2> QED BY <2>2, <2>3
<1>3. ASSUME NEW p \in 1 .. Len(J), NEW h \in Handles, Seen(t, J, p, h) = f
      PROVE  f \in RootFiles(t)
  <2>1. f # NONE /\ f # CON
    BY Constants
  <2>2. h \in J[p]
    BY <1>3, <2>1 DEF Seen
  <2>3. t[h].used = 1 /\ FileOf(t, h) = f
    BY <1>3, <2>1, <2>2, SeenIs
  <2> QED BY <1>1, <2>3, HeldIsRootFile
<1> QED BY <1>2, <1>3

(* Only h of the running process looks different.                          *)
LEMMA OwnViews ==
  ASSUME NEW t, NEW J, Sound(t, J), Len(J) > 0, NEW u, NEW K, Sound(u, K), NEW h \in Handles,
         Others(t, u, h), OwnsIt(t, u, J, K, h), NEW p \in 1 .. Len(J), NEW g \in Handles
  PROVE  Seen(u, K, p, g) =
            IF p = Len(J) /\ g = h THEN IF h \in K[Len(J)] THEN FileOf(u, h) ELSE NONE
            ELSE Seen(t, J, p, g)
<1>1. PICK n \in Nat : n = Len(J) /\ n > 0 /\ Len(K) = n /\ n \in 1 .. n /\ p \in 1 .. n /\ p \in Nat
  BY JftHas DEF Sound, OwnsIt, SameJftBut
<1>2. t[g].owner \in Nat /\ u[g].owner \in Nat
  BY SlotHas DEF Sound
<1>3. CASE g # h
  <2>1. g \in K[p] <=> g \in J[p]
    BY <1>1, <1>3 DEF OwnsIt, SameJftBut
  <2>2. CASE g \notin J[p]
    BY <1>3, <2>1, <2>2 DEF Seen
  <2>3. CASE g \in J[p] /\ t[g].used = 1 /\ t[g].owner <= p
    <3>1. u[g].used = 1 /\ u[g].owner = t[g].owner /\ FileOf(u, g) = FileOf(t, g)
      BY <1>3, <2>3 DEF Others
    <3>2. Seen(u, K, p, g) = FileOf(u, g) /\ Seen(t, J, p, g) = FileOf(t, g)
      BY <1>1, <2>1, <2>3, <3>1, SeenIs
    <3> QED BY <1>3, <3>1, <3>2
  <2>4. CASE g \in J[p] /\ ~(t[g].used = 1 /\ t[g].owner <= p)
    <3>1. ~(u[g].used = 1 /\ u[g].owner <= p)
      BY <1>3, <2>4 DEF Others
    <3>2. Seen(u, K, p, g) = CON /\ Seen(t, J, p, g) = CON
      BY <1>1, <2>1, <2>4, <3>1, SeenIs
    <3> QED BY <1>3, <3>2
  <2> QED BY <2>2, <2>3, <2>4
<1>4. CASE g = h /\ p # n
  <2>1. K[p] = J[p] /\ p < n
    BY <1>1, <1>4 DEF OwnsIt
  <2>2. CASE g \notin J[p]
    BY <1>1, <1>4, <2>1, <2>2 DEF Seen
  <2>3. CASE g \in J[p]
    <3>1. ~(u[g].used = 1 /\ u[g].owner <= p) /\ ~(t[g].used = 1 /\ t[g].owner <= p)
      BY <1>1, <1>2, <1>4, <2>1 DEF OwnsIt
    <3>2. Seen(u, K, p, g) = CON /\ Seen(t, J, p, g) = CON
      BY <1>1, <2>1, <2>3, <3>1, SeenIs
    <3> QED BY <1>1, <1>4, <3>2
  <2> QED BY <2>2, <2>3
<1>5. CASE g = h /\ p = n
  <2>1. CASE h \in K[n]
    <3>1. u[h].used = 1 /\ u[h].owner = n /\ u[h].owner <= n
      BY <1>1, <2>1 DEF OwnsIt
    <3>2. Seen(u, K, n, h) = FileOf(u, h)
      BY <1>1, <2>1, <3>1, SeenIs
    <3> QED BY <1>1, <1>5, <2>1, <3>2
  <2>2. CASE h \notin K[n]
    BY <1>1, <1>5, <2>2 DEF Seen
  <2> QED BY <2>1, <2>2
<1> QED BY <1>3, <1>4, <1>5

-----------------------------------------------------------------------------
(* The inductive invariant *)

IInv ==
    /\ Sound(tab, jft)
    /\ unsaved \subseteq Files /\ unsaved \subseteq RootFiles(tab)
    /\ cur <= MaxDepth + 1

(* Files can be saved. *)
NoFailures == FlushFails = FALSE

(* An operation after which the running process sees f as its handle h.    *)
Shows(h, f) ==
    /\ IInv' /\ cur' = cur
    /\ unsaved' = unsaved \cap RootFiles(tab')
    /\ \A p \in 1 .. cur, g \in Handles :
          Seen(tab', jft', p, g) = IF p = cur /\ g = h THEN f ELSE Seen(tab, jft, p, g)

LEMMA CurHas ==
  ASSUME IInv
  PROVE  /\ tab \in Tables /\ jft \in Jfts /\ Counted(tab, jft) /\ AliasesOwned(tab)
         /\ cur = Len(jft) /\ cur \in Nat /\ (jft # <<>> => cur > 0 /\ cur \in 1 .. cur)
<1>1. jft # <<>> => Len(jft) # 0
  BY DEF IInv, Sound, Jfts
<1> QED BY <1>1, JftHas DEF IInv, Sound, cur

LEMMA Marked ==
  ASSUME NEW J \in Jfts, Len(J) > 0, NEW X \in SUBSET Handles, NEW h,
         \A g \in Handles \ {h} : g \in X <=> g \in J[Len(J)], NEW K, K = [J EXCEPT ![Len(J)] = X]
  PROVE  /\ K \in Jfts /\ Len(K) = Len(J) /\ K[Len(J)] = X
         /\ \A p \in 1 .. Len(J) : p # Len(J) => K[p] = J[p]
         /\ SameJftBut(J, K, h)
<1>1. PICK n \in Nat : n = Len(J) /\ n > 0 /\ n \in 1 .. n
  BY JftHas
<1>2. J \in Seq(SUBSET Handles) /\ J \in [1 .. n -> SUBSET Handles]
  BY <1>1 DEF Jfts
<1>3. K \in [1 .. n -> SUBSET Handles] /\ K[n] = X /\ \A p \in 1 .. n : p # n => K[p] = J[p]
  BY <1>1, <1>2
<1>4. K \in Jfts /\ Len(K) = n
  BY <1>1, <1>3 DEF Jfts
<1>5. SameJftBut(J, K, h)
  BY <1>1, <1>3, <1>4 DEF SameJftBut
<1> QED BY <1>1, <1>3, <1>4, <1>5

LEMMA MarksOpen ==
  ASSUME IInv, jft # <<>>, NEW h \in Handles, MarkOpen(h)
  PROVE  /\ jft' \in Jfts /\ Len(jft') = Len(jft) /\ jft'[Len(jft)] = jft[Len(jft)] \cup {h}
         /\ \A p \in 1 .. Len(jft) : p # Len(jft) => jft'[p] = jft[p]
         /\ SameJftBut(jft, jft', h)
<1>1. PICK X : X = jft[Len(jft)] \cup {h}
  OBVIOUS
<1>2. X \in SUBSET Handles
  BY <1>1, CurHas, JftHas
<1>3. jft' = [jft EXCEPT ![Len(jft)] = X]
  BY <1>1 DEF MarkOpen, cur
<1>4. \A g \in Handles \ {h} : g \in X <=> g \in jft[Len(jft)]
  BY <1>1
<1>5. jft \in Jfts /\ Len(jft) > 0
  BY CurHas
<1>6. \A K : K = [jft EXCEPT ![Len(jft)] = X] =>
         /\ K \in Jfts /\ Len(K) = Len(jft) /\ K[Len(jft)] = X
         /\ \A p \in 1 .. Len(jft) : p # Len(jft) => K[p] = jft[p]
         /\ SameJftBut(jft, K, h)
  BY <1>2, <1>4, <1>5, Marked, Zenon
<1> QED BY <1>1, <1>3, <1>6

LEMMA MarksClosed ==
  ASSUME IInv, jft # <<>>, NEW h \in Handles, MarkClosed(h)
  PROVE  /\ jft' \in Jfts /\ Len(jft') = Len(jft) /\ jft'[Len(jft)] = jft[Len(jft)] \ {h}
         /\ \A p \in 1 .. Len(jft) : p # Len(jft) => jft'[p] = jft[p]
         /\ SameJftBut(jft, jft', h)
<1>1. PICK X : X = jft[Len(jft)] \ {h}
  OBVIOUS
<1>2. X \in SUBSET Handles
  BY <1>1, CurHas, JftHas
<1>3. jft' = [jft EXCEPT ![Len(jft)] = X]
  BY <1>1 DEF MarkClosed, cur
<1>4. \A g \in Handles \ {h} : g \in X <=> g \in jft[Len(jft)]
  BY <1>1
<1>5. jft \in Jfts /\ Len(jft) > 0
  BY CurHas
<1>6. \A K : K = [jft EXCEPT ![Len(jft)] = X] =>
         /\ K \in Jfts /\ Len(K) = Len(jft) /\ K[Len(jft)] = X
         /\ \A p \in 1 .. Len(jft) : p # Len(jft) => K[p] = jft[p]
         /\ SameJftBut(jft, K, h)
  BY <1>2, <1>4, <1>5, Marked, Zenon
<1> QED BY <1>1, <1>3, <1>6

(* The running process's operations on a handle of its own.                *)
LEMMA OwnActs ==
  ASSUME IInv, jft # <<>>, NEW h \in Handles, tab' \in Tables, jft' \in Jfts,
         Counted(tab', jft'), AliasesOwned(tab'),
         Others(tab, tab', h), OwnsIt(tab, tab', jft, jft', h),
         unsaved' = unsaved \cap RootFiles(tab')
  PROVE  Shows(h, IF h \in jft'[cur] THEN FileOf(tab', h) ELSE NONE)
<1>1. Sound(tab, jft) /\ Len(jft) > 0 /\ cur = Len(jft) /\ cur \in Nat
  BY CurHas DEF IInv
<1>2. Sound(tab', jft')
  BY <1>1, OwnStep
<1>3. cur' = cur
  BY DEF OwnsIt, SameJftBut, cur
<1>4. IInv'
  BY <1>2, <1>3 DEF IInv
<1>5. ASSUME NEW p \in 1 .. cur, NEW g \in Handles
      PROVE  Seen(tab', jft', p, g) =
                IF p = cur /\ g = h THEN IF h \in jft'[cur] THEN FileOf(tab', h) ELSE NONE
                ELSE Seen(tab, jft, p, g)
  BY <1>1, <1>2, OwnViews
<1> QED BY <1>3, <1>4, <1>5 DEF Shows

LEMMA FreeSlotIs ==
  ASSUME IInv, jft # <<>>, FreeSlots(tab) # {}
  PROVE  LET h == Min(FreeSlots(tab)) IN
         /\ h \in Handles /\ tab[h].used = 0 /\ h \notin jft[cur]
         /\ Seen(tab, jft, cur, h) = NONE
<1>1. PICK h : h = Min(FreeSlots(tab))
  OBVIOUS
<1>2. FreeSlots(tab) \in SUBSET Nat
  BY Constants DEF FreeSlots
<1>3. h \in FreeSlots(tab)
  BY <1>1, <1>2, NatHasMin
<1>4. h \in Handles /\ tab[h].used = 0 /\ h >= N_STD
  BY <1>3 DEF FreeSlots
<1>5. h \notin jft[cur]
  <2>1. ASSUME h \in jft[cur] PROVE FALSE
    <3>1. h < N_STD
      BY <1>4, <2>1, CurHas DEF IInv, Sound, Opened
    <3> QED BY <1>4, <3>1, Constants
  <2> QED BY <2>1
<1> QED BY <1>1, <1>4, <1>5 DEF Seen

LEMMA KeepsUnsaved ==
  ASSUME IInv, unsaved' = unsaved, NEW h \in Handles, tab[h].used # 1,
         tab' \in Tables, jft' \in Jfts, Counted(tab', jft'), Others(tab, tab', h)
  PROVE  unsaved' = unsaved \cap RootFiles(tab')
<1>1. RootFiles(tab) \subseteq RootFiles(tab')
  BY CurHas, RootFilesGrow
<1> QED BY <1>1 DEF IInv

-----------------------------------------------------------------------------
(* The calls *)

LEMMA Opens ==
  ASSUME IInv, jft # <<>>, NEW f \in (Files \ RootFiles(tab)) \cup {CON}, Open(f)
  PROVE  \E h \in Handles : Shows(h, f) /\ Seen(tab, jft, cur, h) = NONE
<1>1. PICK h : h = Min(FreeSlots(tab))
  OBVIOUS
<1>2. h \in Handles /\ tab[h].used = 0 /\ h \notin jft[cur] /\ Seen(tab, jft, cur, h) = NONE
  BY <1>1, FreeSlotIs DEF Open
<1>3. tab' = [tab EXCEPT ![h] = RootSlot(f)] /\ MarkOpen(h) /\ unsaved' = unsaved
  BY <1>1 DEF Open
<1>4. /\ jft' \in Jfts /\ Len(jft') = Len(jft) /\ jft'[Len(jft)] = jft[Len(jft)] \cup {h}
      /\ \A p \in 1 .. Len(jft) : p # Len(jft) => jft'[p] = jft[p]
      /\ SameJftBut(jft, jft', h)
  BY <1>2, <1>3, MarksOpen
<1>5. f \in Files \cup {CON}
  OBVIOUS
<1>6. tab' \in Tables /\ Counted(tab', jft')
  BY <1>2, <1>3, <1>4, <1>5, CurHas, RootKeeps
<1>7. /\ Others(tab, tab', h) /\ AliasesOwned(tab')
      /\ tab'[h].used = 1 /\ tab'[h].owner = cur /\ FileOf(tab', h) = f
  <2>1. tab \in Tables /\ jft \in Jfts /\ Counted(tab, jft) /\ AliasesOwned(tab)
    BY CurHas
  <2>2. \A u : u = [tab EXCEPT ![h] = RootSlot(f)] =>
            /\ Others(tab, u, h) /\ AliasesOwned(u)
            /\ u[h].used = 1 /\ u[h].owner = cur /\ FileOf(u, h) = f
            /\ RootFiles(u) \subseteq RootFiles(tab) \cup {f}
    BY <1>2, <2>1, RootMakes, Zenon
  <2> QED BY <1>3, <2>2
<1>8. OwnsIt(tab, tab', jft, jft', h)
  BY <1>2, <1>4, <1>7 DEF OwnsIt, cur
<1>9. unsaved' = unsaved \cap RootFiles(tab')
  <2>1. tab[h].used # 1
    BY <1>2
  <2> QED BY <1>2, <1>3, <1>4, <1>6, <1>7, <2>1, KeepsUnsaved
<1>10. Shows(h, IF h \in jft'[cur] THEN FileOf(tab', h) ELSE NONE)
  BY <1>2, <1>4, <1>6, <1>7, <1>8, <1>9, OwnActs
<1>11. (IF h \in jft'[cur] THEN FileOf(tab', h) ELSE NONE) = f
  BY <1>4, <1>7 DEF cur
<1> QED BY <1>2, <1>10, <1>11

LEMMA OthersOthers ==
  ASSUME NEW t, NEW u, NEW v, NEW h, Others(t, u, h), Others(u, v, h)
  PROVE  Others(t, v, h)
<1>1. ASSUME NEW g \in Handles \ {h}
      PROVE  /\ v[g].used = 1 <=> t[g].used = 1
             /\ v[g].used # 0 => t[g].used # 0 /\ v[g].owner = t[g].owner
             /\ v[g].used = 1 => FileOf(v, g) = FileOf(t, g)
  <2>1. /\ u[g].used = 1 <=> t[g].used = 1
        /\ u[g].used # 0 => t[g].used # 0 /\ u[g].owner = t[g].owner
        /\ u[g].used = 1 => FileOf(u, g) = FileOf(t, g)
    BY DEF Others
  <2>2. /\ v[g].used = 1 <=> u[g].used = 1
        /\ v[g].used # 0 => u[g].used # 0 /\ v[g].owner = u[g].owner
        /\ v[g].used = 1 => FileOf(v, g) = FileOf(u, g)
    BY DEF Others
  <2> QED BY <2>1, <2>2
<1> QED BY <1>1 DEF Others

(* The handle h, free in t, becomes a duplicate of b.                      *)
LEMMA Duplicates ==
  ASSUME IInv, jft # <<>>, NEW h \in Handles, NEW b \in jft[cur], b # h,
         tab[h].used = 0 \/ tab[h].owner = cur,
         NEW t \in Tables, Counted(t, jft), AliasesOwned(t), Others(tab, t, h), t[h].used = 0,
         \/ ImplicitStd(tab, b) /\ tab' = [t EXCEPT ![h] = RootSlot(CON)]
         \/ /\ Usable(tab, b) /\ Root(t, b) = Root(tab, b)
            /\ tab' = MakeAlias(t, h, Root(tab, b)),
         MarkOpen(h), unsaved' = unsaved \cap RootFiles(t)
  PROVE  Shows(h, Seen(tab, jft, cur, b))
<1>1. /\ tab \in Tables /\ jft \in Jfts /\ Counted(tab, jft) /\ cur = Len(jft) /\ cur \in Nat
      /\ Len(jft) > 0 /\ Sound(tab, jft) /\ cur \in 1 .. Len(jft)
  BY CurHas DEF IInv
<1>2. /\ jft' \in Jfts /\ Len(jft') = Len(jft) /\ jft'[Len(jft)] = jft[Len(jft)] \cup {h}
      /\ \A p \in 1 .. Len(jft) : p # Len(jft) => jft'[p] = jft[p]
      /\ SameJftBut(jft, jft', h)
  BY MarksOpen
<1>3. PICK f : f = Seen(tab, jft, cur, b)
  OBVIOUS
<1>4. /\ tab' \in Tables /\ Counted(tab', jft') /\ Others(t, tab', h) /\ AliasesOwned(tab')
      /\ tab'[h].used = 1 /\ tab'[h].owner = cur /\ FileOf(tab', h) = f
      /\ RootFiles(tab') \subseteq RootFiles(t) \cup {CON}
  <2>1. CASE ImplicitStd(tab, b) /\ tab' = [t EXCEPT ![h] = RootSlot(CON)]
    <3>1. f = CON
      BY <1>1, <1>3, <2>1, SeenIs DEF ImplicitStd
    <3>2. /\ [t EXCEPT ![h] = RootSlot(CON)] \in Tables
          /\ Counted([t EXCEPT ![h] = RootSlot(CON)], jft')
      BY <1>1, <1>2, RootKeeps
    <3>3. \A u : u = [t EXCEPT ![h] = RootSlot(CON)] =>
            /\ Others(t, u, h) /\ AliasesOwned(u)
            /\ u[h].used = 1 /\ u[h].owner = cur /\ FileOf(u, h) = CON
            /\ RootFiles(u) \subseteq RootFiles(t) \cup {CON}
      BY <1>1, RootMakes, Zenon
    <3> QED BY <2>1, <3>1, <3>2, <3>3
  <2>2. CASE /\ Usable(tab, b) /\ Root(t, b) = Root(tab, b)
             /\ tab' = MakeAlias(t, h, Root(tab, b))
    <3>1. PICK r : r = Root(tab, b)
      OBVIOUS
    <3>2. b \in Handles /\ tab[b].used = 1 /\ tab[b].owner <= cur
      <4>1. b \in Handles /\ tab[b].used = 1
        BY <1>1, <2>2, JftHas DEF Usable
      <4> QED BY <1>1, <4>1, OwnersInRange
    <3>3. f = FileOf(tab, b)
      BY <1>1, <1>3, <3>2, SeenIs
    <3>4. t[b].used = 1 /\ FileOf(t, b) = FileOf(tab, b)
      BY <3>2 DEF Others
    <3>5. r \in Handles /\ t[r].used # 0 /\ ~IsAlias(t, r) /\ t[r].file = f
      BY <1>1, <2>2, <3>1, <3>2, <3>3, <3>4, CountedRefers DEF FileOf
    <3>6. t[r].owner <= cur
      <4>1. r # h
        BY <3>5
      <4>2. tab[r].used # 0 /\ t[r].owner = tab[r].owner
        BY <3>5, <4>1 DEF Others
      <4> QED BY <1>1, <3>5, <4>2, OwnersInRange
    <3>7. MakeAlias(t, h, r) \in Tables /\ Counted(MakeAlias(t, h, r), jft')
      <4>1. h # r
        BY <3>5
      <4> QED BY <1>1, <1>2, <3>5, <4>1, MakeAliasIs, AliasKeeps
    <3>8. \A u : u = MakeAlias(t, h, r) =>
             /\ Others(t, u, h) /\ AliasesOwned(u)
             /\ u[h].used = 1 /\ u[h].owner = cur /\ FileOf(u, h) = t[r].file
             /\ RootFiles(u) \subseteq RootFiles(t)
      BY <1>1, <3>5, <3>6, AliasMakes, Zenon
    <3>9. tab' = MakeAlias(t, h, r)
      BY <2>2, <3>1
    <3> QED BY <3>5, <3>7, <3>8, <3>9
  <2> QED BY <2>1, <2>2
<1>5. Others(tab, tab', h)
  BY <1>4, OthersOthers
<1>6. OwnsIt(tab, tab', jft, jft', h)
  BY <1>1, <1>2, <1>4 DEF OwnsIt
<1>7. unsaved' = unsaved \cap RootFiles(tab')
  <2>1. RootFiles(t) \subseteq RootFiles(tab')
    <3>1. t[h].used # 1
      OBVIOUS
    <3> QED BY <1>1, <1>2, <1>4, <3>1, RootFilesGrow
  <2> QED BY <1>4, <2>1, Constants DEF IInv
<1>8. Shows(h, IF h \in jft'[cur] THEN FileOf(tab', h) ELSE NONE)
  BY <1>2, <1>4, <1>5, <1>6, <1>7, OwnActs
<1>9. (IF h \in jft'[cur] THEN FileOf(tab', h) ELSE NONE) = f
  BY <1>1, <1>2, <1>4
<1> QED BY <1>3, <1>8, <1>9

LEMMA Dups ==
  ASSUME IInv, jft # <<>>, NEW b \in Handles, Dup(b)
  PROVE  /\ b \in jft[cur]
         /\ \E h \in Handles : Shows(h, Seen(tab, jft, cur, b)) /\ Seen(tab, jft, cur, h) = NONE
<1>1. PICK h : h = Min(FreeSlots(tab))
  OBVIOUS
<1>2. h \in Handles /\ tab[h].used = 0 /\ h \notin jft[cur] /\ Seen(tab, jft, cur, h) = NONE
  BY <1>1, FreeSlotIs DEF Dup
<1>3. /\ b \in jft[cur] /\ MarkOpen(h) /\ unsaved' = unsaved
      /\ ImplicitStd(tab, b) \/ Usable(tab, b)
      /\ tab' = IF ImplicitStd(tab, b) THEN [tab EXCEPT ![h] = RootSlot(CON)]
                ELSE MakeAlias(tab, h, Root(tab, b))
  BY <1>1 DEF Dup, MayUse
<1>4. b # h
  BY <1>2, <1>3
<1>5. Others(tab, tab, h)
  BY DEF Others
<1>6. unsaved' = unsaved \cap RootFiles(tab)
  BY <1>3 DEF IInv
<1>7. \/ ImplicitStd(tab, b) /\ tab' = [tab EXCEPT ![h] = RootSlot(CON)]
      \/ /\ Usable(tab, b) /\ Root(tab, b) = Root(tab, b)
         /\ tab' = MakeAlias(tab, h, Root(tab, b))
  BY <1>3
<1>8. Shows(h, Seen(tab, jft, cur, b))
  BY <1>2, <1>3, <1>4, <1>5, <1>6, <1>7, CurHas, Duplicates
<1> QED BY <1>2, <1>3, <1>8

LEMMA ForceDups ==
  ASSUME WordHolds, NoFailures, IInv, jft # <<>>, NEW b \in Handles, NEW c \in Handles, ForceDup(b, c)
  PROVE  \/ UNCHANGED vars
         \/ b \in jft[cur] /\ Shows(c, Seen(tab, jft, cur, b))
<1>1. /\ tab \in Tables /\ jft \in Jfts /\ Counted(tab, jft) /\ cur = Len(jft) /\ cur \in Nat
      /\ Len(jft) > 0 /\ Sound(tab, jft) /\ cur \in 1 .. Len(jft) /\ Len(jft) <= MaxDepth + 1
      /\ AliasesOwned(tab)
  BY CurHas DEF IInv
<1>2. b # c /\ b \in jft[cur] /\ (tab[c].used = 0 \/ tab[c].owner = cur)
  BY DEF ForceDup, MayUse, MayReplace
<1>3. CASE ForceDupOntoRoot(b, c)
  <2>1. Usable(tab, b) /\ Root(tab, b) = c /\ MarkOpen(c) /\ unsaved' = unsaved
    BY <1>3 DEF ForceDupOntoRoot
  <2>2. /\ jft' \in Jfts /\ Len(jft') = Len(jft) /\ jft'[Len(jft)] = jft[Len(jft)] \cup {c}
        /\ \A p \in 1 .. Len(jft) : p # Len(jft) => jft'[p] = jft[p]
        /\ SameJftBut(jft, jft', c)
    BY <2>1, MarksOpen
  <2>3. tab[b].used = 1 /\ tab[b].owner <= cur /\ tab[c].used # 0 /\ ~IsAlias(tab, c)
    <3>1. tab[b].used = 1 /\ tab[c].used # 0 /\ ~IsAlias(tab, c)
      BY <1>1, <2>1, CountedRefers DEF Usable
    <3> QED BY <1>1, <3>1, OwnersInRange
  <2>4. tab[c].owner = cur /\ tab[c].owner >= Len(jft)
    BY <1>1, <1>2, <2>3
  <2>5. Seen(tab, jft, cur, b) = tab[c].file
    BY <1>1, <1>2, <2>1, <2>3, SeenIs DEF FileOf
  <2>6. CASE tab[c].used = 2
    <3>1. tab' = [tab EXCEPT ![c].used = 1, ![c].refs = @ + 1]
      BY <1>3, <2>6 DEF ForceDupOntoRoot
    <3>2. tab' \in Tables /\ Counted(tab', jft')
      BY <1>1, <2>2, <2>4, <2>6, <3>1, ReviveKeeps
    <3>3. /\ tab'[c].used = 1 /\ tab'[c].owner = tab[c].owner /\ tab'[c].file = tab[c].file
          /\ tab'[c].alias = tab[c].alias
          /\ \A g \in Handles : g # c => tab'[g] = tab[g]
      <4>1. tab \in [Handles -> Slot] /\ tab[c] \in Slot
        BY <1>1, SlotHas DEF Tables
      <4> QED BY <3>1, <4>1 DEF Slot
    <3>4. ASSUME NEW g \in Handles
          PROVE  /\ tab'[g].owner = tab[g].owner /\ tab'[g].file = tab[g].file
                 /\ tab'[g].alias = tab[g].alias /\ Root(tab', g) = Root(tab, g)
                 /\ IsAlias(tab', g) <=> IsAlias(tab, g)
      BY <3>3 DEF Root, IsAlias
    <3>5. \A g \in Handles : FileOf(tab', g) = FileOf(tab, g)
      BY <1>1, <3>4, SlotHas DEF FileOf
    <3>6. Others(tab, tab', c)
      BY <3>3, <3>5 DEF Others
    <3>7. AliasesOwned(tab')
      <4>1. ASSUME NEW g \in Handles, tab'[g].used = 1, IsAlias(tab', g)
            PROVE  tab'[tab'[g].alias].owner <= tab'[g].owner
        <5>1. tab[g].used = 1 /\ IsAlias(tab, g) /\ tab[g].alias \in Handles
          BY <1>1, <2>3, <3>3, <3>4, <4>1, SlotHas
        <5> QED BY <1>1, <3>4, <5>1 DEF AliasesOwned
      <4> QED BY <4>1 DEF AliasesOwned
    <3>8. OwnsIt(tab, tab', jft, jft', c)
      BY <1>1, <2>2, <2>4, <3>3 DEF OwnsIt
    <3>9. unsaved' = unsaved \cap RootFiles(tab')
      <4>1. tab[c].used # 1
        BY <2>6
      <4> QED BY <2>1, <2>2, <3>2, <3>6, <4>1, KeepsUnsaved
    <3>10. Shows(c, IF c \in jft'[cur] THEN FileOf(tab', c) ELSE NONE)
      BY <2>2, <3>2, <3>6, <3>7, <3>8, <3>9, OwnActs
    <3>11. (IF c \in jft'[cur] THEN FileOf(tab', c) ELSE NONE) = Seen(tab, jft, cur, b)
      BY <1>1, <2>2, <2>3, <2>5, <3>5 DEF FileOf, Root
    <3> QED BY <1>2, <3>10, <3>11
  <2>7. CASE tab[c].used # 2
    <3>1. tab' = tab /\ tab[c].used = 1
      BY <1>1, <1>3, <2>3, <2>7, SlotHas DEF ForceDupOntoRoot
    <3>2. \A r : RefSet(tab', jft', r) = RefSet(tab, jft, r)
      BY <1>1, <2>2, <2>4, <3>1, SameOwn
    <3>3. Counted(tab', jft')
      BY <1>1, <3>1, <3>2 DEF Counted, RootRight, AliasRight
    <3>4. Others(tab, tab', c)
      BY <3>1 DEF Others
    <3>5. OwnsIt(tab, tab', jft, jft', c)
      BY <1>1, <2>2, <2>4, <3>1 DEF OwnsIt
    <3>6. unsaved' = unsaved \cap RootFiles(tab')
      BY <2>1, <3>1 DEF IInv
    <3>7. Shows(c, IF c \in jft'[cur] THEN FileOf(tab', c) ELSE NONE)
      <4>1. tab' \in Tables /\ AliasesOwned(tab')
        BY <1>1, <3>1
      <4> QED BY <2>2, <3>3, <3>4, <3>5, <3>6, <4>1, OwnActs
    <3>8. (IF c \in jft'[cur] THEN FileOf(tab', c) ELSE NONE) = Seen(tab, jft, cur, b)
      BY <1>1, <2>2, <2>3, <2>5, <3>1 DEF FileOf, Root
    <3> QED BY <1>2, <3>7, <3>8
  <2> QED BY <2>6, <2>7
<1>4. CASE \E failing \in Failing : ForceDupOntoOther(b, c, failing)
  <2>1. /\ ImplicitStd(tab, b) \/ (Usable(tab, b) /\ Root(tab, b) # c)
        /\ LET t == Replaced(tab, c, {}) IN
           IF ReplaceFails(tab, c, {})
           THEN /\ tab' = t
                /\ UNCHANGED <<jft, unsaved>>
           ELSE /\ tab' = IF ImplicitStd(tab, b)
                          THEN [t EXCEPT ![c] = RootSlot(CON)]
                          ELSE MakeAlias(t, c, Root(tab, b))
                /\ MarkOpen(c)
                /\ IF tab[c].used = 2 THEN UNCHANGED unsaved ELSE Saved(tab, t)
    BY <1>4 DEF ForceDupOntoOther, Failing, NoFailures
  <2>2. CASE ReplaceFails(tab, c, {})
    <3>1. OthersShare(tab, c) /\ Aliases(tab, c) = {}
      BY <2>2 DEF ReplaceFails, CloseFails
    <3>2. tab[c].used # 0
      BY <3>1 DEF OthersShare
    <3>3. Replaced(tab, c, {}) = tab
      BY <3>1, <3>2 DEF Replaced
    <3> QED BY <2>1, <2>2, <3>3 DEF vars
  <2>3. CASE ~ReplaceFails(tab, c, {})
    <3>1. PICK t : t = Replaced(tab, c, {})
      OBVIOUS
    <3>2. /\ t \in Tables /\ Counted(t, jft) /\ Others(tab, t, c) /\ AliasesOwned(t)
          /\ t[c].used = 0
          /\ \A g \in Handles \ {c} : tab[g].used = 1 /\ Root(tab, g) # c => Root(t, g) = Root(tab, g)
      BY <1>1, <1>2, <2>3, <3>1, Replaces
    <3>3. \/ ImplicitStd(tab, b) /\ tab' = [t EXCEPT ![c] = RootSlot(CON)]
          \/ /\ Usable(tab, b) /\ Root(t, b) = Root(tab, b)
             /\ tab' = MakeAlias(t, c, Root(tab, b))
      BY <1>2, <2>1, <2>3, <3>1, <3>2 DEF Usable
    <3>4. unsaved' = unsaved \cap RootFiles(t)
      <4>1. CASE tab[c].used = 2
        <5>1. RootFiles(tab) \subseteq RootFiles(t)
          <6>1. tab[c].used # 1
            BY <4>1
          <6> QED BY <1>1, <3>2, <6>1, RootFilesGrow
        <5> QED BY <2>1, <2>3, <4>1, <5>1 DEF IInv
      <4>2. CASE tab[c].used # 2
        BY <2>1, <2>3, <3>1, <4>2 DEF IInv, Saved
      <4> QED BY <4>1, <4>2
    <3>5. MarkOpen(c)
      BY <2>1, <2>3
    <3>6. Shows(c, Seen(tab, jft, cur, b))
      BY <1>2, <3>2, <3>3, <3>4, <3>5, Duplicates
    <3> QED BY <1>2, <3>6
  <2> QED BY <2>2, <2>3
<1> QED BY <1>3, <1>4 DEF ForceDup

(* Slots that only differ in their counts, and job file tables that only   *)
(* lost handles of ancestors.                                              *)
LEMMA GivesUp ==
  ASSUME NEW t, NEW J, Sound(t, J), NEW u \in Tables, SameSlots(t, u),
         NEW K \in Jfts, Len(K) = Len(J), \A p \in 1 .. Len(J) : K[p] \subseteq J[p],
         Owned(t, K), Counted(u, K)
  PROVE  /\ Sound(u, K)
         /\ \A p \in 1 .. Len(J), h \in Handles :
                Seen(u, K, p, h) = IF h \in K[p] THEN Seen(t, J, p, h) ELSE NONE
<1>1. t \in Tables /\ J \in Jfts /\ Opened(t, J) /\ ClosedRoots(t, J) /\ AliasesOwned(t)
  BY DEF Sound
<1>2. ASSUME NEW h \in Handles
      PROVE  /\ u[h].used = t[h].used /\ u[h].owner = t[h].owner /\ u[h].alias = t[h].alias
             /\ (IsAlias(u, h) <=> IsAlias(t, h)) /\ FileOf(u, h) = FileOf(t, h)
  <2>1. Root(t, h) \in Handles
    BY <1>1, SlotHas
  <2> QED BY <2>1 DEF SameSlots, IsAlias, FileOf, Root
<1>3. \A p \in 1 .. Len(J) : K[p] \subseteq Handles
  BY JftHas
<1>4. Owned(u, K)
  BY <1>2 DEF Owned
<1>5. Opened(u, K)
  BY <1>1, <1>2, <1>3 DEF Opened
<1>6. ClosedRoots(u, K)
  BY <1>1, <1>2 DEF ClosedRoots
<1>7. AliasesOwned(u)
  <2>1. ASSUME NEW h \in Handles, u[h].used = 1, IsAlias(u, h)
        PROVE  u[u[h].alias].owner <= u[h].owner
    <3>1. t[h].used = 1 /\ IsAlias(t, h) /\ t[h].alias \in Handles
      BY <1>1, <1>2, <2>1, SlotHas
    <3> QED BY <1>1, <1>2, <3>1 DEF AliasesOwned
  <2> QED BY <2>1 DEF AliasesOwned
<1>8. ASSUME NEW p \in 1 .. Len(J), NEW h \in Handles
      PROVE  Seen(u, K, p, h) = IF h \in K[p] THEN Seen(t, J, p, h) ELSE NONE
  <2>1. h \in K[p] => h \in J[p]
    OBVIOUS
  <2> QED BY <1>2, <2>1 DEF Seen
<1> QED BY <1>4, <1>5, <1>6, <1>7, <1>8 DEF Sound

LEMMA CloseCalls ==
  ASSUME WordHolds, NoFailures, IInv, jft # <<>>, NEW b \in Handles, Close(b)
  PROVE  Shows(b, NONE) /\ b \in jft[cur]
<1>1. /\ tab \in Tables /\ jft \in Jfts /\ Counted(tab, jft) /\ cur = Len(jft) /\ cur \in Nat
      /\ Len(jft) > 0 /\ Sound(tab, jft) /\ cur \in 1 .. cur /\ Len(jft) <= MaxDepth + 1
      /\ AliasesOwned(tab)
  BY CurHas DEF IInv
<1>2. b \in jft[cur]
  BY DEF Close, MayUse
<1>3. CASE ImplicitStd(tab, b) /\ MarkClosed(b) /\ UNCHANGED <<tab, unsaved>>
  <2>1. /\ jft' \in Jfts /\ Len(jft') = Len(jft) /\ jft'[Len(jft)] = jft[Len(jft)] \ {b}
        /\ \A p \in 1 .. Len(jft) : p # Len(jft) => jft'[p] = jft[p]
        /\ SameJftBut(jft, jft', b)
    BY <1>3, MarksClosed
  <2>2. tab' = tab /\ unsaved' = unsaved /\ tab[b].used = 0
    BY <1>3 DEF ImplicitStd
  <2>3. tab[b].used # 1
    BY <2>2
  <2>4. \A r : RefSet(tab', jft', r) = RefSet(tab, jft, r)
    BY <1>1, <2>1, <2>2, <2>3, SameOwn
  <2>5. Counted(tab', jft')
    BY <1>1, <2>2, <2>4 DEF Counted, RootRight, AliasRight
  <2>6. Others(tab, tab', b)
    BY <2>2 DEF Others
  <2>7. OwnsIt(tab, tab', jft, jft', b)
    BY <1>1, <2>1, <2>2, <2>3 DEF OwnsIt
  <2>8. unsaved' = unsaved \cap RootFiles(tab')
    BY <2>2 DEF IInv
  <2>9. tab' \in Tables /\ AliasesOwned(tab')
    BY <1>1, <2>2
  <2>10. Shows(b, IF b \in jft'[cur] THEN FileOf(tab', b) ELSE NONE)
    BY <2>1, <2>5, <2>6, <2>7, <2>8, <2>9, OwnActs
  <2>11. (IF b \in jft'[cur] THEN FileOf(tab', b) ELSE NONE) = NONE
    BY <1>1, <2>1
  <2> QED BY <1>2, <2>10, <2>11
<1>4. CASE CloseInherited(b)
  <2>1. /\ tab[b].used = 1 /\ tab[b].owner # cur /\ MarkClosed(b) /\ unsaved' = unsaved
        /\ tab' = ReleaseInherited(tab, {b}, cur)
    BY <1>4 DEF CloseInherited, IsInherited
  <2>2. tab[b].owner \in 1 .. cur /\ tab[b].owner < cur
    <3>1. tab[b].owner \in 1 .. Len(jft)
      BY <1>1, <2>1, OwnersInRange
    <3> QED BY <1>1, <2>1, <3>1
  <2>3. /\ jft' \in Jfts /\ Len(jft') = Len(jft) /\ jft'[Len(jft)] = jft[Len(jft)] \ {b}
        /\ \A p \in 1 .. Len(jft) : p # Len(jft) => jft'[p] = jft[p]
        /\ SameJftBut(jft, jft', b)
    BY <2>1, MarksClosed
  <2>4. Deeper(tab, jft', jft, cur, {h \in {b} : tab[h].owner # cur})
    <3>1. {h \in {b} : tab[h].owner # cur} = {b}
      BY <2>1
    <3>2. ASSUME NEW q \in Nat, NEW h \in Handles, tab[h].used = 1
          PROVE  Inherits(tab, jft, q, h) <=> Inherits(tab, jft', q, h) \/ (q = cur /\ h \in {b})
      <4>1. CASE q \notin 1 .. cur
        BY <1>1, <2>3, <4>1 DEF Inherits
      <4>2. CASE q \in 1 .. cur /\ q # cur
        <5>1. jft'[q] = jft[q]
          BY <1>1, <2>3, <4>2
        <5> QED BY <1>1, <2>3, <4>2, <5>1 DEF Inherits
      <4>3. CASE q = cur /\ h # b
        <5>1. h \in jft'[q] <=> h \in jft[q]
          BY <1>1, <2>3, <4>3
        <5> QED BY <1>1, <2>3, <4>3, <5>1 DEF Inherits
      <4>4. CASE q = cur /\ h = b
        <5>1. q \in 2 .. Len(jft)
          BY <1>1, <2>2, <4>4
        <5> QED BY <1>2, <2>2, <4>4, <5>1 DEF Inherits
      <4> QED BY <4>1, <4>2, <4>3, <4>4
    <3>3. ~Inherits(tab, jft', cur, b)
      BY <1>1, <2>3 DEF Inherits
    <3>4. cur \in Nat \ {0} /\ {b} \subseteq Handles
      BY <1>1
    <3> QED BY <3>1, <3>2, <3>3, <3>4 DEF Deeper
  <2>5. tab' \in Tables /\ SameSlots(tab, tab') /\ Counted(tab', jft')
    <3>1. {b} \in SUBSET Handles
      OBVIOUS
    <3> QED BY <1>1, <2>1, <2>3, <2>4, <3>1, ReleaseKeeps
  <2>6. ASSUME NEW p \in 1 .. Len(jft), NEW h \in Handles
        PROVE  h \in jft'[p] <=> h \in jft[p] /\ ~(p = cur /\ h = b)
    <3>1. CASE p = cur
      BY <1>1, <2>3, <3>1
    <3>2. CASE p # cur
      BY <1>1, <2>3, <3>2
    <3> QED BY <3>1, <3>2
  <2>7. Owned(tab, jft')
    <3>1. ASSUME NEW h \in Handles, tab[h].used = 1
          PROVE  tab[h].owner \in 1 .. Len(jft') /\ h \in jft'[tab[h].owner]
      <4>1. tab[h].owner \in 1 .. Len(jft) /\ h \in jft[tab[h].owner]
        BY <1>1, <3>1 DEF Sound, Owned
      <4>2. ~(tab[h].owner = cur /\ h = b)
        BY <2>1
      <4> QED BY <2>3, <2>6, <4>1, <4>2
    <3> QED BY <3>1 DEF Owned
  <2>8. \A p \in 1 .. Len(jft) : jft'[p] \subseteq jft[p]
    <3>1. \A p \in 1 .. Len(jft) : jft'[p] \subseteq Handles
      BY <2>3, JftHas
    <3> QED BY <2>6, <3>1
  <2>9. /\ Sound(tab', jft')
        /\ \A p \in 1 .. Len(jft), h \in Handles :
               Seen(tab', jft', p, h) = IF h \in jft'[p] THEN Seen(tab, jft, p, h) ELSE NONE
    BY <1>1, <2>3, <2>5, <2>7, <2>8, GivesUp
  <2>10. RootFiles(tab') = RootFiles(tab)
    BY <2>5, SameRootFiles
  <2>11. cur' = cur
    BY <2>3 DEF cur
  <2>12. IInv'
    BY <2>1, <2>9, <2>10, <2>11 DEF IInv
  <2>13. ASSUME NEW p \in 1 .. cur, NEW g \in Handles
         PROVE  Seen(tab', jft', p, g) = IF p = cur /\ g = b THEN NONE ELSE Seen(tab, jft, p, g)
    <3>1. Seen(tab', jft', p, g) = IF g \in jft'[p] THEN Seen(tab, jft, p, g) ELSE NONE
      BY <1>1, <2>9
    <3>2. g \notin jft[p] => Seen(tab, jft, p, g) = NONE
      BY DEF Seen
    <3>3. g \in jft'[p] <=> g \in jft[p] /\ ~(p = cur /\ g = b)
      BY <1>1, <2>6
    <3> QED BY <3>1, <3>2, <3>3
  <2>14. unsaved' = unsaved \cap RootFiles(tab')
    BY <2>1, <2>10 DEF IInv
  <2> QED BY <1>2, <2>11, <2>12, <2>13, <2>14 DEF Shows
<1>5. CASE CloseOwn(b)
  <2>1. /\ tab[b].used = 1 /\ ~IsInherited(b)
        /\ tab' = CloseTable(tab, b, {}) /\ Saved(tab, tab')
        /\ IF CloseFails(tab, b, {}) THEN UNCHANGED jft ELSE MarkClosed(b)
    BY <1>5 DEF CloseOwn, Failing, NoFailures
  <2>2. MarkClosed(b)
    BY <2>1 DEF CloseFails
  <2>3. tab[b].owner = cur /\ tab[b].owner >= Len(jft)
    BY <1>1, <1>2, <2>1 DEF IsInherited
  <2>4. /\ jft' \in Jfts /\ Len(jft') = Len(jft) /\ jft'[Len(jft)] = jft[Len(jft)] \ {b}
        /\ \A p \in 1 .. Len(jft) : p # Len(jft) => jft'[p] = jft[p]
        /\ SameJftBut(jft, jft', b)
    BY <2>2, MarksClosed
  <2>5. /\ tab' \in Tables /\ Counted(tab', jft') /\ SameBut(tab, tab', b) /\ Lessens(tab, tab')
        /\ tab'[b].used # 1
    BY <1>1, <2>1, <2>3, <2>4, CloseKeeps
  <2>6. /\ Others(tab, tab', b) /\ AliasesOwned(tab')
        /\ tab'[b].used = 0 \/ tab'[b].owner = tab[b].owner
    BY <1>1, <2>1, <2>4, <2>5, Closes
  <2>7. OwnsIt(tab, tab', jft, jft', b)
    BY <1>1, <2>3, <2>4, <2>5, <2>6 DEF OwnsIt
  <2>8. unsaved' = unsaved \cap RootFiles(tab')
    BY <2>1 DEF IInv, Saved
  <2>9. Shows(b, IF b \in jft'[cur] THEN FileOf(tab', b) ELSE NONE)
    BY <2>4, <2>5, <2>6, <2>7, <2>8, OwnActs
  <2>10. (IF b \in jft'[cur] THEN FileOf(tab', b) ELSE NONE) = NONE
    BY <1>1, <2>4
  <2> QED BY <1>2, <2>9, <2>10
<1> QED BY <1>3, <1>4, <1>5 DEF Close

(* What may be written or committed is the file of a handle in use.        *)
LEMMA Used ==
  ASSUME IInv, jft # <<>>, NEW b \in Handles, MayUse(b), Usable(tab, b)
  PROVE  /\ tab[Root(tab, b)].file = Seen(tab, jft, cur, b)
         /\ tab[Root(tab, b)].file \in RootFiles(tab)
<1>1. /\ tab \in Tables /\ jft \in Jfts /\ Counted(tab, jft) /\ cur = Len(jft)
      /\ Sound(tab, jft) /\ cur \in 1 .. Len(jft)
  BY CurHas DEF IInv
<1>2. b \in jft[cur] /\ tab[b].used = 1
  BY DEF MayUse, Usable
<1>3. tab[b].owner <= cur
  BY <1>1, <1>2, OwnersInRange
<1> QED BY <1>1, <1>2, <1>3, SeenIs, HeldIsRootFile DEF FileOf

LEMMA Writes ==
  ASSUME IInv, jft # <<>>, NEW b \in Handles, Write(b)
  PROVE  /\ IInv' /\ tab' = tab /\ jft' = jft /\ Seen(tab, jft, cur, b) \in Files
         /\ unsaved' = unsaved \cup {Seen(tab, jft, cur, b)}
<1>1. /\ tab[Root(tab, b)].file = Seen(tab, jft, cur, b)
      /\ tab[Root(tab, b)].file \in RootFiles(tab)
  BY Used DEF Write
<1>2. /\ tab' = tab /\ jft' = jft /\ tab[Root(tab, b)].file \in Files
      /\ unsaved' = unsaved \cup {tab[Root(tab, b)].file}
  BY DEF Write
<1>3. IInv'
  BY <1>1, <1>2 DEF IInv, cur
<1> QED BY <1>1, <1>2, <1>3

LEMMA Commits ==
  ASSUME IInv, jft # <<>>, NEW b \in Handles, Commit(b)
  PROVE  /\ IInv' /\ tab' = tab /\ jft' = jft
         /\ unsaved' = unsaved \ {Seen(tab, jft, cur, b)}
<1>1. tab[Root(tab, b)].file = Seen(tab, jft, cur, b)
  BY Used DEF Commit
<1>2. tab' = tab /\ jft' = jft /\ unsaved' = unsaved \ {tab[Root(tab, b)].file}
  BY DEF Commit
<1>3. IInv'
  BY <1>2 DEF IInv, cur
<1> QED BY <1>1, <1>2, <1>3

-----------------------------------------------------------------------------
(* Processes *)

LEMMA Forks ==
  ASSUME NEW t, NEW J, Sound(t, J), Len(J) > 0, NEW u \in Tables, SameSlots(t, u),
         NEW K \in Jfts, Len(K) = Len(J) + 1, \A p \in 1 .. Len(J) : K[p] = J[p],
         K[Len(J) + 1] = J[Len(J)], Counted(u, K)
  PROVE  /\ Sound(u, K)
         /\ \A p \in 1 .. Len(J) + 1, h \in Handles :
                Seen(u, K, p, h) = Seen(t, J, IF p = Len(J) + 1 THEN Len(J) ELSE p, h)
<1>1. /\ t \in Tables /\ J \in Jfts /\ Owned(t, J) /\ Opened(t, J) /\ ClosedRoots(t, J)
      /\ AliasesOwned(t)
  BY DEF Sound
<1>2. ASSUME NEW h \in Handles
      PROVE  /\ u[h].used = t[h].used /\ u[h].owner = t[h].owner /\ u[h].alias = t[h].alias
             /\ (IsAlias(u, h) <=> IsAlias(t, h)) /\ FileOf(u, h) = FileOf(t, h)
             /\ t[h].owner \in Nat
             /\ t[h].used # 0 => t[h].owner \in 1 .. Len(J)
  <2>1. Root(t, h) \in Handles /\ t[h].owner \in Nat
    BY <1>1, SlotHas
  <2>2. t[h].used # 0 => t[h].owner \in 1 .. Len(J)
    BY OwnersInRange
  <2> QED BY <2>1, <2>2 DEF SameSlots, IsAlias, FileOf, Root
<1>3. PICK n \in Nat : n = Len(J) /\ n > 0 /\ n \in 1 .. n
  BY <1>1, JftHas
<1>4. ASSUME NEW p \in 1 .. n + 1
      PROVE  \E q \in 1 .. n : /\ q <= p /\ K[p] = J[q] /\ q = (IF p = n + 1 THEN n ELSE p)
                               /\ \A g \in Handles : t[g].used # 0 => (t[g].owner <= p <=> t[g].owner <= q)
                               /\ \A g \in Handles : t[g].used # 0 => (t[g].owner > p <=> t[g].owner > q)
  <2>1. CASE p = n + 1
    <3>1. n <= p /\ K[p] = J[n]
      BY <1>3, <2>1
    <3>2. \A h \in Handles : t[h].used # 0 => t[h].owner <= p /\ t[h].owner <= n /\ ~(t[h].owner > p) /\ ~(t[h].owner > n)
      BY <1>2, <1>3, <2>1
    <3> QED BY <1>3, <2>1, <3>1, <3>2
  <2>2. CASE p # n + 1
    <3>1. p \in 1 .. n /\ K[p] = J[p]
      BY <1>3, <2>2
    <3> QED BY <2>2, <3>1
  <2> QED BY <2>1, <2>2
<1>5. \A p \in 1 .. n : p \in 1 .. n + 1 /\ K[p] = J[p]
  BY <1>3
<1>6. Owned(u, K)
  <2>1. ASSUME NEW h \in Handles, u[h].used = 1
        PROVE  u[h].owner \in 1 .. n + 1 /\ h \in K[u[h].owner]
    <3>1. t[h].used = 1 /\ u[h].owner = t[h].owner
      BY <1>2, <2>1
    <3>2. t[h].owner \in 1 .. n /\ h \in J[t[h].owner]
      BY <1>1, <1>3, <3>1 DEF Owned
    <3> QED BY <1>5, <3>1, <3>2
  <2> QED BY <1>3, <2>1 DEF Owned
<1>7. Opened(u, K)
  <2>1. ASSUME NEW p \in 1 .. n + 1, NEW h \in K[p]
        PROVE  \/ u[h].used = 1 /\ u[h].owner <= p
               \/ h < N_STD /\ (u[h].used = 0 \/ u[h].owner > p)
    <3>1. PICK q \in 1 .. n :
                /\ q <= p /\ K[p] = J[q] /\ q = (IF p = n + 1 THEN n ELSE p)
                /\ \A g \in Handles : t[g].used # 0 => (t[g].owner <= p <=> t[g].owner <= q)
                /\ \A g \in Handles : t[g].used # 0 => (t[g].owner > p <=> t[g].owner > q)
      BY <1>4, Zenon
    <3>2. h \in Handles /\ h \in J[q]
      BY <1>1, <1>3, <3>1, JftHas
    <3>3. \/ t[h].used = 1 /\ t[h].owner <= q
          \/ h < N_STD /\ (t[h].used = 0 \/ t[h].owner > q)
      BY <1>1, <1>3, <3>2 DEF Opened
    <3>4. u[h].used = t[h].used /\ u[h].owner = t[h].owner
      BY <1>2, <3>2
    <3>5. t[h].used # 0 => (t[h].owner <= p <=> t[h].owner <= q) /\ (t[h].owner > p <=> t[h].owner > q)
      BY <3>1, <3>2
    <3>6. CASE t[h].used = 0
      BY <3>3, <3>4, <3>6
    <3>7. CASE t[h].used # 0
      BY <3>3, <3>4, <3>5, <3>7
    <3> QED BY <3>6, <3>7
  <2> QED BY <1>3, <2>1 DEF Opened
<1>8. ClosedRoots(u, K)
  <2>1. ASSUME NEW h \in Handles, u[h].used = 2
        PROVE  u[h].owner \in 1 .. n + 1 /\ \A p \in 1 .. n + 1 : p >= u[h].owner => h \notin K[p]
    <3>1. /\ t[h].used = 2 /\ u[h].owner = t[h].owner /\ t[h].owner \in 1 .. n
          /\ \A q \in 1 .. n : q >= t[h].owner => h \notin J[q]
      BY <1>1, <1>2, <1>3, <2>1 DEF ClosedRoots
    <3>2. ASSUME NEW p \in 1 .. n + 1, p >= t[h].owner PROVE h \notin K[p]
      <4>1. PICK q \in 1 .. n :
                  /\ q <= p /\ K[p] = J[q] /\ q = (IF p = n + 1 THEN n ELSE p)
                  /\ \A g \in Handles : t[g].used # 0 => (t[g].owner <= p <=> t[g].owner <= q)
                  /\ \A g \in Handles : t[g].used # 0 => (t[g].owner > p <=> t[g].owner > q)
        BY <1>4, Zenon
      <4>2. q >= t[h].owner
        BY <1>3, <3>1, <3>2, <4>1
      <4> QED BY <3>1, <4>1, <4>2
    <3> QED BY <1>5, <3>1, <3>2
  <2> QED BY <1>3, <2>1 DEF ClosedRoots
<1>9. AliasesOwned(u)
  <2>1. ASSUME NEW h \in Handles, u[h].used = 1, IsAlias(u, h)
        PROVE  u[u[h].alias].owner <= u[h].owner
    <3>1. t[h].used = 1 /\ IsAlias(t, h) /\ t[h].alias \in Handles
      BY <1>1, <1>2, <2>1, SlotHas
    <3> QED BY <1>1, <1>2, <3>1 DEF AliasesOwned
  <2> QED BY <2>1 DEF AliasesOwned
<1>10. ASSUME NEW p \in 1 .. n + 1, NEW h \in Handles
       PROVE  Seen(u, K, p, h) = Seen(t, J, IF p = n + 1 THEN n ELSE p, h)
  <2>1. PICK q \in 1 .. n :
              /\ q <= p /\ K[p] = J[q] /\ q = (IF p = n + 1 THEN n ELSE p)
              /\ \A g \in Handles : t[g].used # 0 => (t[g].owner <= p <=> t[g].owner <= q)
              /\ \A g \in Handles : t[g].used # 0 => (t[g].owner > p <=> t[g].owner > q)
    BY <1>4, Zenon
  <2>2. t[h].used # 0 => (t[h].owner > p <=> t[h].owner > q)
    BY <2>1
  <2>3. u[h].used = t[h].used /\ u[h].owner = t[h].owner /\ FileOf(u, h) = FileOf(t, h)
    BY <1>2
  <2>4. Seen(u, K, p, h) = Seen(t, J, q, h)
    BY <2>1, <2>2, <2>3 DEF Seen
  <2> QED BY <2>1, <2>4
<1> QED BY <1>3, <1>6, <1>7, <1>8, <1>9, <1>10 DEF Sound

LEMMA Execs ==
  ASSUME IInv, jft # <<>>, Exec
  PROVE  /\ IInv' /\ jft' = Append(jft, jft[cur]) /\ unsaved' = unsaved
         /\ Len(jft') = Len(jft) + 1
         /\ \A p \in 1 .. cur + 1, h \in Handles :
                Seen(tab', jft', p, h) = Seen(tab, jft, IF p = cur + 1 THEN cur ELSE p, h)
<1>1. /\ tab \in Tables /\ jft \in Jfts /\ Counted(tab, jft) /\ cur = Len(jft) /\ cur \in Nat
      /\ Len(jft) > 0 /\ Sound(tab, jft) /\ cur \in 1 .. cur /\ Owned(tab, jft)
  BY CurHas DEF IInv, Sound
<1>2. /\ cur < MaxDepth /\ tab' = Inherit(tab, jft[Len(jft)])
      /\ jft' = Append(jft, jft[Len(jft)]) /\ unsaved' = unsaved
  BY <1>1 DEF Exec
<1>3. /\ tab' \in Tables /\ SameSlots(tab, tab') /\ jft' \in Jfts /\ Len(jft') = Len(jft) + 1
      /\ \A p \in 1 .. Len(jft) : jft'[p] = jft[p]
      /\ Counted(tab', jft')
  BY <1>1, <1>2, InheritKeeps
<1>4. jft'[Len(jft) + 1] = jft[Len(jft)]
  BY <1>1, <1>2 DEF Jfts
<1>5. /\ Sound(tab', jft')
      /\ \A p \in 1 .. Len(jft) + 1, h \in Handles :
             Seen(tab', jft', p, h) = Seen(tab, jft, IF p = Len(jft) + 1 THEN Len(jft) ELSE p, h)
  BY <1>1, <1>3, <1>4, Forks
<1>6. RootFiles(tab') = RootFiles(tab)
  BY <1>3, SameRootFiles
<1>7. cur' <= MaxDepth + 1
  <2>1. cur' = cur + 1
    BY <1>1, <1>3 DEF cur
  <2> QED BY <1>1, <1>2, <2>1, Constants
<1>8. IInv'
  BY <1>2, <1>5, <1>6, <1>7 DEF IInv
<1> QED BY <1>1, <1>2, <1>3, <1>5, <1>8

(* The references counted for the child are those given back.              *)
LEMMA ExecsFail ==
  ASSUME IInv, jft # <<>>, ExecFails
  PROVE  /\ IInv' /\ jft' = jft /\ unsaved' = unsaved
         /\ \A p \in 1 .. cur, h \in Handles : Seen(tab', jft', p, h) = Seen(tab, jft, p, h)
<1>1. /\ tab \in Tables /\ jft \in Jfts /\ Counted(tab, jft) /\ cur = Len(jft) /\ cur \in Nat
      /\ Len(jft) > 0 /\ Sound(tab, jft) /\ cur \in 1 .. cur /\ Owned(tab, jft)
  BY CurHas DEF IInv, Sound
<1>2. PICK t : t = Inherit(tab, jft[Len(jft)])
  OBVIOUS
<1>3. PICK K : K = Append(jft, jft[Len(jft)])
  OBVIOUS
<1>4. PICK B : B = jft[Len(jft)]
  OBVIOUS
<1>5. tab' = ReleaseInherited(t, B, cur + 1) /\ jft' = jft /\ unsaved' = unsaved
  BY <1>1, <1>2, <1>4 DEF ExecFails
<1>6. /\ t \in Tables /\ SameSlots(tab, t) /\ K \in Jfts /\ Len(K) = Len(jft) + 1
      /\ \A p \in 1 .. Len(jft) : K[p] = jft[p]
      /\ Counted(t, K)
  BY <1>1, <1>2, <1>3, InheritKeeps
<1>7. K[Len(jft) + 1] = B /\ B \in SUBSET Handles
  <2>1. K[Len(jft) + 1] = B
    BY <1>1, <1>3, <1>4 DEF Jfts
  <2> QED BY <1>1, <1>4, <2>1, JftHas
<1>8. ASSUME NEW h \in Handles, t[h].used = 1 PROVE t[h].owner \in 1 .. cur
  <2>1. tab[h].used = 1 /\ t[h].owner = tab[h].owner
    BY <1>6, <1>8 DEF SameSlots
  <2> QED BY <1>1, <2>1 DEF Owned
<1>9. Deeper(t, jft, K, cur + 1, {h \in B : t[h].owner # cur + 1})
  <2>1. ASSUME NEW q \in Nat, NEW h \in Handles, t[h].used = 1
        PROVE  Inherits(t, K, q, h) <=>
                  Inherits(t, jft, q, h) \/ (q = cur + 1 /\ h \in {g \in B : t[g].owner # cur + 1})
    <3>1. t[h].owner \in 1 .. cur
      BY <1>8, <2>1
    <3>2. CASE q <= cur
      <4>1. q \in 2 .. cur => K[q] = jft[q]
        BY <1>1, <1>6
      <4> QED BY <1>1, <1>6, <3>2, <4>1 DEF Inherits
    <3>3. CASE q = cur + 1
      <4>1. q \in 2 .. Len(K) /\ t[h].owner < q /\ q \notin 2 .. Len(jft) /\ t[h].owner # cur + 1
        BY <1>1, <1>6, <3>1, <3>3
      <4>2. K[q] = B
        BY <1>1, <1>7, <3>3
      <4> QED BY <3>3, <4>1, <4>2 DEF Inherits
    <3>4. CASE q > cur + 1
      BY <1>1, <1>6, <3>4 DEF Inherits
    <3> QED BY <1>1, <3>2, <3>3, <3>4
  <2>2. \A h : ~Inherits(t, jft, cur + 1, h)
    BY <1>1 DEF Inherits
  <2>3. cur + 1 \in Nat \ {0} /\ {h \in B : t[h].owner # cur + 1} \subseteq Handles
    BY <1>1, <1>7
  <2> QED BY <2>1, <2>2, <2>3 DEF Deeper
<1>10. tab' \in Tables /\ SameSlots(t, tab') /\ Counted(tab', jft)
  BY <1>1, <1>5, <1>6, <1>7, <1>9, ReleaseKeeps
<1>11. SameSlots(tab, tab')
  BY <1>6, <1>10 DEF SameSlots
<1>12. /\ Sound(tab', jft)
       /\ \A p \in 1 .. Len(jft), h \in Handles :
              Seen(tab', jft, p, h) = IF h \in jft[p] THEN Seen(tab, jft, p, h) ELSE NONE
  BY <1>1, <1>10, <1>11, GivesUp
<1>13. \A p \in 1 .. cur, h \in Handles : Seen(tab', jft', p, h) = Seen(tab, jft, p, h)
  BY <1>1, <1>5, <1>12 DEF Seen
<1>14. IInv'
  <2>1. RootFiles(tab') = RootFiles(tab)
    BY <1>11, SameRootFiles
  <2> QED BY <1>5, <1>12, <2>1 DEF IInv, cur
<1> QED BY <1>5, <1>13, <1>14

(* What is left of t, whose last process has gone.                         *)
LEMMA Leaves ==
  ASSUME NEW t, NEW J, Sound(t, J), Len(J) > 0, NEW u \in Tables,
         NEW K \in Jfts, Len(K) = Len(J) - 1, \A p \in 1 .. Len(J) - 1 : K[p] = J[p],
         NEW v \in Tables, SameSlots(t, v), ClosedTo(v, u, K, Len(J), MAX_HANDLES)
  PROVE  /\ Sound(u, K)
         /\ \A p \in 1 .. Len(J) - 1, h \in Handles : Seen(u, K, p, h) = Seen(t, J, p, h)
<1>1. /\ t \in Tables /\ J \in Jfts /\ Owned(t, J) /\ Opened(t, J) /\ ClosedRoots(t, J)
      /\ AliasesOwned(t)
  BY DEF Sound
<1>2. PICK n \in Nat : n = Len(J) /\ n > 0
  BY <1>1, JftHas
<1>3. Len(K) = n - 1 /\ \A p \in 1 .. n - 1 : p \in 1 .. n /\ p # n /\ p \in Nat /\ K[p] = J[p]
  BY <1>2
<1>4. Counted(u, K) /\ Lessens(v, u)
  BY DEF ClosedTo
<1>5. ASSUME NEW h \in Handles
      PROVE  /\ v[h].used = t[h].used /\ v[h].owner = t[h].owner /\ v[h].alias = t[h].alias
             /\ (IsAlias(v, h) <=> IsAlias(t, h)) /\ FileOf(v, h) = FileOf(t, h)
             /\ t[h].owner \in Nat /\ t[h].used \in 0 .. 2
  <2>1. Root(t, h) \in Handles /\ t[h].owner \in Nat /\ t[h].used \in 0 .. 2
    BY <1>1, SlotHas
  <2> QED BY <2>1 DEF SameSlots, IsAlias, FileOf, Root
<1>6. AliasesOwned(v)
  <2>1. ASSUME NEW h \in Handles, v[h].used = 1, IsAlias(v, h)
        PROVE  v[v[h].alias].owner <= v[h].owner
    <3>1. t[h].used = 1 /\ IsAlias(t, h) /\ t[h].alias \in Handles
      BY <1>1, <1>5, <2>1, SlotHas
    <3> QED BY <1>1, <1>5, <3>1 DEF AliasesOwned
  <2> QED BY <2>1 DEF AliasesOwned
<1>7. ASSUME NEW h \in Handles
      PROVE  /\ u[h].used = 1 => t[h].used = 1 /\ u[h].owner = t[h].owner
             /\ t[h].used = 1 => u[h].used = 1 \/ t[h].owner = n
             /\ ~(u[h].used = 1 /\ u[h].owner = n)
             /\ u[h].used # 0 => t[h].used # 0 /\ u[h].owner = t[h].owner
  <2>1. /\ u[h].used = 1 => v[h].used = 1 /\ u[h].owner = v[h].owner
        /\ v[h].used = 1 => u[h].used = 1 \/ v[h].owner = n
        /\ h < MAX_HANDLES => ~(u[h].used = 1 /\ u[h].owner = n)
    BY <1>2 DEF ClosedTo
  <2>2. u[h].used # 0 => v[h].used # 0 /\ u[h].owner = v[h].owner
    BY <1>4 DEF Lessens
  <2>3. h < MAX_HANDLES
    BY Constants
  <2>4. v[h].used = t[h].used /\ v[h].owner = t[h].owner
    BY <1>5
  <2> QED BY <2>1, <2>2, <2>3, <2>4
<1>8. /\ AliasesOwned(u)
      /\ \A h \in Handles : u[h].used = 1 => FileOf(u, h) = FileOf(v, h)
  <2>1. \A h \in Handles : u[h].used = 1 => v[h].used = 1
    BY <1>5, <1>7
  <2> QED BY <1>4, <1>6, <2>1, LessensKeeps
<1>9. ASSUME NEW h \in Handles, u[h].used = 1
      PROVE  u[h].owner \in 1 .. n - 1 /\ h \in J[u[h].owner]
  <2>1. t[h].used = 1 /\ u[h].owner = t[h].owner /\ u[h].owner # n
    BY <1>7, <1>9
  <2>2. t[h].owner \in 1 .. n /\ h \in J[t[h].owner]
    BY <1>1, <1>2, <2>1 DEF Owned
  <2> QED BY <1>2, <2>1, <2>2
<1>10. Owned(u, K)
  BY <1>3, <1>9 DEF Owned
<1>11. Opened(u, K)
  <2>1. ASSUME NEW p \in 1 .. n - 1, NEW h \in K[p]
        PROVE  \/ u[h].used = 1 /\ u[h].owner <= p
               \/ h < N_STD /\ (u[h].used = 0 \/ u[h].owner > p)
    <3>1. h \in Handles /\ h \in J[p] /\ p \in 1 .. n /\ p < n
      BY <1>1, <1>2, <1>3, JftHas
    <3>2. \/ t[h].used = 1 /\ t[h].owner <= p
          \/ h < N_STD /\ (t[h].used = 0 \/ t[h].owner > p)
      BY <1>1, <1>2, <3>1 DEF Opened
    <3>3. CASE t[h].used = 1 /\ t[h].owner <= p
      <4>1. t[h].owner # n
        BY <1>2, <1>5, <3>1, <3>3
      <4> QED BY <1>7, <3>1, <3>3, <4>1
    <3>4. CASE h < N_STD /\ (t[h].used = 0 \/ t[h].owner > p)
      BY <1>7, <3>1, <3>4
    <3> QED BY <3>2, <3>3, <3>4
  <2> QED BY <1>3, <2>1 DEF Opened
<1>12. ClosedRoots(u, K)
  <2>1. ASSUME NEW h \in Handles, u[h].used = 2
        PROVE  u[h].owner \in 1 .. n - 1 /\ \A p \in 1 .. n - 1 : p >= u[h].owner => h \notin J[p]
    <3>1. ~IsAlias(u, h)
      BY <1>4, <2>1 DEF Counted, AliasRight, Usable
    <3>2. PICK g \in Handles : Refers(u, g, h)
      <4>1. RefSet(u, K, h) # {}
        BY <1>4, <2>1, <3>1, RootHas
      <4> QED BY <4>1, FirstLevel
    <3>3. u[g].used = 1 /\ g # h /\ IsAlias(u, g) /\ u[g].alias = h
      BY <2>1, <3>2 DEF Refers, Root
    <3>4. u[h].owner <= u[g].owner /\ u[g].owner \in 1 .. n - 1
      BY <1>8, <1>9, <3>3 DEF AliasesOwned
    <3>5. t[h].used # 0 /\ u[h].owner = t[h].owner
      BY <1>7, <2>1
    <3>6. t[h].owner \in 1 .. n
      BY <1>2, <3>5, OwnersInRange
    <3>7. u[h].owner \in 1 .. n - 1
      BY <1>2, <3>4, <3>5, <3>6
    <3>8. t[h].used = 2
      <4>1. t[h].used # 1
        BY <1>2, <1>7, <2>1, <3>5, <3>7
      <4> QED BY <1>5, <3>5, <4>1
    <3>9. \A p \in 1 .. n : p >= t[h].owner => h \notin J[p]
      BY <1>1, <1>2, <3>8 DEF ClosedRoots
    <3> QED BY <1>3, <3>5, <3>7, <3>9
  <2> QED BY <1>3, <2>1 DEF ClosedRoots
<1>13. Sound(u, K)
  BY <1>4, <1>8, <1>10, <1>11, <1>12 DEF Sound
<1>14. ASSUME NEW p \in 1 .. n - 1, NEW h \in Handles
       PROVE  Seen(u, K, p, h) = Seen(t, J, p, h)
  <2>1. K[p] = J[p] /\ p \in 1 .. Len(K) /\ p \in 1 .. Len(J) /\ p < n /\ p \in Nat
    BY <1>2, <1>3
  <2>2. CASE h \notin J[p]
    BY <2>1, <2>2 DEF Seen
  <2>3. CASE h \in J[p] /\ t[h].used = 1 /\ t[h].owner <= p
    <3>1. t[h].owner # n
      BY <1>2, <1>5, <2>1, <2>3
    <3>2. u[h].used = 1 /\ u[h].owner <= p
      BY <1>7, <2>3, <3>1
    <3>3. FileOf(u, h) = FileOf(t, h)
      BY <1>5, <1>8, <3>2
    <3>4. Seen(u, K, p, h) = FileOf(u, h)
      BY <1>13, <2>1, <2>3, <3>2, SeenIs
    <3>5. Seen(t, J, p, h) = FileOf(t, h)
      BY <2>1, <2>3, SeenIs
    <3> QED BY <3>3, <3>4, <3>5
  <2>4. CASE h \in J[p] /\ ~(t[h].used = 1 /\ t[h].owner <= p)
    <3>1. ~(u[h].used = 1 /\ u[h].owner <= p)
      BY <1>7, <2>4
    <3>2. Seen(u, K, p, h) = CON
      BY <1>13, <2>1, <2>4, <3>1, SeenIs
    <3>3. Seen(t, J, p, h) = CON
      BY <2>1, <2>4, SeenIs
    <3> QED BY <3>2, <3>3
  <2> QED BY <2>2, <2>3, <2>4
<1> QED BY <1>2, <1>13, <1>14

LEMMA Exits ==
  ASSUME WordHolds, NoFailures, IInv, jft # <<>>, Exit
  PROVE  /\ IInv' /\ jft' = SubSeq(jft, 1, cur - 1) /\ Len(jft') = Len(jft) - 1
         /\ unsaved' = unsaved \cap RootFiles(tab')
         /\ \A p \in 1 .. cur - 1, h \in Handles : Seen(tab', jft', p, h) = Seen(tab, jft, p, h)
<1>1. /\ tab \in Tables /\ jft \in Jfts /\ Counted(tab, jft) /\ cur = Len(jft) /\ cur \in Nat
      /\ Len(jft) > 0 /\ Sound(tab, jft) /\ cur \in 1 .. cur /\ Owned(tab, jft)
  BY CurHas DEF IInv, Sound
<1>2. PICK B : B = jft[cur]
  OBVIOUS
<1>3. PICK t : t = ReleaseInherited(tab, B, cur)
  OBVIOUS
<1>4. /\ tab' = CloseOwned(t, cur, {}) /\ jft' = SubSeq(jft, 1, cur - 1)
      /\ unsaved' = unsaved \ (RootFiles(tab) \ RootFiles(tab'))
  BY <1>2, <1>3 DEF Exit, Failing, NoFailures, Saved
<1>5. B \in SUBSET Handles
  BY <1>1, <1>2, JftHas
<1>6. /\ jft' \in Jfts /\ Len(jft') = cur - 1
      /\ \A p \in 1 .. cur - 1 : jft'[p] = jft[p]
  <2>1. jft' = [p \in 1 .. cur - 1 |-> jft[p]]
    BY <1>1, <1>4 DEF Jfts
  <2>2. \A p \in 1 .. cur - 1 : jft[p] \in SUBSET Handles
    BY <1>1, JftHas
  <2>3. cur - 1 \in Nat
    BY <1>1
  <2>4. jft' \in [1 .. cur - 1 -> SUBSET Handles]
    BY <2>1, <2>2
  <2> QED BY <2>1, <2>3, <2>4 DEF Jfts
<1>7. Deeper(tab, jft', jft, cur, {h \in B : tab[h].owner # cur})
  <2>1. ASSUME NEW q \in Nat, NEW h \in Handles, tab[h].used = 1
        PROVE  Inherits(tab, jft, q, h) <=>
                  Inherits(tab, jft', q, h) \/ (q = cur /\ h \in {g \in B : tab[g].owner # cur})
    <3>1. tab[h].owner \in 1 .. cur
      BY <1>1, <2>1 DEF Owned
    <3>2. CASE q < cur
      <4>1. q \in 2 .. cur => jft'[q] = jft[q] /\ q \in 2 .. cur - 1
        BY <1>1, <1>6, <3>2
      <4>2. q \in 2 .. cur - 1 => q \in 2 .. cur
        BY <1>1
      <4> QED BY <1>1, <1>6, <3>2, <4>1, <4>2 DEF Inherits
    <3>3. CASE q = cur
      <4>1. q \notin 2 .. Len(jft')
        BY <1>1, <1>6, <3>3
      <4>2. tab[h].owner # cur <=> tab[h].owner < q
        BY <1>1, <3>1, <3>3
      <4>3. tab[h].owner < q => q \in 2 .. Len(jft)
        BY <1>1, <3>1, <3>3
      <4> QED BY <1>2, <3>3, <4>1, <4>2, <4>3 DEF Inherits
    <3>4. CASE q > cur
      BY <1>1, <1>6, <3>4 DEF Inherits
    <3> QED BY <1>1, <3>2, <3>3, <3>4
  <2>2. \A h : ~Inherits(tab, jft', cur, h)
    BY <1>1, <1>6 DEF Inherits
  <2>3. cur \in Nat \ {0} /\ {h \in B : tab[h].owner # cur} \subseteq Handles
    BY <1>1, <1>5
  <2> QED BY <2>1, <2>2, <2>3 DEF Deeper
<1>8. t \in Tables /\ SameSlots(tab, t) /\ Counted(t, jft')
  BY <1>1, <1>3, <1>5, <1>6, <1>7, ReleaseKeeps
<1>9. cur - 1 <= MaxDepth + 1 /\ cur >= cur - 1
  BY <1>1, Constants DEF IInv
<1>10. ClosedTo(t, tab', jft', cur, MAX_HANDLES)
  BY <1>1, <1>4, <1>6, <1>8, <1>9, CloseOwnedKeeps
<1>11. tab' \in Tables
  BY <1>10 DEF ClosedTo
<1>12. /\ Sound(tab', jft')
       /\ \A p \in 1 .. cur - 1, h \in Handles : Seen(tab', jft', p, h) = Seen(tab, jft, p, h)
  BY <1>1, <1>6, <1>8, <1>10, <1>11, Leaves
<1>13. unsaved' = unsaved \cap RootFiles(tab')
  BY <1>4 DEF IInv
<1>14. IInv'
  <2>1. cur' <= MaxDepth + 1
    BY <1>6, <1>9 DEF cur
  <2> QED BY <1>12, <1>13, <2>1 DEF IInv
<1> QED BY <1>1, <1>4, <1>6, <1>12, <1>13, <1>14

-----------------------------------------------------------------------------
(* The invariant is inductive *)

LEMMA Starts ==
  ASSUME Init
  PROVE  IInv /\ ProcessHandles = <<[h \in Handles |-> IF h \in 0 .. N_STD - 1 THEN CON ELSE NONE]>>
<1>1. /\ tab = [h \in Handles |-> FreeSlot] /\ unsaved = {}
      /\ jft = <<0 .. (N_STD - 1)>> /\ jft[1] = 0 .. (N_STD - 1) /\ Len(jft) = 1 /\ cur = 1
  BY DEF Init, cur
<1>2. 0 .. (N_STD - 1) \subseteq Handles /\ \A h \in Handles : h \in 0 .. (N_STD - 1) <=> h < N_STD
  BY HandleAssumption DEF Handles
<1>3. jft \in Jfts
  BY <1>1, <1>2 DEF Jfts
<1>4. tab \in Tables
  BY <1>1 DEF Tables, FreeSlot, Slot
<1>5. \A h \in Handles : tab[h].used = 0
  BY <1>1 DEF FreeSlot
<1>6. Counted(tab, jft) /\ Owned(tab, jft) /\ ClosedRoots(tab, jft) /\ AliasesOwned(tab)
  BY <1>5 DEF Counted, Owned, ClosedRoots, AliasesOwned
<1>7. Opened(tab, jft)
  <2>1. \A p \in 1 .. 1 : p = 1
    OBVIOUS
  <2> QED BY <1>1, <1>2, <1>5, <2>1 DEF Opened
<1>8. IInv
  BY <1>1, <1>3, <1>4, <1>6, <1>7, Constants DEF IInv, Sound
<1>9. \A h \in Handles : View(1, h) = IF h \in 0 .. N_STD - 1 THEN CON ELSE NONE
  BY <1>1, <1>2, <1>5 DEF View
<1>10. ProcessHandles = [p \in 1 .. 1 |-> [h \in Handles |-> IF h \in 0 .. N_STD - 1 THEN CON ELSE NONE]]
  <2>1. \A p \in 1 .. 1 : [h \in Handles |-> View(p, h)]
                             = [h \in Handles |-> IF h \in 0 .. N_STD - 1 THEN CON ELSE NONE]
    <3>1. \A p \in 1 .. 1 : p = 1
      OBVIOUS
    <3> QED BY <1>9, <3>1
  <2> QED BY <1>1, <2>1 DEF ProcessHandles
<1> QED BY <1>8, <1>10

(* What a step may do, in terms of what processes see.                     *)
LEMMA Steps ==
  ASSUME WordHolds, NoFailures, IInv, [Next]_vars
  PROVE  \/ /\ jft' = jft /\ unsaved' = unsaved /\ IInv'
            /\ \A p \in 1 .. cur, g \in Handles : Seen(tab', jft', p, g) = Seen(tab, jft, p, g)
         \/ /\ jft # <<>>
            /\ \/ \E h \in Handles, f \in (Files \ RootFiles(tab)) \cup {CON} :
                     Shows(h, f) /\ Seen(tab, jft, cur, h) = NONE
               \/ \E b \in Handles, h \in Handles :
                     b \in jft[cur] /\ Shows(h, Seen(tab, jft, cur, b))
               \/ \E b \in Handles : b \in jft[cur] /\ Shows(b, NONE)
               \/ \E b \in Handles : Write(b)
               \/ \E b \in Handles : Commit(b)
               \/ Exec \/ Exit
<1>1. CASE UNCHANGED vars
  <2>1. tab' = tab /\ jft' = jft /\ unsaved' = unsaved
    BY <1>1 DEF vars
  <2> QED BY <2>1 DEF IInv, cur
<1>2. CASE Next
  <2>0. jft # <<>>
    BY <1>2 DEF Next
  <2>1. ASSUME NEW f \in (Files \ RootFiles(tab)) \cup {CON}, Open(f)
        PROVE  \E h \in Handles : Shows(h, f) /\ Seen(tab, jft, cur, h) = NONE
    BY <2>0, <2>1, Opens
  <2>2. ASSUME NEW b \in Handles, Dup(b)
        PROVE  \E h \in Handles : b \in jft[cur] /\ Shows(h, Seen(tab, jft, cur, b))
    BY <2>0, <2>2, Dups
  <2>3. ASSUME NEW b \in Handles, Close(b) PROVE b \in jft[cur] /\ Shows(b, NONE)
    BY <2>0, <2>3, CloseCalls
  <2>4. ASSUME NEW b \in Handles, NEW c \in Handles, ForceDup(b, c)
        PROVE  \/ UNCHANGED vars
               \/ b \in jft[cur] /\ Shows(c, Seen(tab, jft, cur, b))
    BY <2>0, <2>4, ForceDups
  <2>5. ASSUME ExecFails
        PROVE  /\ jft' = jft /\ unsaved' = unsaved /\ IInv'
               /\ \A p \in 1 .. cur, g \in Handles : Seen(tab', jft', p, g) = Seen(tab, jft, p, g)
    BY <2>0, <2>5, ExecsFail
  <2>6. CASE \E f \in (Files \ RootFiles(tab)) \cup {CON} : Open(f)
    BY <2>0, <2>1, <2>6
  <2>7. CASE \E b \in Handles : Dup(b) \/ Close(b) \/ Write(b) \/ Commit(b)
    BY <2>0, <2>2, <2>3, <2>7
  <2>8. CASE \E b, c \in Handles : ForceDup(b, c)
    BY <1>1, <2>0, <2>4, <2>8
  <2>9. CASE Exec \/ ExecFails \/ Exit
    BY <2>0, <2>5, <2>9
  <2> QED BY <1>2, <2>6, <2>7, <2>8, <2>9 DEF Next
<1> QED BY <1>1, <1>2

LEMMA Inductive == ASSUME WordHolds, NoFailures PROVE IInv /\ [Next]_vars => IInv'
<1> SUFFICES ASSUME IInv, [Next]_vars PROVE IInv'
  OBVIOUS
<1>1. ASSUME jft # <<>>, Exec PROVE IInv'
  BY <1>1, Execs
<1>2. ASSUME jft # <<>>, Exit PROVE IInv'
  BY <1>2, Exits
<1>3. ASSUME jft # <<>>, NEW b \in Handles, Write(b) PROVE IInv'
  BY <1>3, Writes
<1>4. ASSUME jft # <<>>, NEW b \in Handles, Commit(b) PROVE IInv'
  BY <1>4, Commits
<1>5. \A h, f : Shows(h, f) => IInv'
  BY DEF Shows
<1> QED BY <1>1, <1>2, <1>3, <1>4, <1>5, Steps, Zenon

LEMMA Always == ASSUME WordHolds, NoFailures PROVE Spec => []IInv
BY Starts, Inductive, PTL DEF Spec

-----------------------------------------------------------------------------
(* The counts, slot by slot *)

LEMMA ReferencesIs ==
  ASSUME IInv, NEW r \in Handles, ~IsAlias(tab, r), tab[r].used # 0
  PROVE  References(r) = Cardinality(RefSet(tab, jft, r))
<1>1. tab \in Tables /\ jft \in Jfts /\ Counted(tab, jft) /\ cur = Len(jft) /\ cur \in Nat
  BY CurHas
<1>2. IsFiniteSet(Handles)
  BY FS_Interval, Constants DEF Handles
<1>3. PICK A : A = Aliases(tab, r)
  OBVIOUS
<1>4. IsFiniteSet(A) /\ A \subseteq Handles /\ r \notin A /\ Cardinality(A) \in Nat
  <2>1. A \subseteq Handles
    BY <1>3 DEF Aliases
  <2>2. r \notin A
    BY <1>3, Constants DEF Aliases, IsAlias
  <2> QED BY <1>2, <2>1, <2>2, FS_Subset, FS_CardinalityType
<1>5. PICK P : P = {h \in Handles : Refers(tab, h, r)}
  OBVIOUS
<1>6. P = IF tab[r].used = 1 THEN A \cup {r} ELSE A
  <2>1. \A h \in Handles : Refers(tab, h, r) <=> h \in A \/ (h = r /\ tab[r].used = 1)
    BY <1>3, Constants DEF Refers, Root, IsAlias, Aliases
  <2> QED BY <1>4, <1>5, <2>1
<1>7. /\ IsFiniteSet(P) /\ Cardinality(P) \in Nat
      /\ Cardinality(P) = (IF tab[r].used = 1 THEN 1 ELSE 0) + Cardinality(A)
  <2>1. IsFiniteSet(P)
    BY <1>2, <1>5, FS_Subset
  <2>2. tab[r].used = 1 => Cardinality(P) = Cardinality(A) + 1
    BY <1>4, <1>6, WithOne
  <2> QED BY <1>4, <1>6, <2>1, <2>2, FS_CardinalityType
<1>8. PICK T : T = {ph \in (2 .. cur) \X Handles :
                     /\ ph[2] \in jft[ph[1]] /\ tab[ph[2]].used = 1
                     /\ tab[ph[2]].owner < ph[1] /\ Root(tab, ph[2]) = r}
  OBVIOUS
<1>9. PICK Z : Z = {<<0, h>> : h \in P}
  OBVIOUS
<1>10. IsFiniteSet(Z) /\ Cardinality(Z) = Cardinality(P)
  BY <1>7, <1>9, PairsAtLevel, Zenon
<1>11. PICK S : S = RefSet(tab, jft, r)
  OBVIOUS
<1>12. \A p \in Nat, h \in Handles : <<p, h>> \in T <=> Inherits(tab, jft, p, h) /\ Refers(tab, h, r)
  BY <1>1, <1>8 DEF Inherits, Refers
<1>13. \A p \in Nat, h \in Handles : <<p, h>> \in Z <=> p = 0 /\ Refers(tab, h, r)
  BY <1>5, <1>9
<1>14. T \subseteq Nat \X Handles /\ Z \subseteq Nat \X Handles /\ S \subseteq Nat \X Handles
  <2>1. \A p \in 2 .. cur : p \in Nat
    OBVIOUS
  <2>2. T \subseteq Nat \X Handles
    BY <1>8, <2>1
  <2>3. Z \subseteq Nat \X Handles
    BY <1>5, <1>9
  <2> QED BY <1>1, <1>11, <2>2, <2>3, RefSetHas
<1>15. \A p \in Nat, h \in Handles : <<p, h>> \in S <=> <<p, h>> \in Z \/ <<p, h>> \in T
  <2> TAKE p \in Nat, h \in Handles
  <2>1. Inherits(tab, jft, p, h) => p \in 0 .. Len(jft)
    BY <1>1 DEF Inherits
  <2>2. 0 \in 0 .. Len(jft)
    BY <1>1
  <2>3. <<p, h>> \in S <=> Refers(tab, h, r) /\ (p = 0 \/ Inherits(tab, jft, p, h))
    BY <1>1, <1>11, <2>1, <2>2, RefSetHas
  <2> QED BY <1>12, <1>13, <2>3
<1>16. S = Z \cup T
  <2>1. PICK U : U = Z \cup T
    OBVIOUS
  <2>2. U \subseteq Nat \X Handles /\ \A p \in Nat, h \in Handles : <<p, h>> \in S <=> <<p, h>> \in U
    BY <1>14, <1>15, <2>1
  <2>3. S = U
    BY ONLY <1>14, <2>2, PairsEqual
  <2> QED BY <2>1, <2>3
<1>17. Z \cap T = {}
  <2>1. ASSUME NEW x \in Z \cap T PROVE FALSE
    <3>1. PICK p \in Nat, h \in Handles : x = <<p, h>>
      BY <1>14, <2>1
    <3>2. p = 0 /\ Inherits(tab, jft, p, h)
      BY <1>12, <1>13, <2>1, <3>1
    <3> QED BY <3>2 DEF Inherits
  <2> QED BY <2>1
<1>18. IsFiniteSet(T) /\ Cardinality(T) \in Nat
  <2>1. IsFiniteSet(S) /\ T \subseteq S
    BY <1>1, <1>11, <1>16, RefSetFinite
  <2> QED BY <2>1, FS_Subset, FS_CardinalityType
<1>19. Cardinality(S) = Cardinality(Z) + Cardinality(T)
  <2>1. Cardinality(Z \cup T) = Cardinality(Z) + Cardinality(T) - Cardinality(Z \cap T)
    BY <1>10, <1>18, FS_Union
  <2>2. Cardinality(Z \cap T) = 0
    BY <1>17, FS_EmptySet
  <2> QED BY <1>7, <1>10, <1>16, <1>18, <2>1, <2>2
<1>20. References(r) = ((IF tab[r].used = 1 THEN 1 ELSE 0) + Cardinality(A)) + Cardinality(T)
  BY <1>3, <1>8 DEF References
<1> QED BY <1>7, <1>10, <1>11, <1>19, <1>20

LEMMA Exact == IInv => RefsExact
<1> SUFFICES ASSUME IInv, NEW r \in Handles, tab[r].used # 0
             PROVE  IF IsAlias(tab, r) THEN tab[r].refs = 0 /\ Usable(tab, r)
                    ELSE tab[r].refs = References(r) /\ tab[r].refs > 0
  BY DEF RefsExact
<1>1. tab \in Tables /\ jft \in Jfts /\ Counted(tab, jft)
  BY CurHas
<1>2. CASE IsAlias(tab, r)
  BY <1>1, <1>2 DEF Counted, AliasRight
<1>3. CASE ~IsAlias(tab, r)
  BY <1>1, <1>3, RootHas, ReferencesIs
<1> QED BY <1>2, <1>3

LEMMA ViewIs == \A p, h : View(p, h) = Seen(tab, jft, p, h)
BY DEF View, Seen, FileOf

LEMMA NoneLost == IInv => NoLeaks
<1> SUFFICES ASSUME IInv PROVE NoLeaks
  OBVIOUS
<1>1. cur = Len(jft) /\ Sound(tab, jft) /\ unsaved \subseteq Files /\ unsaved \subseteq RootFiles(tab)
  BY DEF IInv, cur
<1>2. ASSUME NEW f \in unsaved PROVE \E p \in 1 .. cur, h \in Handles : View(p, h) = f
  <2>1. \E p \in 1 .. Len(jft), h \in Handles : Seen(tab, jft, p, h) = f
    BY <1>1, SeenFiles
  <2> QED BY <1>1, <2>1, ViewIs
<1>3. \A h \in Handles : tab[h].used = 1 => tab[h].owner \in 1 .. cur /\ h \in jft[tab[h].owner]
  BY <1>1 DEF Sound, Owned
<1> QED BY <1>2, <1>3 DEF NoLeaks

(* Slots, job file tables and unsaved files keep their types.              *)
THEOREM TypeCorrect == ASSUME WordHolds, NoFailures PROVE Spec => []TypeOK
<1>1. IInv => TypeOK
  BY DEF IInv, Sound, TypeOK, Tables, Jfts
<1> QED BY <1>1, Always, PTL

(* Every root counts its handle, its aliases and the copies of these in    *)
(* the job file tables of descendants: it is closed with the last of them, *)
(* and not before.                                                         *)
THEOREM RefsAlwaysExact == ASSUME WordHolds, NoFailures PROVE Spec => []RefsExact
BY Exact, Always, PTL

(* Every slot in use belongs to a running process that has it open, and    *)
(* every unsaved file is open in one.                                      *)
THEOREM NothingLeaks == ASSUME WordHolds, NoFailures PROVE Spec => []NoLeaks
BY NoneLost, Always, PTL

-----------------------------------------------------------------------------
(* The handle tables of the processes *)

Fds(t, J) == [p \in 1 .. Len(J) |-> [h \in Handles |-> Seen(t, J, p, h)]]

LEMMA FdsAre ==
  ASSUME NEW t, NEW J \in Jfts
  PROVE  LET F == Fds(t, J) IN
         /\ Len(F) = Len(J) /\ DOMAIN F = 1 .. Len(J) /\ Len(F) \in Nat
         /\ \A p \in 1 .. Len(J) : F[p] = [h \in Handles |-> Seen(t, J, p, h)]
         /\ \A p \in 1 .. Len(J), h \in Handles : F[p][h] = Seen(t, J, p, h)
         /\ F = [p \in 1 .. Len(J) |-> F[p]]
<1>1. Len(J) \in Nat
  BY JftHas
<1> QED BY <1>1 DEF Fds

LEMMA FdsMap == ProcessHandles = Fds(tab, jft) /\ ProcessHandles' = Fds(tab', jft')
BY DEF ProcessHandles, Fds, View, Seen, FileOf, cur

(* The files held in the tables are those of the roots.                    *)
LEMMA HeldIs ==
  ASSUME NEW t, NEW J, Sound(t, J), NEW U, U \subseteq Files
  PROVE  U \cap OF!Held(Fds(t, J)) = U \cap RootFiles(t)
<1>1. PICK F : F = Fds(t, J)
  OBVIOUS
<1>2. /\ DOMAIN F = 1 .. Len(J)
      /\ \A p \in 1 .. Len(J), h \in Handles : F[p][h] = Seen(t, J, p, h)
  BY <1>1, FdsAre DEF Sound
<1>3. OF!Held(F) = {F[p][h] : p \in DOMAIN F, h \in Handles} \ {NONE}
  BY DEF OF!Held
<1>4. ASSUME NEW f \in U PROVE f \in OF!Held(F) <=> f \in RootFiles(t)
  <2>1. f \in Files /\ f # NONE
    BY Constants
  <2>2. f \in RootFiles(t) <=> \E p \in 1 .. Len(J), h \in Handles : Seen(t, J, p, h) = f
    BY <2>1, SeenFiles
  <2>3. f \in OF!Held(F) <=> \E p \in 1 .. Len(J), h \in Handles : F[p][h] = f
    BY <1>2, <1>3, <2>1
  <2> QED BY <1>2, <2>2, <2>3
<1> QED BY <1>1, <1>4

LEMMA Installs ==
  ASSUME IInv, IInv', unsaved' = unsaved \cap RootFiles(tab'), NEW F, ProcessHandles' = F
  PROVE  OF!Install(F)
<1>1. F = Fds(tab', jft')
  BY FdsMap
<1>2. unsaved' = unsaved \cap OF!Held(F)
  BY <1>1, HeldIs DEF IInv
<1> QED BY <1>2 DEF OF!Install

LEMMA ShowsSets ==
  ASSUME IInv, jft # <<>>, NEW h \in Handles, NEW f, Shows(h, f)
  PROVE  OF!Set(h, f)
<1>1. /\ jft \in Jfts /\ jft' \in Jfts /\ cur = Len(jft) /\ cur \in Nat /\ cur \in 1 .. cur
      /\ Len(jft') = cur
  BY CurHas DEF Shows, IInv, Sound, cur
<1>2. PICK F : F = Fds(tab, jft)
  OBVIOUS
<1>3. PICK G : G = Fds(tab', jft')
  OBVIOUS
<1>4. /\ F = [p \in 1 .. cur |-> F[p]] /\ \A p \in 1 .. cur : F[p] = [g \in Handles |-> Seen(tab, jft, p, g)]
      /\ Len(F) = cur
  BY <1>1, <1>2, FdsAre
<1>5. /\ G = [p \in 1 .. cur |-> G[p]]
      /\ \A p \in 1 .. cur : G[p] = [g \in Handles |-> Seen(tab', jft', p, g)]
  BY <1>1, <1>3, FdsAre
<1>6. G = [F EXCEPT ![cur] = [@ EXCEPT ![h] = f]]
  <2>1. PICK E : E = [F EXCEPT ![cur] = [@ EXCEPT ![h] = f]]
    OBVIOUS
  <2>2. E = [p \in 1 .. cur |-> E[p]] /\ E[cur] = [F[cur] EXCEPT ![h] = f]
        /\ \A p \in 1 .. cur : p # cur => E[p] = F[p]
    BY <1>1, <1>4, <2>1
  <2>3. ASSUME NEW p \in 1 .. cur PROVE E[p] = G[p]
    <3>1. CASE p = cur
      <4>1. E[p] = [g \in Handles |-> IF g = h THEN f ELSE Seen(tab, jft, p, g)]
        BY <1>4, <2>2, <3>1
      <4>2. \A g \in Handles : Seen(tab', jft', p, g) = IF g = h THEN f ELSE Seen(tab, jft, p, g)
        BY <3>1 DEF Shows
      <4> QED BY <1>5, <4>1, <4>2
    <3>2. CASE p # cur
      <4>1. \A g \in Handles : Seen(tab', jft', p, g) = Seen(tab, jft, p, g)
        BY <3>2 DEF Shows
      <4> QED BY <1>4, <1>5, <2>2, <3>2, <4>1
    <3> QED BY <3>1, <3>2
  <2>4. E = G
    BY <1>5, <2>2, <2>3
  <2> QED BY <2>1, <2>4
<1>7. ProcessHandles = F /\ ProcessHandles' = G
  BY <1>2, <1>3, FdsMap
<1>8. OF!cur = cur
  BY <1>4, <1>7 DEF OF!cur
<1>9. OF!Install([F EXCEPT ![cur] = [@ EXCEPT ![h] = f]])
  <2>1. IInv' /\ unsaved' = unsaved \cap RootFiles(tab')
    BY DEF Shows
  <2> QED BY <1>6, <1>7, <2>1, Installs
<1> QED BY <1>7, <1>8, <1>9 DEF OF!Set

(* What the running process has open, as its table says.                   *)
LEMMA TableSays ==
  ASSUME IInv, jft # <<>>
  PROVE  /\ ProcessHandles # <<>> /\ OF!cur = cur /\ Len(ProcessHandles) = cur
         /\ \A h \in Handles : ProcessHandles[cur][h] = Seen(tab, jft, cur, h)
         /\ \A b \in jft[cur] : b \in Handles /\ Seen(tab, jft, cur, b) # NONE
<1>1. jft \in Jfts /\ cur = Len(jft) /\ cur \in 1 .. cur /\ Sound(tab, jft) /\ cur > 0 /\ cur \in Nat
  BY CurHas DEF IInv
<1>2. PICK F : F = Fds(tab, jft)
  OBVIOUS
<1>3. ProcessHandles = F
  BY <1>2, FdsMap
<1>4. Len(F) = cur /\ \A h \in Handles : F[cur][h] = Seen(tab, jft, cur, h)
  BY <1>1, <1>2, FdsAre
<1>5. OF!cur = cur
  BY <1>3, <1>4 DEF OF!cur
<1>6. F # <<>>
  <2>1. Len(<<>>) = 0
    OBVIOUS
  <2> QED BY <1>1, <1>4, <2>1
<1>7. \A b \in jft[cur] : b \in Handles /\ Seen(tab, jft, cur, b) # NONE
  BY <1>1, SeenIs
<1> QED BY <1>3, <1>4, <1>5, <1>6, <1>7

LEMMA ExecMaps ==
  ASSUME IInv, jft # <<>>, Exec
  PROVE  OF!Exec
<1>1. /\ IInv' /\ unsaved' = unsaved /\ Len(jft') = Len(jft) + 1
      /\ \A p \in 1 .. cur + 1, h \in Handles :
             Seen(tab', jft', p, h) = Seen(tab, jft, IF p = cur + 1 THEN cur ELSE p, h)
  BY Execs
<1>2. jft \in Jfts /\ jft' \in Jfts /\ cur = Len(jft) /\ cur \in Nat /\ cur \in 1 .. cur
  BY <1>1, CurHas DEF IInv, Sound
<1>3. PICK F : F = Fds(tab, jft)
  OBVIOUS
<1>4. PICK G : G = Fds(tab', jft')
  OBVIOUS
<1>5. /\ F = [p \in 1 .. cur |-> F[p]] /\ \A p \in 1 .. cur : F[p] = [g \in Handles |-> Seen(tab, jft, p, g)]
      /\ Len(F) = cur
  BY <1>2, <1>3, FdsAre
<1>6. /\ G = [p \in 1 .. cur + 1 |-> G[p]]
      /\ \A p \in 1 .. cur + 1 : G[p] = [g \in Handles |-> Seen(tab', jft', p, g)]
  BY <1>1, <1>2, <1>4, FdsAre
<1>7. ASSUME NEW p \in 1 .. cur + 1 PROVE G[p] = IF p = cur + 1 THEN F[cur] ELSE F[p]
  <2>1. CASE p = cur + 1
    <3>1. \A g \in Handles : Seen(tab', jft', p, g) = Seen(tab, jft, cur, g)
      BY <1>1, <2>1
    <3> QED BY <1>2, <1>5, <1>6, <2>1, <3>1
  <2>2. CASE p # cur + 1
    <3>1. p \in 1 .. cur /\ \A g \in Handles : Seen(tab', jft', p, g) = Seen(tab, jft, p, g)
      BY <1>1, <1>2, <2>2
    <3> QED BY <1>5, <1>6, <2>2, <3>1
  <2> QED BY <2>1, <2>2
<1>8. G = Append(F, F[cur])
  <2>1. Append(F, F[cur]) = [p \in 1 .. cur + 1 |-> IF p = cur + 1 THEN F[cur] ELSE F[p]]
    <3>1. F \in Seq({F[p] : p \in 1 .. cur})
      BY <1>2, <1>5
    <3> QED BY <1>2, <1>5, <3>1
  <2> QED BY <1>6, <1>7, <2>1
<1>9. ProcessHandles = F /\ ProcessHandles' = G
  BY <1>3, <1>4, FdsMap
<1>10. unsaved' = unsaved \cap RootFiles(tab')
  BY <1>1 DEF IInv
<1>11. OF!Install(Append(F, F[cur]))
  BY <1>1, <1>8, <1>9, <1>10, Installs
<1>12. OF!cur = cur
  BY TableSays
<1> QED BY <1>9, <1>11, <1>12 DEF OF!Exec

LEMMA ExitMaps ==
  ASSUME WordHolds, NoFailures, IInv, jft # <<>>, Exit
  PROVE  OF!Exit
<1>1. /\ IInv' /\ Len(jft') = Len(jft) - 1 /\ unsaved' = unsaved \cap RootFiles(tab')
      /\ \A p \in 1 .. cur - 1, h \in Handles : Seen(tab', jft', p, h) = Seen(tab, jft, p, h)
  BY Exits
<1>2. jft \in Jfts /\ jft' \in Jfts /\ cur = Len(jft) /\ cur \in Nat /\ cur \in 1 .. cur
  BY <1>1, CurHas DEF IInv, Sound
<1>3. PICK F : F = Fds(tab, jft)
  OBVIOUS
<1>4. PICK G : G = Fds(tab', jft')
  OBVIOUS
<1>5. /\ F = [p \in 1 .. cur |-> F[p]] /\ \A p \in 1 .. cur : F[p] = [g \in Handles |-> Seen(tab, jft, p, g)]
      /\ Len(F) = cur
  BY <1>2, <1>3, FdsAre
<1>6. /\ G = [p \in 1 .. cur - 1 |-> G[p]]
      /\ \A p \in 1 .. cur - 1 : G[p] = [g \in Handles |-> Seen(tab', jft', p, g)]
  BY <1>1, <1>2, <1>4, FdsAre
<1>7. ASSUME NEW p \in 1 .. cur - 1 PROVE G[p] = F[p]
  <2>1. p \in 1 .. cur /\ \A g \in Handles : Seen(tab', jft', p, g) = Seen(tab, jft, p, g)
    BY <1>1, <1>2
  <2> QED BY <1>5, <1>6, <2>1
<1>8. G = SubSeq(F, 1, cur - 1)
  <2>1. SubSeq(F, 1, cur - 1) = [p \in 1 .. cur - 1 |-> F[p]]
    <3>1. F \in Seq({F[p] : p \in 1 .. cur})
      BY <1>2, <1>5
    <3> QED BY <1>2, <1>5, <3>1
  <2> QED BY <1>6, <1>7, <2>1
<1>9. ProcessHandles = F /\ ProcessHandles' = G
  BY <1>3, <1>4, FdsMap
<1>10. OF!Install(SubSeq(F, 1, cur - 1))
  BY <1>1, <1>8, <1>9, Installs
<1>11. OF!cur = cur
  BY TableSays
<1> QED BY <1>9, <1>10, <1>11 DEF OF!Exit

LEMMA SameHandles ==
  ASSUME IInv, jft' = jft,
         \A p \in 1 .. cur, g \in Handles : Seen(tab', jft', p, g) = Seen(tab, jft, p, g)
  PROVE  ProcessHandles' = ProcessHandles
<1>1. Fds(tab', jft') = Fds(tab, jft)
  BY DEF Fds, cur
<1> QED BY <1>1, FdsMap

LEMMA StepsMap ==
  ASSUME WordHolds, NoFailures, IInv, [Next]_vars
  PROVE  [OF!Next]_(OF!vars)
<1>1. CASE /\ jft' = jft /\ unsaved' = unsaved /\ IInv'
           /\ \A p \in 1 .. cur, g \in Handles : Seen(tab', jft', p, g) = Seen(tab, jft, p, g)
  BY <1>1, SameHandles DEF OF!vars
<1>2. CASE jft # <<>>
  <2>0. /\ ProcessHandles # <<>> /\ OF!cur = cur
        /\ \A h \in Handles : ProcessHandles[cur][h] = Seen(tab, jft, cur, h)
        /\ \A b \in jft[cur] : b \in Handles /\ Seen(tab, jft, cur, b) # NONE
    BY <1>2, TableSays
  <2>1. ASSUME NEW h \in Handles, NEW f \in (Files \ RootFiles(tab)) \cup {CON},
               Shows(h, f), Seen(tab, jft, cur, h) = NONE
        PROVE  OF!Open
    <3>1. OF!Set(h, f)
      BY <1>2, <2>1, ShowsSets
    <3>2. f \in (Files \ OF!Held(ProcessHandles)) \cup {CON}
      <4>1. Files \cap OF!Held(Fds(tab, jft)) = Files \cap RootFiles(tab)
        BY HeldIs DEF IInv
      <4> QED BY <4>1, FdsMap
    <3>3. ProcessHandles[OF!cur][h] = NONE
      BY <2>0, <2>1
    <3> QED BY <3>1, <3>2, <3>3 DEF OF!Open
  <2>2. ASSUME NEW b \in Handles, NEW h \in Handles,
               b \in jft[cur], Shows(h, Seen(tab, jft, cur, b))
        PROVE  OF!ForceDup
    <3>1. OF!Set(h, Seen(tab, jft, cur, b))
      BY <1>2, <2>2, ShowsSets
    <3>2. ProcessHandles[OF!cur][b] = Seen(tab, jft, cur, b) /\ Seen(tab, jft, cur, b) # NONE
      BY <2>0, <2>2
    <3>3. OF!Set(h, ProcessHandles[OF!cur][b]) /\ ProcessHandles[OF!cur][b] # NONE
      BY <3>1, <3>2
    <3> QED BY <3>3 DEF OF!ForceDup
  <2>3. ASSUME NEW b \in Handles, b \in jft[cur], Shows(b, NONE) PROVE OF!Close
    <3>1. OF!Set(b, NONE)
      BY <1>2, <2>3, ShowsSets
    <3>2. ProcessHandles[OF!cur][b] # NONE
      BY <2>0, <2>3
    <3> QED BY <3>1, <3>2 DEF OF!Close
  <2>4. ASSUME NEW b \in Handles, Write(b) PROVE OF!Write
    <3>1. /\ tab' = tab /\ jft' = jft /\ Seen(tab, jft, cur, b) \in Files
          /\ unsaved' = unsaved \cup {Seen(tab, jft, cur, b)}
      BY <1>2, <2>4, Writes
    <3>2. ProcessHandles' = ProcessHandles
      BY <3>1, SameHandles
    <3>3. ProcessHandles[OF!cur][b] = Seen(tab, jft, cur, b)
      BY <2>0
    <3> QED BY <3>1, <3>2, <3>3 DEF OF!Write
  <2>5. ASSUME NEW b \in Handles, Commit(b) PROVE OF!Commit
    <3>1. tab' = tab /\ jft' = jft /\ unsaved' = unsaved \ {Seen(tab, jft, cur, b)}
      BY <1>2, <2>5, Commits
    <3>2. ProcessHandles' = ProcessHandles
      BY <3>1, SameHandles
    <3>3. ProcessHandles[OF!cur][b] = Seen(tab, jft, cur, b)
      BY <2>0
    <3> QED BY <3>1, <3>2, <3>3 DEF OF!Commit
  <2>6. ASSUME Exec PROVE OF!Exec
    BY <1>2, <2>6, ExecMaps
  <2>7. ASSUME Exit PROVE OF!Exit
    BY <1>2, <2>7, ExitMaps
  <2>8. \/ \E h \in Handles, f \in (Files \ RootFiles(tab)) \cup {CON} :
              Shows(h, f) /\ Seen(tab, jft, cur, h) = NONE
        \/ \E b \in Handles, h \in Handles :
              b \in jft[cur] /\ Shows(h, Seen(tab, jft, cur, b))
        \/ \E b \in Handles : b \in jft[cur] /\ Shows(b, NONE)
        \/ \E b \in Handles : Write(b)
        \/ \E b \in Handles : Commit(b)
        \/ Exec \/ Exit
        \/ /\ jft' = jft /\ unsaved' = unsaved /\ IInv'
           /\ \A p \in 1 .. cur, g \in Handles : Seen(tab', jft', p, g) = Seen(tab, jft, p, g)
    BY Steps
  <2>9. \/ OF!Open \/ OF!ForceDup \/ OF!Close \/ OF!Write \/ OF!Commit \/ OF!Exec \/ OF!Exit
        \/ /\ jft' = jft /\ unsaved' = unsaved /\ IInv'
           /\ \A p \in 1 .. cur, g \in Handles : Seen(tab', jft', p, g) = Seen(tab, jft, p, g)
    BY <2>1, <2>2, <2>3, <2>4, <2>5, <2>6, <2>7, <2>8, Zenon
  <2> QED BY <1>1, <2>0, <2>9 DEF OF!Next
<1> QED BY <1>1, <1>2, Steps

(* The slots implement a handle table for each process: an open gives a    *)
(* file nobody has to a handle that was free, a duplicate shares the file, *)
(* a close takes one handle of one process, a child starts with its        *)
(* parent's table, and a file is saved when its last handle goes.          *)
THEOREM Implements == ASSUME WordHolds, NoFailures PROVE Spec => ImplementsOpenFiles
<1>1. Init => OF!Init
  <2> SUFFICES ASSUME Init PROVE OF!Init
    OBVIOUS
  <2>1. /\ ProcessHandles = <<[h \in Handles |-> IF h \in 0 .. N_STD - 1 THEN CON ELSE NONE]>>
        /\ unsaved = {}
    BY Starts DEF Init
  <2>2. 0 .. N_STD - 1 \in SUBSET Handles
    BY HandleAssumption DEF Handles
  <2> QED BY <2>1, <2>2 DEF OF!Init
<1>2. IInv /\ [Next]_vars => [OF!Next]_(OF!vars)
  BY StepsMap
<1> QED BY <1>1, <1>2, Always, PTL DEF Spec, OF!Spec, ImplementsOpenFiles
=============================================================================
