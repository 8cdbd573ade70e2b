-------------------------- MODULE ElfLoaderProofs --------------------------
(***************************************************************************)
(* Theorems about ElfLoader, for every word width, base address and        *)
(* sequence of files.                                                      *)
(***************************************************************************)
EXTENDS ElfLoader, TLAPS, WellFoundedInduction

\* A word has values.
LEMMA WordNat == Word \in Nat \ {0}
  BY WordAssumption, SMT DEF Word

\* A number that fits a word is its own remainder.
LEMMA Fitting ==
  ASSUME NEW x \in 0 .. (Word - 1)
  PROVE  x % Word = x
  BY WordNat, SMT

\* Rounding goes down, by less than the alignment.
LEMMA RoundedDown ==
  ASSUME NEW x \in Nat, NEW a \in Nat \ {0}
  PROVE  Rounded(x, a) \in Nat /\ Rounded(x, a) <= x /\ x < Rounded(x, a) + a
  BY SMT DEF Rounded

\* The types, with the boot chosen, and where the two ends of the loaded
\* memory are while everything fits: the two regions never meet.
IInv ==
  /\ files \in Boots
  /\ TypeOK
  /\ fits => ptr_rw \in 0 .. Base /\ ptr_ro \in Base .. (Word - Virt - 1)
  /\ HunksEnclosed
  /\ HunksApart

-----------------------------------------------------------------------------

\* The sections of the file being loaded.
LEMMA SectionType ==
  ASSUME files \in Boots, k \in DOMAIN files
  PROVE  /\ Len(sh) \in Nat /\ DOMAIN sh = 1 .. Len(sh)
         /\ \A x \in DOMAIN sh :
              /\ sh[x].size \in Nat /\ sh[x].align \in Nat \ {0}
              /\ sh[x].write \in BOOLEAN /\ sh[x].exec \in BOOLEAN
  <1>1. files \in Seq(File)
    BY BootAssumption
  <1>2. files[k] \in File
    BY <1>1
  <1>3. sh \in Seq(Section)
    BY <1>2 DEF File, sh
  <1>4. \A s \in Section :
          /\ s.size \in Nat /\ s.align \in Nat \ {0}
          /\ s.write \in BOOLEAN /\ s.exec \in BOOLEAN
    BY DEF Section
  <1>5. Len(sh) \in Nat /\ DOMAIN sh = 1 .. Len(sh)
    BY <1>3
  <1>6. \A x \in DOMAIN sh : sh[x] \in Section
    BY <1>3
  <1>7. QED
    BY <1>4, <1>5, <1>6

\* A hunk is placed at an address, whether it fits or not.
LEMMA PlaceType ==
  ASSUME NEW s, s.size \in Nat, s.align \in Nat \ {0},
         ptr_rw \in Int, ptr_ro \in Int
  PROVE  RwPlace(s) \in 0 .. (Word - 1) /\ RoPlace(s) \in 0 .. (Word - 1)
  <1>1. \A x \in Int : Rounded(x % Word, s.align) \in 0 .. (Word - 1)
    <2> SUFFICES ASSUME NEW x \in Int
                 PROVE  Rounded(x % Word, s.align) \in 0 .. (Word - 1)
      OBVIOUS
    <2>1. x % Word \in 0 .. (Word - 1)
      BY WordNat, SMT
    <2>2. x % Word \in Nat
      BY <2>1, WordNat
    <2>3. /\ Rounded(x % Word, s.align) \in Nat
          /\ Rounded(x % Word, s.align) <= x % Word
      BY <2>2, RoundedDown
    <2>4. QED
      BY <2>1, <2>3, WordNat
  <1>2. /\ ptr_rw - s.size - s.align + 1 \in Int
        /\ ptr_ro + s.align - 1 \in Int
    OBVIOUS
  <1>3. QED
    BY <1>1, <1>2 DEF RwPlace, RoPlace

\* A writable hunk that fits ends where the last one began, or before.
LEMMA RwFits ==
  ASSUME NEW s, s.size \in Nat, s.align \in Nat \ {0}, s.write,
         ptr_rw \in 0 .. Base, Fits(s)
  PROVE  RwPlace(s) \in Nat /\ RwPlace(s) + s.size <= ptr_rw
  <1> DEFINE x == ptr_rw - s.size - s.align + 1
  <1>1. x \in 0 .. (Word - 1) /\ x + s.size <= ptr_rw
    BY WordNat, PlaceAssumption DEF Fits
  <1>2. RwPlace(s) = Rounded(x % Word, s.align)
    BY DEF RwPlace
  <1> HIDE DEF x
  <1>3. x % Word = x
    BY <1>1, Fitting
  <1>4. x \in Nat
    BY <1>1, WordNat
  <1>5. Rounded(x, s.align) \in Nat /\ Rounded(x, s.align) <= x
    BY <1>4, RoundedDown
  <1>6. QED
    BY <1>1, <1>2, <1>3, <1>4, <1>5

\* A read-only hunk that fits begins where the last one ended, or behind.
LEMMA RoFits ==
  ASSUME NEW s, s.size \in Nat, s.align \in Nat \ {0}, ~s.write,
         ptr_ro \in Base .. (Word - Virt - 1), Fits(s)
  PROVE  /\ RoPlace(s) \in Nat /\ ptr_ro <= RoPlace(s)
         /\ RoPlace(s) + s.size < Word - Virt
         /\ (RoPlace(s) + s.size) % Word = RoPlace(s) + s.size
  <1> DEFINE x == ptr_ro + s.align - 1
  <1>0. Word \in Nat /\ Virt \in Nat /\ Base \in Nat /\ Virt > 0
    BY WordNat, PlaceAssumption
  <1>1. x \in 0 .. (Word - 1) /\ x + s.size < Word - Virt
    BY <1>0 DEF Fits
  <1>2. RoPlace(s) = Rounded(x % Word, s.align)
    BY DEF RoPlace
  <1>3. ptr_ro = x - s.align + 1
    BY <1>0
  <1> HIDE DEF x
  <1>4. x % Word = x /\ x \in Nat
    BY <1>0, <1>1, Fitting
  <1>5. /\ Rounded(x, s.align) \in Nat /\ Rounded(x, s.align) <= x
        /\ x < Rounded(x, s.align) + s.align
    BY <1>4, RoundedDown
  <1>6. /\ RoPlace(s) \in Nat /\ ptr_ro <= RoPlace(s)
        /\ RoPlace(s) + s.size < Word - Virt
    <2>1. /\ RoPlace(s) \in Nat /\ RoPlace(s) <= x
          /\ x < RoPlace(s) + s.align
      BY <1>2, <1>4, <1>5
    <2>2. ptr_ro <= RoPlace(s)
      BY <1>3, <1>4, <2>1
    <2>3. RoPlace(s) + s.size < Word - Virt
      BY <1>0, <1>1, <1>4, <2>1
    <2>4. QED
      BY <2>1, <2>2, <2>3
  <1>7. RoPlace(s) + s.size \in 0 .. (Word - 1)
    BY <1>0, <1>6
  <1>8. QED
    BY <1>6, <1>7, Fitting

\* Init establishes the invariant.
LEMMA InitIInv == Init => IInv
  <1> SUFFICES ASSUME Init PROVE IInv
    OBVIOUS
  <1>1. files \in Boots /\ files \in Seq(File) /\ files # <<>>
    BY BootAssumption DEF Init
  <1>2. k \in DOMAIN files
    BY <1>1 DEF Init
  <1>3. Word \in Nat /\ Base \in 0 .. (Word - 1) /\ Base \in Base .. (Word - Virt - 1)
    BY WordNat, PlaceAssumption
  <1>4. hunks \in Seq(Hunk) /\ DOMAIN hunks = {}
    BY DEF Init
  <1>5. TypeOK
    BY <1>2, <1>3, <1>4 DEF Init, TypeOK
  <1>6. QED
    BY <1>1, <1>3, <1>4, <1>5 DEF Init, IInv, HunksEnclosed, HunksApart

\* A step that places nothing keeps everything but the types for granted.
LEMMA SamePlace ==
  ASSUME IInv, UNCHANGED <<files, place>>, TypeOK'
  PROVE  IInv'
  BY DEF IInv, place, HunksEnclosed, HunksApart, Apart

\* Loading a hunk keeps the types.
LEMMA HunkTypes ==
  ASSUME IInv, LoadHunk
  PROVE  /\ TypeOK' /\ files' = files
         /\ LET s  == sh[i]
                at == IF s.write THEN RwPlace(s) ELSE RoPlace(s)
            IN  /\ s.size \in Nat /\ s.align \in Nat \ {0}
                /\ s.write \in BOOLEAN
                /\ at \in 0 .. (Word - 1)
  <1>1. /\ files \in Boots /\ TypeOK /\ k \in DOMAIN files
        /\ ptr_rw \in 0 .. (Word - 1) /\ ptr_ro \in 0 .. (Word - 1)
        /\ hunks \in Seq(Hunk) /\ fits \in BOOLEAN
        /\ i \in DOMAIN sh /\ pc = "hunks"
        /\ UNCHANGED <<files, k, pc, j, debug_info>>
    BY DEF IInv, TypeOK, LoadHunk
  <1> DEFINE s  == sh[i]
             at == IF s.write THEN RwPlace(s) ELSE RoPlace(s)
             h  == [file |-> k, sec |-> i, addr |-> at, size |-> s.size,
                    align |-> s.align, write |-> s.write, exec |-> s.exec,
                    bss |-> s.type = "nobits"]
  <1>2. /\ s.size \in Nat \ {0} /\ s.align \in Nat \ {0}
        /\ s.write \in BOOLEAN /\ s.exec \in BOOLEAN
        /\ Len(sh) \in Nat /\ i \in 1 .. Len(sh)
    BY <1>1, SectionType DEF LoadHunk, Empty
  <1>3. /\ ptr_rw' = (IF s.write THEN at ELSE ptr_rw)
        /\ ptr_ro' = (IF s.write THEN ptr_ro ELSE (at + s.size) % Word)
        /\ addr' = [addr EXCEPT ![i] = at]
        /\ hunks' = Append(hunks, h)
        /\ fits' = (fits /\ Fits(s))
        /\ i' = i + 1
    BY DEF LoadHunk
  <1>4. at \in 0 .. (Word - 1)
    BY <1>1, <1>2, PlaceType, WordNat
  <1>5. h \in Hunk
    <2>1. k \in Nat /\ i \in Nat
      <3>1. files \in Seq(File)
        BY <1>1, BootAssumption
      <3>2. QED
        BY <1>1, <1>2, <3>1
    <2>2. at \in Int
      BY <1>4, WordNat
    <2>3. (s.type = "nobits") \in BOOLEAN
      OBVIOUS
    <2> HIDE DEF s, at
    <2>4. QED
      BY <1>2, <2>1, <2>2, <2>3 DEF Hunk
  <1> HIDE DEF s, at, h
  <1>6. hunks' \in Seq(Hunk)
    BY <1>1, <1>3, <1>5
  <1>7. (at + s.size) % Word \in 0 .. (Word - 1)
    BY <1>2, <1>4, WordNat, SMT
  <1>8. ptr_rw' \in 0 .. (Word - 1) /\ ptr_ro' \in 0 .. (Word - 1)
    BY <1>1, <1>2, <1>3, <1>4, <1>7
  <1>9. addr' \in [DOMAIN sh -> 0 .. (Word - 1)] /\ sh' = sh
    BY <1>1, <1>3, <1>4 DEF TypeOK, sh
  <1>10. i' \in Nat /\ i' <= Len(sh) + 1 /\ j \in Nat
    BY <1>1, <1>2, <1>3 DEF TypeOK
  <1>11. fits' \in BOOLEAN
    BY <1>3
  <1>12. TypeOK'
    BY <1>1, <1>6, <1>8, <1>9, <1>10, <1>11 DEF TypeOK
  <1>13. QED
    BY <1>1, <1>2, <1>4, <1>12 DEF s, at

\* Loading a hunk that fits keeps the two regions apart and their hunks in
\* them: the new one lies between its region's end and the free memory.
LEMMA HunkInv ==
  ASSUME IInv, LoadHunk
  PROVE  IInv'
  <1> DEFINE s  == sh[i]
             at == IF s.write THEN RwPlace(s) ELSE RoPlace(s)
             m  == Len(hunks)
  <1>1. /\ TypeOK' /\ files' = files
        /\ s.size \in Nat /\ s.align \in Nat \ {0} /\ s.write \in BOOLEAN
    BY HunkTypes
  <1>2. /\ ptr_rw' = (IF s.write THEN at ELSE ptr_rw)
        /\ ptr_ro' = (IF s.write THEN ptr_ro ELSE (at + s.size) % Word)
        /\ fits' = (fits /\ Fits(s))
    BY DEF LoadHunk
  <1>3. /\ m \in Nat /\ DOMAIN hunks = 1 .. m /\ DOMAIN hunks' = 1 .. m + 1
        /\ \A x \in 1 .. m : hunks'[x] = hunks[x] /\ hunks[x] \in Hunk
        /\ hunks'[m + 1].addr = at /\ hunks'[m + 1].size = s.size
        /\ hunks'[m + 1].write = s.write
    <2>1. hunks \in Seq(Hunk)
      BY DEF IInv, TypeOK
    <2>2. \E h : /\ hunks' = Append(hunks, h)
                 /\ h.addr = at /\ h.size = s.size /\ h.write = s.write
      BY DEF LoadHunk
    <2> HIDE DEF s, at
    <2>3. QED
      BY <2>1, <2>2
  <1>4. Word \in Nat /\ Virt \in Nat /\ Base \in Nat /\ Base < Word - Virt
    BY WordNat, PlaceAssumption
  <1> SUFFICES ASSUME fits'
               PROVE  /\ ptr_rw' \in 0 .. Base
                      /\ ptr_ro' \in Base .. (Word - Virt - 1)
                      /\ HunksEnclosed' /\ HunksApart'
    <2>1. files \in Boots
      BY DEF IInv
    <2>2. fits' \in BOOLEAN
      BY <1>1 DEF TypeOK
    <2>3. QED
      BY <1>1, <2>1, <2>2 DEF IInv, HunksEnclosed, HunksApart
  <1>5. /\ fits /\ Fits(s)
        /\ ptr_rw \in 0 .. Base /\ ptr_ro \in Base .. (Word - Virt - 1)
    BY <1>2 DEF IInv
  <1>6. \A x \in 1 .. m :
          /\ hunks[x].addr \in Int /\ hunks[x].size \in Nat
          /\ hunks[x].write \in BOOLEAN
          /\ hunks[x].write =>
               ptr_rw <= hunks[x].addr /\ hunks[x].addr + hunks[x].size <= Base
          /\ ~hunks[x].write =>
               Base <= hunks[x].addr /\ hunks[x].addr + hunks[x].size <= ptr_ro
    <2>1. \A h \in Hunk : h.addr \in Int /\ h.size \in Nat /\ h.write \in BOOLEAN
      BY DEF Hunk
    <2> HIDE DEF m
    <2>2. QED
      BY <1>3, <1>5, <2>1 DEF IInv, HunksEnclosed
  <1>7. \A x, y \in 1 .. m : x # y => Apart(hunks[x], hunks[y])
    BY <1>3, <1>5 DEF IInv, HunksApart
  <1>8. CASE s.write
    <2>1. at \in Nat /\ at + s.size <= ptr_rw /\ ptr_rw' = at /\ ptr_ro' = ptr_ro
      BY <1>1, <1>2, <1>5, <1>8, RwFits
    <2> HIDE DEF s, at, m
    <2>2. ptr_rw' \in 0 .. Base /\ ptr_ro' \in Base .. (Word - Virt - 1)
      BY <1>1, <1>4, <1>5, <2>1
    <2>3. HunksEnclosed'
      <3> DEFINE Enclosed(h) ==
            IF h.write THEN ptr_rw' <= h.addr /\ h.addr + h.size <= Base
            ELSE Base <= h.addr /\ h.addr + h.size <= ptr_ro'
      <3>1. \A x \in 1 .. m : Enclosed(hunks[x])
        BY <1>4, <1>5, <1>6, <1>1, <2>1
      <3>2. Enclosed(hunks'[m + 1])
        BY <1>1, <1>3, <1>4, <1>5, <1>8, <2>1
      <3>3. \A x \in DOMAIN hunks' : Enclosed(hunks'[x])
        <4> HIDE DEF Enclosed
        <4>1. QED
          BY <1>3, <3>1, <3>2
      <3>4. QED
        BY <3>3 DEF HunksEnclosed
    <2>4. \A x \in 1 .. m : at + s.size <= hunks[x].addr
      BY <1>1, <1>4, <1>5, <1>6, <2>1
    <2>5. HunksApart'
      BY <1>3, <1>7, <2>4 DEF HunksApart, Apart
    <2>6. QED
      BY <2>2, <2>3, <2>5
  <1>9. CASE ~s.write
    <2>1. /\ at \in Nat /\ ptr_ro <= at /\ at + s.size < Word - Virt
          /\ ptr_ro' = at + s.size /\ ptr_rw' = ptr_rw
      BY <1>1, <1>2, <1>5, <1>9, RoFits
    <2> HIDE DEF s, at, m
    <2>2. ptr_rw' \in 0 .. Base /\ ptr_ro' \in Base .. (Word - Virt - 1)
      BY <1>1, <1>4, <1>5, <2>1
    <2>3. HunksEnclosed'
      <3> DEFINE Enclosed(h) ==
            IF h.write THEN ptr_rw' <= h.addr /\ h.addr + h.size <= Base
            ELSE Base <= h.addr /\ h.addr + h.size <= ptr_ro'
      <3>1. \A x \in 1 .. m : Enclosed(hunks[x])
        BY <1>4, <1>5, <1>6, <1>1, <2>1
      <3>2. Enclosed(hunks'[m + 1])
        BY <1>1, <1>3, <1>4, <1>5, <1>9, <2>1
      <3>3. \A x \in DOMAIN hunks' : Enclosed(hunks'[x])
        <4> HIDE DEF Enclosed
        <4>1. QED
          BY <1>3, <3>1, <3>2
      <3>4. QED
        BY <3>3 DEF HunksEnclosed
    <2>4. \A x \in 1 .. m : hunks[x].addr + hunks[x].size <= at
      BY <1>1, <1>4, <1>5, <1>6, <2>1
    <2>5. HunksApart'
      BY <1>3, <1>7, <2>4 DEF HunksApart, Apart
    <2>6. QED
      BY <2>2, <2>3, <2>5
  <1>10. QED
    BY <1>1, <1>8, <1>9

\* Reaching relocations gives no other section an address.
LEMMA ReachedIs ==
  ASSUME TypeOK, pc # "header", NEW x
  PROVE  /\ Reached(x) \in [DOMAIN sh -> 0 .. (Word - 1)]
         /\ \A y \in DOMAIN sh : sh[y].type # "rela" => Reached(x)[y] = addr[y]
  <1>1. addr \in [DOMAIN sh -> 0 .. (Word - 1)]
    BY DEF TypeOK
  <1>2. Buffer \in 0 .. (Word - 1)
    BY PlaceAssumption, WordNat
  <1>3. CASE x \in DOMAIN sh /\ InMemory(sh[x])
    <2>1. Reached(x) = [addr EXCEPT ![x] = Buffer] /\ sh[x].type = "rela"
      BY <1>3 DEF Reached, InMemory
    <2>2. QED
      BY <1>1, <1>2, <2>1
  <1>4. CASE ~(x \in DOMAIN sh /\ InMemory(sh[x]))
    BY <1>1, <1>4 DEF Reached
  <1>5. QED
    BY <1>3, <1>4

\* Every other step keeps the types.
LEMMA OtherTypes ==
  ASSUME IInv,
         \/ CheckHeader \/ PassSection \/ HunksLoaded
         \/ Relocate \/ RelocateFails \/ Relocated
         \/ Register \/ NextModule \/ ModuleMissing \/ Jump
  PROVE  TypeOK' /\ UNCHANGED <<files, place>>
  <1>1. /\ files \in Boots /\ files \in Seq(File) /\ TypeOK /\ k \in DOMAIN files
        /\ Word \in Nat /\ Buffer \in 0 .. (Word - 1)
    BY BootAssumption, WordNat, PlaceAssumption DEF IInv, TypeOK
  <1>2. Len(sh) \in Nat /\ DOMAIN sh = 1 .. Len(sh)
    BY <1>1, SectionType
  <1>3. CASE CheckHeader
    <2>1. addr' \in [DOMAIN sh -> 0 .. (Word - 1)] /\ sh' = sh
      BY <1>1, <1>3, WordNat DEF CheckHeader, sh
    <2>2. QED
      BY <1>1, <1>2, <1>3, <2>1 DEF CheckHeader, TypeOK, place
  <1>4. CASE PassSection
    <2>1. addr' \in [DOMAIN sh -> 0 .. (Word - 1)] /\ sh' = sh
      BY <1>1, <1>4 DEF PassSection, TypeOK, sh
    <2>2. i' \in Nat /\ i' <= Len(sh) + 1
      BY <1>2, <1>4 DEF PassSection
    <2>3. QED
      BY <1>1, <1>4, <2>1, <2>2 DEF PassSection, TypeOK, place
  <1>5. CASE HunksLoaded \/ Relocate \/ RelocateFails \/ Relocated
    <2>1. sh' = sh /\ UNCHANGED <<files, k, place>>
      BY <1>5 DEF HunksLoaded, Relocate, RelocateFails, Relocated, sh
    <2>2. pc # "header" /\ pc' \in {"relocs", "failed"}
      BY <1>5 DEF HunksLoaded, Relocate, RelocateFails, Relocated, Relocating
    <2>3. addr' \in [DOMAIN sh -> 0 .. (Word - 1)]
      <3>1. addr \in [DOMAIN sh -> 0 .. (Word - 1)]
        BY <1>1, <2>2 DEF TypeOK
      <3>2. addr' \in {addr, Reached(1), Reached(i + 1)}
        BY <1>5 DEF HunksLoaded, Relocate, RelocateFails, Relocated
      <3>3. QED
        BY <1>1, <2>2, <3>1, <3>2, ReachedIs
    <2> DEFINE Bounded(p, x, y) ==
                 x \in Nat /\ y \in Nat /\ (p = "relocs" => x <= Len(sh) + 1)
    <2>a. Bounded(pc, i, j)
      BY <1>1 DEF TypeOK
    <2>b. ASSUME HunksLoaded PROVE Bounded(pc', i', j')
      BY <1>2, <2>b DEF HunksLoaded
    <2>c. ASSUME Relocate PROVE Bounded(pc', i', j')
      <3>1. pc' = pc /\ i' = i /\ j' = j + 1
        BY <2>c DEF Relocate
      <3>2. QED
        BY <2>a, <3>1
    <2>d. ASSUME RelocateFails PROVE Bounded(pc', i', j')
      BY <2>a, <2>d DEF RelocateFails
    <2>e. ASSUME Relocated PROVE Bounded(pc', i', j')
      <3>1. i \in 1 .. Len(sh) /\ i' = i + 1 /\ j' = 1
        BY <1>2, <2>e DEF Relocated
      <3>2. QED
        BY <1>2, <3>1
    <2>4. Bounded(pc', i', j')
      BY <1>5, <2>b, <2>c, <2>d, <2>e
    <2>5. QED
      BY <1>1, <2>1, <2>2, <2>3, <2>4 DEF TypeOK, place
  <1>6. CASE Register \/ ModuleMissing \/ Jump
    <2>1. sh' = sh /\ UNCHANGED <<files, k, i, j, addr, place>>
      BY <1>6 DEF Register, ModuleMissing, Jump, sh
    <2>2. pc # "header" /\ pc' \in {"next", "failed", "jumped"}
      BY <1>6 DEF Register, ModuleMissing, Jump
    <2>3. QED
      BY <1>1, <2>1, <2>2 DEF TypeOK, place
  <1>7. CASE NextModule
    <2>1. k' \in DOMAIN files
      BY <1>1, <1>7 DEF NextModule
    <2>2. QED
      BY <1>1, <1>7, <2>1 DEF NextModule, TypeOK, place
  <1>8. QED
    BY <1>3, <1>4, <1>5, <1>6, <1>7

\* The invariant is inductive.
LEMMA NextIInv == IInv /\ [Next]_vars => IInv'
  <1> SUFFICES ASSUME IInv, [Next]_vars PROVE IInv'
    OBVIOUS
  <1>1. CASE LoadHunk
    BY <1>1, HunkInv
  <1>2. CASE \/ CheckHeader \/ PassSection \/ HunksLoaded
             \/ Relocate \/ RelocateFails \/ Relocated
             \/ Register \/ NextModule \/ ModuleMissing \/ Jump
    BY <1>2, OtherTypes, SamePlace
  <1>3. CASE UNCHANGED vars
    <2>1. TypeOK'
      BY <1>3 DEF IInv, TypeOK, vars, place, sh
    <2>2. QED
      BY <1>3, <2>1, SamePlace DEF vars
  <1>4. QED
    BY <1>1, <1>2, <1>3 DEF Next

\* Every reachable state satisfies it.
LEMMA Inductive == Spec => []IInv
  BY InitIInv, NextIInv, PTL DEF Spec

-----------------------------------------------------------------------------

\* Type correctness of the loader: every address is a word, and the loops
\* over sections stay in the table, for every sequence of files.
THEOREM TypeCorrect == Spec => []TypeOK
  <1>1. IInv => TypeOK
    BY DEF IInv
  <1>2. QED
    BY <1>1, Inductive, PTL

\* As long as all hunks fit, loading one overwrites no other, in whatever
\* order and with whatever sizes and alignments files bring them.
THEOREM NoHunkOverwritten == Spec => []HunksApart
  <1>1. IInv => HunksApart
    BY DEF IInv
  <1>2. QED
    BY <1>1, Inductive, PTL

\* The kernel is told of a range that encloses all of them, writable ones
\* below Base and read-only ones from Base on.
THEOREM RangeEnclosesHunks == Spec => []HunksEnclosed
  <1>1. IInv => HunksEnclosed
    BY DEF IInv
  <1>2. QED
    BY <1>1, Inductive, PTL
-----------------------------------------------------------------------------
(* The bookkeeping: hunks and sections, the kernel's lists.                *)

\* Every hunk is a section of a file loaded so far.
HunksAreSections ==
  \A n \in DOMAIN hunks :
    LET h == hunks[n]  s == files[h.file].sh[h.sec]
    IN  /\ h.file \in 1 .. k /\ (pc = "header" => h.file < k)
        /\ h.sec \in DOMAIN files[h.file].sh /\ s.type # "table" /\ s.alloc
        /\ h.write = s.write /\ h.exec = s.exec /\ h.size = s.size

\* No section is loaded twice.
OnePerSection ==
  \A n, m \in DOMAIN hunks :
    hunks[n].file = hunks[m].file /\ hunks[n].sec = hunks[m].sec => n = m

\* The section headers of the file at hand say where its hunks are.
Addresses ==
  pc # "header" =>
    /\ \A n \in DOMAIN hunks : hunks[n].file = k =>
         /\ sh[hunks[n].sec].type # "rela" => addr[hunks[n].sec] = hunks[n].addr
         /\ pc = "hunks" => hunks[n].sec < i
    /\ \A x \in DOMAIN sh : sh[x].type \notin {"table", "rela"} /\ addr[x] # 0 =>
         \E n \in DOMAIN hunks : hunks[n].file = k /\ hunks[n].sec = x
    /\ pc = "hunks" => \A x \in DOMAIN sh : x >= i => addr[x] = 0

\* Files come one after the other, and so do their read-only hunks.
InOrder ==
  \A n, m \in DOMAIN hunks : n < m =>
    /\ hunks[n].file <= hunks[m].file
    /\ fits /\ ~hunks[n].write /\ ~hunks[m].write =>
         hunks[n].addr + hunks[n].size <= hunks[m].addr

\* The tracker, however long: its x-th place is that of hunk of[x].
Tracks(of) ==
  /\ \A x, y \in DOMAIN tracker : x < y => of[x] < of[y]
  /\ {of[x] : x \in DOMAIN tracker} = {n \in DOMAIN hunks : hunks[n].bss}
  /\ \A x \in DOMAIN tracker :
       tracker[x] = [addr |-> hunks[of[x]].addr + Virt, length |-> hunks[of[x]].size]

Tracking ==
  /\ tracker \in Seq([addr : Int, length : Nat])
  /\ fits => \E of \in [DOMAIN tracker -> DOMAIN hunks] : Tracks(of)

CodeOf(f) == {n \in DOMAIN hunks : hunks[n].file = f /\ hunks[n].exec}

\* What the debugger is told of a file: a range around its code, no wider
\* than the code.
Registered ==
  /\ debug_info \in Seq([file : Nat, lowest : Int, highest : Int])
  /\ \A m \in DOMAIN debug_info :
       LET d == debug_info[m]
       IN  /\ d.file \in 1 .. k
           /\ d.file = k => pc \in {"next", "failed", "jumped"}
           /\ fits /\ PlainCode =>
                /\ \A n \in CodeOf(d.file) :
                     /\ d.lowest <= hunks[n].addr + Virt
                     /\ hunks[n].addr + hunks[n].size + Virt <= d.highest
                /\ \/ d.highest = 0
                   \/ \E a, b \in CodeOf(d.file) :
                        /\ d.lowest = hunks[a].addr + Virt
                        /\ d.highest = hunks[b].addr + hunks[b].size + Virt

\* Address 0 is never a hunk's.
AboveZero == fits => ptr_rw > 0

Books ==
  /\ HunksAreSections /\ OnePerSection /\ Addresses /\ InOrder
  /\ Tracking /\ Registered /\ AboveZero

\* What loading one hunk adds.
Loads(h) ==
  /\ i \in DOMAIN sh /\ sh[i].type # "table" /\ sh[i].alloc
  /\ h.file = k /\ h.sec = i /\ h.size = sh[i].size
  /\ h.write = sh[i].write /\ h.exec = sh[i].exec
  /\ h.addr \in 0 .. (Word - 1)
  /\ Len(hunks) \in Nat /\ DOMAIN hunks = 1 .. Len(hunks)
  /\ DOMAIN hunks' = 1 .. (Len(hunks) + 1)
  /\ hunks'[Len(hunks) + 1] = h
  /\ \A n \in 1 .. Len(hunks) : hunks'[n] = hunks[n] /\ hunks[n] \in Hunk
  /\ addr' = [addr EXCEPT ![i] = h.addr]
  /\ tracker' = IF h.bss
                THEN Append(tracker, [addr |-> Virtual(h.addr), length |-> h.size])
                ELSE tracker
  /\ mem' = [x \in DOMAIN mem \ (h.addr .. (h.addr + h.size - 1)) |-> mem[x]]
  /\ fits' => /\ fits /\ h.addr + h.size < Word - Virt
              /\ h.addr > 0 /\ ptr_rw' \in {ptr_rw, h.addr}
              /\ ~h.write => ptr_ro <= h.addr

LEMMA OneMore ==
  ASSUME IInv, LoadHunk
  PROVE  \E h \in Hunk : Loads(h)
  <1> DEFINE s  == sh[i]
             at == IF s.write THEN RwPlace(s) ELSE RoPlace(s)
             h  == [file |-> k, sec |-> i, addr |-> at, size |-> s.size,
                    align |-> s.align, write |-> s.write, exec |-> s.exec,
                    bss |-> s.type = "nobits"]
             m  == Len(hunks)
  <1>1. /\ TypeOK' /\ s.size \in Nat /\ s.align \in Nat \ {0} /\ s.write \in BOOLEAN
        /\ at \in 0 .. (Word - 1)
    BY HunkTypes
  <1>2. /\ i \in DOMAIN sh /\ s.type # "table" /\ s.alloc
        /\ hunks' = Append(hunks, h)
        /\ addr' = [addr EXCEPT ![i] = at]
        /\ ptr_rw' = IF s.write THEN at ELSE ptr_rw
        /\ fits' = (fits /\ Fits(s))
        /\ mem' = [x \in DOMAIN mem \ (at .. (at + s.size - 1)) |-> mem[x]]
    BY DEF LoadHunk
  <1>3. tracker' = IF s.type = "nobits"
                   THEN Append(tracker, [addr |-> Virtual(at), length |-> s.size])
                   ELSE tracker
    BY DEF LoadHunk, Tracked
  <1>4. hunks \in Seq(Hunk) /\ hunks' \in Seq(Hunk)
    BY <1>1 DEF IInv, TypeOK
  <1>5. /\ fits' => /\ fits /\ at + s.size < Word - Virt /\ at > 0
                    /\ ptr_rw' \in {ptr_rw, at}
                    /\ ~s.write => ptr_ro <= at
    <2> SUFFICES ASSUME fits'
                 PROVE  /\ at + s.size < Word - Virt /\ at > 0
                        /\ ~s.write => ptr_ro <= at
      BY <1>2
    <2>1. /\ fits /\ Fits(s) /\ ptr_rw \in 0 .. Base /\ ptr_ro \in Base .. (Word - Virt - 1)
      BY <1>2 DEF IInv
    <2>2. Word \in Nat /\ Virt \in Nat /\ Base \in Nat /\ Base > 0 /\ Base < Word - Virt
      BY WordNat, PlaceAssumption
    <2>3. CASE s.write
      <3>1. at = RwPlace(s)
        BY <2>3
      <3>2. at \in Nat /\ at + s.size <= ptr_rw
        BY <1>1, <2>1, <2>3, <3>1, RwFits
      <3>3. at > 0
        BY <2>1, <2>3, <3>1 DEF Fits
      <3> HIDE DEF at, s
      <3>4. QED
        BY <1>1, <2>1, <2>2, <2>3, <3>2, <3>3
    <2>4. CASE ~s.write
      <3>1. at = RoPlace(s)
        BY <2>4
      <3>2. at \in Nat /\ ptr_ro <= at /\ at + s.size < Word - Virt
        BY <1>1, <2>1, <2>4, <3>1, RoFits
      <3> HIDE DEF at, s
      <3>3. QED
        BY <2>1, <2>2, <3>2
    <2>5. QED
      BY <2>3, <2>4
  <1>6. /\ m \in Nat /\ DOMAIN hunks = 1 .. m /\ DOMAIN hunks' = 1 .. (m + 1)
        /\ hunks'[m + 1] = h
        /\ \A n \in 1 .. m : hunks'[n] = hunks[n] /\ hunks[n] \in Hunk
    <2> HIDE DEF h
    <2>1. QED
      BY <1>2, <1>4
  <1>7. h \in Hunk
    <2>1. hunks'[m + 1] \in Hunk
      <3> HIDE DEF h, m
      <3>1. QED
        BY <1>4, <1>6
    <2>2. QED
      BY <1>6, <2>1
  <1>8. /\ h.file = k /\ h.sec = i /\ h.size = s.size /\ h.addr = at
        /\ h.write = s.write /\ h.exec = s.exec /\ (h.bss <=> s.type = "nobits")
    OBVIOUS
  <1> HIDE DEF h, at, m
  <1>9. Loads(h)
    BY <1>1, <1>2, <1>3, <1>5, <1>6, <1>7, <1>8 DEF m, Loads
  <1>10. QED
    BY <1>7, <1>9

\* A hunk that fits, with the numbers it is made of.
LEMMA HunkNumbers ==
  ASSUME IInv, NEW n \in DOMAIN hunks
  PROVE  /\ hunks[n].addr \in Int /\ hunks[n].size \in Nat /\ hunks[n].size > 0
         /\ hunks[n].file \in Nat /\ hunks[n].write \in BOOLEAN
         /\ hunks[n].exec \in BOOLEAN /\ hunks[n].bss \in BOOLEAN
         /\ n \in Nat
         /\ Len(hunks) \in Nat /\ DOMAIN hunks = 1 .. Len(hunks)
         /\ fits => hunks[n].addr + hunks[n].size < Word - Virt
         /\ fits /\ AboveZero => hunks[n].addr > 0
  <1>1. hunks \in Seq(Hunk)
    BY DEF IInv, TypeOK
  <1>2. hunks[n] \in Hunk /\ n \in Nat
    BY <1>1
  <1>3. /\ hunks[n].addr \in Int /\ hunks[n].size \in Nat /\ hunks[n].size > 0
        /\ hunks[n].file \in Nat
        /\ hunks[n].write \in BOOLEAN /\ hunks[n].exec \in BOOLEAN
        /\ hunks[n].bss \in BOOLEAN
    BY <1>2 DEF Hunk
  <1>4. Word \in Nat /\ Virt \in Nat /\ Base \in Nat /\ Base > 0 /\ Base < Word - Virt
    BY WordNat, PlaceAssumption
  <1>5. ASSUME fits
        PROVE  /\ hunks[n].addr + hunks[n].size < Word - Virt
               /\ AboveZero => hunks[n].addr > 0
    <2>1. /\ ptr_rw \in 0 .. Base /\ ptr_ro \in Base .. (Word - Virt - 1)
          /\ IF hunks[n].write
             THEN ptr_rw <= hunks[n].addr /\ hunks[n].addr + hunks[n].size <= Base
             ELSE Base <= hunks[n].addr /\ hunks[n].addr + hunks[n].size <= ptr_ro
      BY <1>5 DEF IInv, HunksEnclosed
    <2>2. AboveZero => ptr_rw > 0
      BY <1>5 DEF AboveZero
    <2>3. QED
      BY <1>3, <1>4, <2>1, <2>2
  <1>6. QED
    BY <1>1, <1>2, <1>3, <1>5

\* The steps that place nothing.
Elsewhere ==
  \/ CheckHeader \/ PassSection \/ HunksLoaded
  \/ Relocate \/ RelocateFails \/ Relocated
  \/ Register \/ NextModule \/ ModuleMissing \/ Jump \/ UNCHANGED vars

LEMMA ElsewhereSame ==
  ASSUME Elsewhere
  PROVE  /\ UNCHANGED <<files, ptr_ro, ptr_rw, tracker, hunks, fits>>
         /\ \/ k' = k /\ (pc' = "header" => pc = "header")
            \/ NextModule
  BY DEF Elsewhere, CheckHeader, PassSection, HunksLoaded, Relocate,
     RelocateFails, Relocated, Register, NextModule, ModuleMissing, Jump, vars, place

LEMMA NextCases == [Next]_vars => LoadHunk \/ Elsewhere
  BY DEF Next, Elsewhere

LEMMA SectionsStep ==
  ASSUME Books, IInv, [Next]_vars
  PROVE  HunksAreSections' /\ OnePerSection'
  <1>1. HunksAreSections /\ OnePerSection /\ Addresses /\ k \in Nat /\ k \in DOMAIN files
    <2>1. files \in Seq(File) /\ k \in DOMAIN files
      BY BootAssumption DEF IInv, TypeOK
    <2>2. QED
      BY <2>1 DEF Books
  <1>2. CASE LoadHunk
    <2>1. PICK h \in Hunk :
            /\ i \in DOMAIN sh /\ sh[i].type # "table" /\ sh[i].alloc
            /\ h.file = k /\ h.sec = i /\ h.size = sh[i].size
            /\ h.write = sh[i].write /\ h.exec = sh[i].exec
            /\ Len(hunks) \in Nat /\ DOMAIN hunks = 1 .. Len(hunks)
            /\ DOMAIN hunks' = 1 .. (Len(hunks) + 1)
            /\ hunks'[Len(hunks) + 1] = h
            /\ \A n \in 1 .. Len(hunks) : hunks'[n] = hunks[n]
      <3>1. PICK h \in Hunk : Loads(h)
        BY <1>2, OneMore
      <3>2. QED
        BY ONLY <3>1 DEF Loads
    <2>2. pc = "hunks" /\ pc' = "hunks" /\ files' = files /\ k' = k
      BY <1>2 DEF LoadHunk
    <2> DEFINE Of(g) == LET s == files[g.file].sh[g.sec]
                        IN  /\ g.file \in 1 .. k
                            /\ g.sec \in DOMAIN files[g.file].sh
                            /\ s.type # "table" /\ s.alloc
                            /\ g.write = s.write /\ g.exec = s.exec /\ g.size = s.size
    <2>3. Of(h)
      BY <1>1, <2>1 DEF sh
    <2>4. \A n \in DOMAIN hunks : Of(hunks[n])
      BY <1>1 DEF HunksAreSections
    <2>5. \A n \in DOMAIN hunks' : Of(hunks'[n])
      <3> HIDE DEF Of
      <3>1. QED
        BY <2>1, <2>3, <2>4
    <2>6. HunksAreSections'
      BY <2>2, <2>5 DEF HunksAreSections
    <2>7. \A n \in DOMAIN hunks : hunks[n].file = k => hunks[n].sec < i
      BY <1>1, <2>2 DEF Addresses
    <2>8. \A n \in DOMAIN hunks : ~(hunks[n].file = h.file /\ hunks[n].sec = h.sec)
      <3>1. i \in Nat
        BY DEF IInv, TypeOK
      <3>2. QED
        BY <2>1, <2>7, <3>1
    <2>9. OnePerSection'
      BY <1>1, <2>1, <2>8 DEF OnePerSection
    <2>10. QED
      BY <2>6, <2>9
  <1>3. CASE Elsewhere
    <2>1. UNCHANGED <<files, hunks>>
      BY <1>3, ElsewhereSame
    <2>2. OnePerSection'
      BY <1>1, <2>1 DEF OnePerSection
    <2>3. /\ k' \in {k, k + 1} /\ (pc' = "header" => k' = k + 1 \/ (pc = "header" /\ k' = k))
      BY <1>3, ElsewhereSame DEF NextModule
    <2> DEFINE Of(h) == LET s == files[h.file].sh[h.sec]
                        IN  /\ h.sec \in DOMAIN files[h.file].sh /\ s.type # "table"
                            /\ s.alloc /\ h.write = s.write /\ h.exec = s.exec
                            /\ h.size = s.size
    <2>4. \A n \in DOMAIN hunks :
            /\ hunks[n].file \in 1 .. k' /\ (pc' = "header" => hunks[n].file < k')
            /\ Of(hunks[n])
      <3> SUFFICES ASSUME NEW n \in DOMAIN hunks
                   PROVE  /\ hunks[n].file \in 1 .. k'
                          /\ (pc' = "header" => hunks[n].file < k')
                          /\ Of(hunks[n])
        OBVIOUS
      <3>1. /\ hunks[n].file \in 1 .. k /\ (pc = "header" => hunks[n].file < k)
            /\ Of(hunks[n])
        BY <1>1 DEF HunksAreSections
      <3> HIDE DEF Of
      <3>2. QED
        BY <1>1, <2>3, <3>1
    <2>5. HunksAreSections'
      <3>1. hunks' = hunks /\ files' = files
        BY <2>1
      <3>2. QED
        BY ONLY <2>4, <3>1 DEF HunksAreSections
    <2>6. QED
      BY <2>2, <2>5
  <1>4. QED
    BY <1>2, <1>3, NextCases

LEMMA AddressesStep ==
  ASSUME Books, IInv, [Next]_vars
  PROVE  Addresses'
  <1>1. HunksAreSections /\ Addresses /\ k \in Nat /\ i \in Nat /\ files \in Boots
        /\ k \in DOMAIN files
    <2>1. files \in Seq(File) /\ k \in DOMAIN files /\ i \in Nat /\ files \in Boots
      BY BootAssumption DEF IInv, TypeOK
    <2>2. QED
      BY <2>1 DEF Books
  <1>2. Len(sh) \in Nat /\ DOMAIN sh = 1 .. Len(sh)
    BY <1>1, SectionType
  <1>3. CASE LoadHunk
    <2>1. PICK h \in Hunk :
            /\ i \in DOMAIN sh
            /\ h.file = k /\ h.sec = i
            /\ Len(hunks) \in Nat /\ DOMAIN hunks = 1 .. Len(hunks)
            /\ DOMAIN hunks' = 1 .. (Len(hunks) + 1)
            /\ hunks'[Len(hunks) + 1] = h
            /\ \A n \in 1 .. Len(hunks) : hunks'[n] = hunks[n]
            /\ addr' = [addr EXCEPT ![i] = h.addr]
      <3>1. PICK h \in Hunk : Loads(h)
        BY <1>3, OneMore
      <3>2. QED
        BY ONLY <3>1 DEF Loads
    <2>2. /\ pc = "hunks" /\ pc' = "hunks" /\ k' = k /\ i' = i + 1 /\ sh' = sh
      BY <1>3 DEF LoadHunk, sh
    <2>3. addr \in [DOMAIN sh -> 0 .. (Word - 1)]
      BY <2>2 DEF IInv, TypeOK
    <2>4. addr'[i] = h.addr /\ \A x \in DOMAIN sh : x # i => addr'[x] = addr[x]
      BY <2>1, <2>3
    <2>5. /\ \A n \in DOMAIN hunks : hunks[n].file = k =>
               /\ sh[hunks[n].sec].type # "rela" => addr[hunks[n].sec] = hunks[n].addr
               /\ hunks[n].sec < i /\ hunks[n].sec \in DOMAIN sh
          /\ \A x \in DOMAIN sh : sh[x].type \notin {"table", "rela"} /\ addr[x] # 0 =>
               \E n \in DOMAIN hunks : hunks[n].file = k /\ hunks[n].sec = x
          /\ \A x \in DOMAIN sh : x >= i => addr[x] = 0
      BY <1>1, <2>2 DEF Addresses, HunksAreSections, sh
    <2>6. \A n \in DOMAIN hunks' : hunks'[n].file = k =>
            /\ sh[hunks'[n].sec].type # "rela" => addr'[hunks'[n].sec] = hunks'[n].addr
            /\ hunks'[n].sec < i + 1
      <3> SUFFICES ASSUME NEW n \in DOMAIN hunks', hunks'[n].file = k
                   PROVE  /\ sh[hunks'[n].sec].type # "rela" =>
                               addr'[hunks'[n].sec] = hunks'[n].addr
                          /\ hunks'[n].sec < i + 1
        OBVIOUS
      <3>1. CASE n = Len(hunks) + 1
        BY <1>1, <2>1, <2>4, <3>1
      <3>2. CASE n # Len(hunks) + 1
        <4>1. n \in DOMAIN hunks /\ hunks'[n] = hunks[n]
          BY <2>1, <3>2
        <4>2. /\ sh[hunks[n].sec].type # "rela" => addr[hunks[n].sec] = hunks[n].addr
              /\ hunks[n].sec < i /\ hunks[n].sec \in DOMAIN sh
          BY <2>5, <4>1
        <4>3. QED
          BY <1>1, <1>2, <2>4, <4>1, <4>2
      <3>3. QED
        BY <3>1, <3>2
    <2>7. \A x \in DOMAIN sh : sh[x].type \notin {"table", "rela"} /\ addr'[x] # 0 =>
            \E n \in DOMAIN hunks' : hunks'[n].file = k /\ hunks'[n].sec = x
      <3> SUFFICES ASSUME NEW x \in DOMAIN sh, sh[x].type \notin {"table", "rela"},
                          addr'[x] # 0
                   PROVE  \E n \in DOMAIN hunks' : hunks'[n].file = k /\ hunks'[n].sec = x
        OBVIOUS
      <3>1. CASE x = i
        <4>1. Len(hunks) + 1 \in DOMAIN hunks'
          BY <2>1
        <4>2. QED
          BY <2>1, <3>1, <4>1
      <3>2. CASE x # i
        <4>1. PICK n \in DOMAIN hunks : hunks[n].file = k /\ hunks[n].sec = x
          BY <2>4, <2>5, <3>2
        <4>2. n \in DOMAIN hunks' /\ hunks'[n] = hunks[n]
          BY <2>1
        <4>3. QED
          BY <4>1, <4>2
      <3>3. QED
        BY <3>1, <3>2
    <2>8. \A x \in DOMAIN sh : x >= i + 1 => addr'[x] = 0
      BY <1>1, <1>2, <2>4, <2>5
    <2>9. QED
      BY <2>2, <2>6, <2>7, <2>8 DEF Addresses
  <1>4. CASE CheckHeader
    <2>1. /\ pc = "header" /\ UNCHANGED <<k, files, hunks>> /\ sh' = sh /\ i' = 1
          /\ \A x \in DOMAIN sh : addr'[x] = 0
      BY <1>4 DEF CheckHeader, sh, place
    <2>2. \A n \in DOMAIN hunks : hunks[n].file # k
      <3>1. \A n \in DOMAIN hunks : hunks[n].file \in 1 .. k /\ hunks[n].file < k
        BY <1>1, <2>1 DEF HunksAreSections
      <3>2. QED
        BY <1>1, <3>1
    <2>3. QED
      BY <2>1, <2>2 DEF Addresses
  <1>5. CASE PassSection
    <2>1. /\ pc = "hunks" /\ pc' = "hunks" /\ UNCHANGED <<k, files, hunks>>
          /\ sh' = sh /\ i' = i + 1 /\ i \in DOMAIN sh
      BY <1>5 DEF PassSection, sh, place
    <2>2. addr \in [DOMAIN sh -> 0 .. (Word - 1)]
      BY <2>1 DEF IInv, TypeOK
    <2>3. /\ \A x \in DOMAIN sh : x # i => addr'[x] = addr[x]
          /\ sh[i].type # "table" => addr'[i] = addr[i]
      BY <1>5, <2>2 DEF PassSection
    <2>4. \A n \in DOMAIN hunks : hunks[n].file = k =>
            /\ sh[hunks[n].sec].type # "rela" => addr[hunks[n].sec] = hunks[n].addr
            /\ hunks[n].sec < i /\ hunks[n].sec \in DOMAIN sh
      BY <1>1, <2>1 DEF Addresses, HunksAreSections, sh
    <2>5. \A n \in DOMAIN hunks : hunks[n].file = k =>
            /\ sh[hunks[n].sec].type # "rela" => addr'[hunks[n].sec] = hunks[n].addr
            /\ hunks[n].sec < i + 1
      BY <1>1, <1>2, <2>3, <2>4
    <2>6. \A x \in DOMAIN sh : sh[x].type \notin {"table", "rela"} /\ addr'[x] # 0 =>
            \E n \in DOMAIN hunks : hunks[n].file = k /\ hunks[n].sec = x
      BY <1>1, <2>1, <2>3 DEF Addresses
    <2>7. \A x \in DOMAIN sh : x >= i + 1 => addr'[x] = 0
      <3>1. \A x \in DOMAIN sh : x >= i + 1 => x # i /\ x >= i
        BY <1>1, <1>2
      <3>2. QED
        BY <1>1, <2>1, <2>3, <3>1 DEF Addresses
    <2>8. QED
      BY <2>1, <2>5, <2>6, <2>7 DEF Addresses
  <1>6. CASE NextModule
    BY <1>6 DEF NextModule, Addresses
  <1>7. CASE \/ Relocate \/ RelocateFails
             \/ Register \/ ModuleMissing \/ Jump \/ UNCHANGED vars
    <2>1. /\ UNCHANGED <<k, files, hunks, addr>> /\ sh' = sh
          /\ \/ pc # "header" /\ pc' \notin {"header", "hunks"}
             \/ pc' = pc /\ i' = i
      BY <1>7 DEF Relocate, RelocateFails, Relocating,
         Register, ModuleMissing, Jump, vars, place, sh
    <2>2. QED
      BY <1>1, <2>1 DEF Addresses
  <1>8. CASE HunksLoaded \/ Relocated
    <2>1. /\ UNCHANGED <<k, files, hunks>> /\ sh' = sh
          /\ pc # "header" /\ pc' \notin {"header", "hunks"}
          /\ addr' = Reached(1) \/ addr' = Reached(i + 1)
      BY <1>8 DEF HunksLoaded, Relocated, place, sh
    <2>2. \A y \in DOMAIN sh : sh[y].type # "rela" => addr'[y] = addr[y]
      BY <2>1, ReachedIs DEF IInv
    <2>3. \A n \in DOMAIN hunks :
            hunks[n].file = k /\ sh[hunks[n].sec].type # "rela" =>
              addr'[hunks[n].sec] = hunks[n].addr
      BY <1>1, <2>1, <2>2 DEF Addresses, HunksAreSections, sh
    <2>4. \A x \in DOMAIN sh : sh[x].type \notin {"table", "rela"} /\ addr'[x] # 0 =>
            \E n \in DOMAIN hunks : hunks[n].file = k /\ hunks[n].sec = x
      BY <1>1, <2>1, <2>2 DEF Addresses
    <2>5. QED
      BY <2>1, <2>3, <2>4 DEF Addresses
  <1>9. QED
    BY <1>3, <1>4, <1>5, <1>6, <1>7, <1>8 DEF Next

LEMMA OrderStep ==
  ASSUME Books, IInv, [Next]_vars
  PROVE  InOrder' /\ AboveZero'
  <1>1. InOrder /\ AboveZero /\ HunksAreSections
    BY DEF Books
  <1>2. CASE LoadHunk
    <2>1. PICK h \in Hunk :
            /\ h.file = k
            /\ Len(hunks) \in Nat /\ DOMAIN hunks = 1 .. Len(hunks)
            /\ DOMAIN hunks' = 1 .. (Len(hunks) + 1)
            /\ hunks'[Len(hunks) + 1] = h
            /\ \A n \in 1 .. Len(hunks) : hunks'[n] = hunks[n] /\ hunks[n] \in Hunk
            /\ fits' => /\ fits /\ h.addr > 0 /\ ptr_rw' \in {ptr_rw, h.addr}
                        /\ ~h.write => ptr_ro <= h.addr
      <3>1. PICK h \in Hunk : Loads(h)
        BY <1>2, OneMore
      <3>2. QED
        BY ONLY <3>1 DEF Loads
    <2>2. AboveZero'
      BY <1>1, <2>1 DEF AboveZero
    <2>3. ASSUME NEW n \in DOMAIN hunks, NEW m \in DOMAIN hunks, n < m
          PROVE  /\ hunks'[n].file <= hunks'[m].file
                 /\ fits' /\ ~hunks'[n].write /\ ~hunks'[m].write =>
                      hunks'[n].addr + hunks'[n].size <= hunks'[m].addr
      BY <1>1, <2>1, <2>3 DEF InOrder
    <2>4. ASSUME NEW n \in DOMAIN hunks
          PROVE  /\ hunks[n].file <= h.file
                 /\ fits' /\ ~hunks[n].write /\ ~h.write =>
                      hunks[n].addr + hunks[n].size <= h.addr
      <3>1. hunks[n].file \in 1 .. k /\ h.file = k
        BY <1>1, <2>1 DEF HunksAreSections
      <3>2. ASSUME fits', ~hunks[n].write, ~h.write
            PROVE  hunks[n].addr + hunks[n].size <= h.addr
        <4>1. fits /\ ptr_ro <= h.addr /\ ptr_ro \in Int
          BY <2>1, <3>2, WordNat, PlaceAssumption DEF IInv, TypeOK
        <4>2. hunks[n].addr + hunks[n].size <= ptr_ro
          BY <3>2, <4>1 DEF IInv, HunksEnclosed
        <4>3. hunks[n].addr \in Int /\ hunks[n].size \in Nat /\ h.addr \in Int
          BY <2>1, HunkNumbers DEF Hunk
        <4>4. QED
          BY <4>1, <4>2, <4>3
      <3>3. k \in Nat
        <4>1. files \in Seq(File) /\ k \in DOMAIN files
          BY BootAssumption DEF IInv, TypeOK
        <4>2. QED
          BY <4>1
      <3>4. QED
        BY <3>1, <3>2, <3>3
    <2>5. InOrder'
      <3> SUFFICES ASSUME NEW n \in DOMAIN hunks', NEW m \in DOMAIN hunks', n < m
                   PROVE  /\ hunks'[n].file <= hunks'[m].file
                          /\ fits' /\ ~hunks'[n].write /\ ~hunks'[m].write =>
                               hunks'[n].addr + hunks'[n].size <= hunks'[m].addr
        BY DEF InOrder
      <3>1. n \in DOMAIN hunks
        BY <2>1
      <3>2. CASE m \in DOMAIN hunks
        BY <2>3, <3>1, <3>2
      <3>3. CASE m = Len(hunks) + 1
        <4>1. hunks'[m] = h /\ hunks'[n] = hunks[n]
          BY <2>1, <3>1, <3>3
        <4>2. QED
          BY <2>4, <3>1, <4>1
      <3>4. QED
        BY <2>1, <3>2, <3>3
    <2>6. QED
      BY <2>2, <2>5
  <1>3. CASE Elsewhere
    <2>1. UNCHANGED <<ptr_rw, hunks, fits>>
      BY <1>3, ElsewhereSame
    <2>2. QED
      BY <1>1, <2>1 DEF InOrder, AboveZero
  <1>4. QED
    BY <1>2, <1>3, NextCases

LEMMA AppendType ==
  ASSUME NEW S, NEW s \in Seq(S), NEW x \in S
  PROVE  Append(s, x) \in Seq(S)
  OBVIOUS

\* A bss section that is loaded gets the next place of the tracker.
LEMMA TrackingStep ==
  ASSUME Books, IInv, IInv', [Next]_vars
  PROVE  Tracking'
  <1>1. Tracking /\ AboveZero /\ AboveZero'
    BY OrderStep DEF Books
  <1>2. CASE LoadHunk
    <2>1. PICK h \in Hunk :
            /\ h.addr \in 0 .. (Word - 1)
            /\ Len(hunks) \in Nat /\ DOMAIN hunks = 1 .. Len(hunks)
            /\ DOMAIN hunks' = 1 .. (Len(hunks) + 1)
            /\ hunks'[Len(hunks) + 1] = h
            /\ \A n \in 1 .. Len(hunks) : hunks'[n] = hunks[n]
            /\ tracker' = IF h.bss
                  THEN Append(tracker, [addr |-> Virtual(h.addr), length |-> h.size])
                  ELSE tracker
            /\ fits' => fits /\ h.addr + h.size < Word - Virt /\ h.addr > 0
      <3>1. PICK h \in Hunk : Loads(h)
        BY <1>2, OneMore
      <3>2. QED
        BY ONLY <3>1 DEF Loads
    <2> DEFINE N == Len(hunks) + 1
               e == [addr |-> Virtual(h.addr), length |-> h.size]
    <2>2. h.size \in Nat /\ h.addr \in Nat /\ h.bss \in BOOLEAN /\ Virt \in Nat /\ Word \in Nat
      BY <2>1, WordNat, PlaceAssumption DEF Hunk
    <2>3. e \in [addr : Int, length : Nat]
      BY <2>2, WordNat DEF Virtual
    <2>4. tracker' \in Seq([addr : Int, length : Nat])
      <3>1. tracker \in Seq([addr : Int, length : Nat])
        BY <1>1 DEF Tracking
      <3>2. tracker' = tracker \/ tracker' = Append(tracker, e)
        BY <2>1
      <3> HIDE DEF e
      <3>3. Append(tracker, e) \in Seq([addr : Int, length : Nat])
        BY <2>3, <3>1, AppendType
      <3>4. QED
        BY <3>1, <3>2, <3>3
    <2>5. ASSUME fits'
          PROVE  \E of \in [DOMAIN tracker' -> DOMAIN hunks'] : Tracks(of)'
      <3>1. PICK of \in [DOMAIN tracker -> DOMAIN hunks] : Tracks(of)
        BY <1>1, <2>1, <2>5 DEF Tracking
      <3>2. Virtual(h.addr) = h.addr + Virt
        <4>1. h.addr + Virt \in 0 .. (Word - 1)
          BY <2>1, <2>2, <2>5
        <4>2. QED
          BY <4>1, Fitting DEF Virtual
      <3>3. CASE ~h.bss
        <4>1. tracker' = tracker
          BY <2>1, <3>3
        <4>2. of \in [DOMAIN tracker' -> DOMAIN hunks']
          BY <2>1, <3>1, <4>1
        <4>3. {n \in DOMAIN hunks' : hunks'[n].bss} = {n \in DOMAIN hunks : hunks[n].bss}
          BY <2>1, <3>3
        <4>4. Tracks(of)'
          BY <2>1, <3>1, <4>1, <4>3 DEF Tracks
        <4>5. QED
          BY <4>2, <4>4
      <3>4. CASE h.bss
        <4>1. tracker' = Append(tracker, e)
          BY <2>1, <3>4
        <4>2. PICK L \in Nat : L = Len(tracker)
          BY <1>1 DEF Tracking
        <4>3. /\ DOMAIN tracker = 1 .. L /\ DOMAIN tracker' = 1 .. (L + 1)
              /\ tracker'[L + 1] = e /\ \A x \in 1 .. L : tracker'[x] = tracker[x]
          <5> HIDE DEF e
          <5>1. QED
            BY <1>1, <4>1, <4>2 DEF Tracking
        <4> DEFINE v == [x \in 1 .. (L + 1) |-> IF x = L + 1 THEN N ELSE of[x]]
        <4>4. PICK u : u = v
          OBVIOUS
        <4>5. /\ u[L + 1] = N
              /\ \A x \in 1 .. L : u[x] = of[x]
              /\ \A x \in 1 .. L : of[x] \in 1 .. Len(hunks)
              /\ u \in [DOMAIN tracker' -> DOMAIN hunks']
          <5>1. u[L + 1] = N /\ \A x \in 1 .. L : u[x] = of[x]
            BY <4>2, <4>4
          <5>2. \A x \in 1 .. L : of[x] \in 1 .. Len(hunks)
            BY <2>1, <3>1, <4>3
          <5>3. N \in DOMAIN hunks' /\ \A x \in 1 .. L : of[x] \in DOMAIN hunks'
            BY <2>1, <5>2
          <5>4. \A x \in 1 .. (L + 1) : v[x] \in DOMAIN hunks'
            <6> HIDE DEF N
            <6>1. QED
              BY <4>2, <5>3
          <5>5. u \in [1 .. (L + 1) -> DOMAIN hunks']
            <6> HIDE DEF N
            <6>1. QED
              BY <4>4, <5>4
          <5>6. QED
            BY <4>3, <5>1, <5>2, <5>5
        <4> HIDE DEF v
        <4>6. \A x, y \in 1 .. (L + 1) : x < y => u[x] < u[y]
          <5>1. \A x, y \in 1 .. L : x < y => u[x] < u[y]
            BY <3>1, <4>3, <4>5 DEF Tracks
          <5>2. \A x \in 1 .. L : u[x] < u[L + 1]
            <6>1. \A x \in 1 .. L : u[x] \in 1 .. Len(hunks)
              BY <4>5
            <6>2. u[L + 1] = Len(hunks) + 1
              BY <4>5
            <6>3. QED
              BY <2>1, <6>1, <6>2
          <5>3. QED
            BY <4>2, <5>1, <5>2
        <4>7. {u[x] : x \in 1 .. (L + 1)} = {n \in DOMAIN hunks' : hunks'[n].bss}
          <5>1. {of[x] : x \in 1 .. L} = {n \in 1 .. Len(hunks) : hunks[n].bss}
            BY <2>1, <3>1, <4>3 DEF Tracks
          <5>2. {u[x] : x \in 1 .. (L + 1)} = {of[x] : x \in 1 .. L} \cup {N}
            <6>1. 1 .. (L + 1) = (1 .. L) \cup {L + 1}
              BY <4>2
            <6> HIDE DEF N
            <6>2. QED
              BY <4>5, <6>1
          <5>3. {n \in DOMAIN hunks' : hunks'[n].bss}
                  = {n \in 1 .. Len(hunks) : hunks[n].bss} \cup {N}
            <6>1. DOMAIN hunks' = (1 .. Len(hunks)) \cup {N}
              BY <2>1
            <6>2. N \notin 1 .. Len(hunks) /\ hunks'[N] = h
              BY <2>1
            <6> HIDE DEF N
            <6>3. QED
              BY <2>1, <3>4, <6>1, <6>2
          <5>4. QED
            BY <5>1, <5>2, <5>3
        <4>8. \A x \in 1 .. (L + 1) :
                tracker'[x] = [addr |-> hunks'[u[x]].addr + Virt,
                               length |-> hunks'[u[x]].size]
          <5> SUFFICES ASSUME NEW x \in 1 .. (L + 1)
                       PROVE  tracker'[x] = [addr |-> hunks'[u[x]].addr + Virt,
                                             length |-> hunks'[u[x]].size]
            OBVIOUS
          <5>1. CASE x = L + 1
            BY <2>1, <3>2, <4>3, <4>5, <5>1
          <5>2. CASE x # L + 1
            <6>1. x \in 1 .. L
              BY <4>2, <5>2
            <6>2. tracker[x] = [addr |-> hunks[of[x]].addr + Virt,
                                length |-> hunks[of[x]].size]
              BY <3>1, <4>3, <6>1 DEF Tracks
            <6>3. u[x] = of[x] /\ hunks'[of[x]] = hunks[of[x]] /\ tracker'[x] = tracker[x]
              BY <2>1, <4>3, <4>5, <6>1
            <6>4. QED
              BY <6>2, <6>3
          <5>3. QED
            BY <5>1, <5>2
        <4>9. Tracks(u)'
          BY <4>3, <4>6, <4>7, <4>8 DEF Tracks
        <4>10. QED
          BY <4>5, <4>9
      <3>5. QED
        BY <2>2, <3>3, <3>4
    <2>6. QED
      BY <2>4, <2>5 DEF Tracking
  <1>3. CASE Elsewhere
    <2>1. UNCHANGED <<tracker, hunks, fits>>
      BY <1>3, ElsewhereSame
    <2>2. QED
      BY <1>1, <2>1 DEF Tracking, Tracks
  <1>4. QED
    BY <1>2, <1>3, NextCases

\* A set of words has a least and a greatest element.
LEMMA Least ==
  ASSUME NEW S \in SUBSET Nat, S # {}
  PROVE  \E x \in S : \A y \in S : x <= y
  <1> DEFINE R == OpToRel(<, Nat)
  <1>1. IsWellFoundedOn(R, Nat)
    BY NatLessThanWellFounded
  <1>2. \A x, y \in Nat : x < y => <<x, y>> \in R
    BY DEF OpToRel
  <1>3. S \subseteq Nat
    OBVIOUS
  <1> HIDE DEF R
  <1>4. PICK x \in S : \A y \in S : ~(<<y, x>> \in R)
    BY <1>1, <1>3, WFMin
  <1>5. \A y \in S : x \in Nat /\ y \in Nat /\ ~(y < x)
    BY <1>2, <1>3, <1>4
  <1>6. QED
    BY <1>5

LEMMA MinMax ==
  ASSUME NEW S \in SUBSET (0 .. (Word - 1)), S # {}
  PROVE  /\ Min(S) \in S /\ \A y \in S : Min(S) <= y
         /\ Max(S) \in S /\ \A y \in S : y <= Max(S)
  <1>1. S \in SUBSET Nat
    BY WordNat
  <1>2. \E x \in S : \A y \in S : x <= y
    BY <1>1, Least
  <1>3. Min(S) \in S /\ \A y \in S : Min(S) <= y
    BY <1>2 DEF Min
  <1> DEFINE T == {Word - 1 - y : y \in S}
  <1>4. T \in SUBSET Nat /\ T # {}
    <2>1. \A y \in S : Word - 1 - y \in Nat
      <3> SUFFICES ASSUME NEW y \in S PROVE Word - 1 - y \in Nat
        OBVIOUS
      <3>1. y \in 0 .. (Word - 1)
        OBVIOUS
      <3>2. QED
        BY <3>1, WordNat
    <2>2. QED
      BY <2>1
  <1>5. PICK z \in T : \A y \in T : z <= y
    BY <1>4, Least
  <1>6. PICK x \in S : z = Word - 1 - x
    BY <1>5
  <1>7. \A y \in S : y <= x
    <2> SUFFICES ASSUME NEW y \in S PROVE y <= x
      OBVIOUS
    <2>1. z <= Word - 1 - y
      BY <1>5
    <2>2. QED
      BY <1>1, <1>6, <2>1, WordNat
  <1>8. Max(S) \in S /\ \A y \in S : y <= Max(S)
    <2>1. \E m \in S : \A y \in S : y <= m
      BY <1>7
    <2>2. \E m \in S : \A y \in S : m >= y
      BY <1>1, <2>1
    <2>3. Max(S) \in S /\ \A y \in S : Max(S) >= y
      BY <2>2 DEF Max
    <2>4. QED
      BY <1>1, <2>3
  <1>9. QED
    BY <1>3, <1>8

\* The debugger's range of the file at hand: around the code of its hunks,
\* and no wider.
LEMMA RangeOfCode ==
  ASSUME Books, IInv, pc = "relocs", fits, PlainCode
  PROVE  LET lowest  == Min({Word - 1} \cup {Virtual(addr[x]) : x \in Code})
             highest == Max({0} \cup
                          {(Virtual(addr[x]) + sh[x].size) % Word : x \in Code})
         IN  /\ lowest \in Int /\ highest \in Int
             /\ \A n \in CodeOf(k) :
                  /\ lowest <= hunks[n].addr + Virt
                  /\ hunks[n].addr + hunks[n].size + Virt <= highest
             /\ \/ highest = 0
                \/ \E a, b \in CodeOf(k) :
                     /\ lowest = hunks[a].addr + Virt
                     /\ highest = hunks[b].addr + hunks[b].size + Virt
  <1> DEFINE Start == {Virtual(addr[x]) : x \in Code}
             End   == {(Virtual(addr[x]) + sh[x].size) % Word : x \in Code}
             lowest  == Min({Word - 1} \cup Start)
             highest == Max({0} \cup End)
             From(n) == hunks[n].addr + Virt
             To(n)   == hunks[n].addr + hunks[n].size + Virt
  <1>0. /\ HunksAreSections /\ Addresses /\ AboveZero /\ k \in DOMAIN files
        /\ Word \in Nat /\ Word > 0 /\ Virt \in Nat
    BY WordNat, PlaceAssumption DEF Books, IInv, TypeOK
  <1>1. ASSUME NEW n \in CodeOf(k)
        PROVE  /\ From(n) \in 0 .. (Word - 1) /\ To(n) \in 1 .. (Word - 1)
               /\ hunks[n].sec \in Code
               /\ Virtual(addr[hunks[n].sec]) = From(n)
               /\ (Virtual(addr[hunks[n].sec]) + sh[hunks[n].sec].size) % Word = To(n)
    <2>1. n \in DOMAIN hunks /\ hunks[n].file = k /\ hunks[n].exec
      BY DEF CodeOf
    <2>2. /\ hunks[n].addr \in Int /\ hunks[n].size \in Nat
          /\ hunks[n].addr > 0 /\ hunks[n].addr + hunks[n].size < Word - Virt
      BY <1>0, <2>1, HunkNumbers
    <2>3. From(n) \in 0 .. (Word - 1) /\ To(n) \in 1 .. (Word - 1)
      BY <1>0, <2>2
    <2>4. /\ hunks[n].sec \in DOMAIN sh /\ sh[hunks[n].sec].alloc
          /\ sh[hunks[n].sec].exec /\ sh[hunks[n].sec].size = hunks[n].size
          /\ addr[hunks[n].sec] = hunks[n].addr
      <3>1. /\ hunks[n].sec \in DOMAIN sh /\ sh[hunks[n].sec].alloc
            /\ sh[hunks[n].sec].exec /\ sh[hunks[n].sec].size = hunks[n].size
        BY <1>0, <2>1 DEF HunksAreSections, sh
      <3>2. sh[hunks[n].sec].type # "rela"
        BY <1>0, <3>1 DEF PlainCode, sh
      <3>3. QED
        BY <1>0, <2>1, <3>1, <3>2 DEF Addresses
    <2>5. hunks[n].sec \in Code
      BY <2>2, <2>4 DEF Code
    <2>6. Virtual(addr[hunks[n].sec]) = From(n)
      BY <2>3, <2>4, Fitting DEF Virtual
    <2>7. Virtual(addr[hunks[n].sec]) + sh[hunks[n].sec].size = To(n)
      BY <1>0, <2>2, <2>4, <2>6
    <2>8. To(n) \in 0 .. (Word - 1)
      BY <2>3
    <2>9. (Virtual(addr[hunks[n].sec]) + sh[hunks[n].sec].size) % Word = To(n)
      BY <2>7, <2>8, Fitting
    <2>10. QED
      BY <2>3, <2>5, <2>6, <2>9
  <1>2. ASSUME NEW x \in Code
        PROVE  \E n \in CodeOf(k) : hunks[n].sec = x
    <2>1. /\ x \in DOMAIN sh /\ sh[x].exec /\ addr[x] # 0
          /\ sh[x].type \notin {"table", "rela"}
      BY <1>0 DEF Code, PlainCode, sh
    <2>2. PICK n \in DOMAIN hunks : hunks[n].file = k /\ hunks[n].sec = x
      BY <1>0, <2>1 DEF Addresses
    <2>3. hunks[n].exec
      BY <1>0, <2>1, <2>2 DEF HunksAreSections, sh
    <2>4. QED
      BY <2>2, <2>3 DEF CodeOf
  <1>3. Start = {From(n) : n \in CodeOf(k)} /\ End = {To(n) : n \in CodeOf(k)}
    <2> HIDE DEF From, To
    <2>1. QED
      BY <1>1, <1>2
  <1>4. /\ {Word - 1} \cup Start \in SUBSET (0 .. (Word - 1))
        /\ {0} \cup End \in SUBSET (0 .. (Word - 1))
    <2>1. Word - 1 \in 0 .. (Word - 1) /\ 0 \in 0 .. (Word - 1)
      BY <1>0
    <2>2. \A n \in CodeOf(k) : From(n) \in 0 .. (Word - 1) /\ To(n) \in 0 .. (Word - 1)
      BY <1>0, <1>1
    <2> HIDE DEF From, To, Start, End
    <2>3. QED
      BY <1>3, <2>1, <2>2
  <1>5. /\ lowest \in {Word - 1} \cup Start
        /\ \A y \in {Word - 1} \cup Start : lowest <= y
    <2> HIDE DEF Start
    <2>1. QED
      BY <1>4, MinMax
  <1>6. /\ highest \in {0} \cup End
        /\ \A y \in {0} \cup End : y <= highest
    <2> HIDE DEF End
    <2>1. QED
      BY <1>4, MinMax
  <1>7. lowest \in Int /\ highest \in Int
    <2> HIDE DEF Start, End, lowest, highest
    <2>1. QED
      BY <1>0, <1>4, <1>5, <1>6
  <1>8. \A n \in CodeOf(k) : lowest <= From(n) /\ To(n) <= highest
    <2> HIDE DEF Start, End, lowest, highest, From, To
    <2>1. QED
      BY <1>3, <1>5, <1>6
  <1>9. highest = 0 \/ \E a, b \in CodeOf(k) : lowest = From(a) /\ highest = To(b)
    <2> SUFFICES ASSUME highest # 0
                 PROVE  \E a, b \in CodeOf(k) : lowest = From(a) /\ highest = To(b)
      OBVIOUS
    <2>1. PICK b \in CodeOf(k) : highest = To(b)
      <3> HIDE DEF End, highest, To
      <3>1. QED
        BY <1>3, <1>6
    <2>2. CASE lowest \in Start
      <3> HIDE DEF Start, lowest, From, highest, To
      <3>1. PICK a \in CodeOf(k) : lowest = From(a)
        BY <1>3, <2>2
      <3>2. QED
        BY <2>1, <3>1
    <2>3. CASE lowest = Word - 1
      <3>1. lowest <= From(b) /\ From(b) \in 0 .. (Word - 1)
        BY <1>1, <1>8
      <3> HIDE DEF Start, lowest, From, highest, To
      <3>2. lowest = From(b)
        BY <1>0, <2>3, <3>1
      <3>3. QED
        BY <2>1, <3>2
    <2>4. QED
      BY <1>5, <2>2, <2>3
  <1> HIDE DEF lowest, highest
  <1>10. QED
    BY <1>7, <1>8, <1>9 DEF lowest, highest

\* Whatever is registered stays true of the hunks of its file.
LEMMA RegisteredStep ==
  ASSUME Books, IInv, IInv', [Next]_vars
  PROVE  Registered'
  <1> DEFINE Entry == [file : Nat, lowest : Int, highest : Int]
             Bounds(d) ==
               /\ \A n \in CodeOf(d.file) :
                    /\ d.lowest <= hunks[n].addr + Virt
                    /\ hunks[n].addr + hunks[n].size + Virt <= d.highest
               /\ \/ d.highest = 0
                  \/ \E a, b \in CodeOf(d.file) :
                       /\ d.lowest = hunks[a].addr + Virt
                       /\ d.highest = hunks[b].addr + hunks[b].size + Virt
  <1>1. Registered /\ k \in Nat /\ k \in DOMAIN files /\ k >= 1
    <2>1. files \in Seq(File) /\ k \in DOMAIN files
      BY BootAssumption DEF IInv, TypeOK
    <2>2. QED
      BY <2>1 DEF Books
  <1>2. PlainCode' <=> PlainCode
    <2>1. files' = files
      BY NextCases, ElsewhereSame DEF LoadHunk
    <2>2. QED
      BY <2>1 DEF PlainCode
  <1>3. CASE LoadHunk
    <2>1. PICK h \in Hunk :
            /\ h.file = k
            /\ Len(hunks) \in Nat /\ DOMAIN hunks = 1 .. Len(hunks)
            /\ DOMAIN hunks' = 1 .. (Len(hunks) + 1)
            /\ hunks'[Len(hunks) + 1] = h
            /\ \A n \in 1 .. Len(hunks) : hunks'[n] = hunks[n]
            /\ fits' => fits
      <3>1. PICK h \in Hunk : Loads(h)
        BY <1>3, OneMore
      <3>2. QED
        BY ONLY <3>1 DEF Loads
    <2>2. pc = "hunks" /\ pc' = "hunks" /\ debug_info' = debug_info /\ k' = k
      BY <1>3 DEF LoadHunk
    <2>3. \A m \in DOMAIN debug_info : debug_info[m].file # k
      BY <1>1, <2>2 DEF Registered
    <2>4. \A f : f # k => CodeOf(f)' = CodeOf(f)
      BY <2>1 DEF CodeOf
    <2>5. \A m \in DOMAIN debug_info : fits' /\ PlainCode =>
            /\ \A n \in CodeOf(debug_info[m].file) :
                 n \in 1 .. Len(hunks) /\ hunks'[n] = hunks[n]
            /\ Bounds(debug_info[m])
      BY <1>1, <2>1 DEF Registered, CodeOf
    <2>6. \A m \in DOMAIN debug_info : fits' /\ PlainCode => Bounds(debug_info[m])'
      <3> SUFFICES ASSUME NEW m \in DOMAIN debug_info, fits', PlainCode
                   PROVE  Bounds(debug_info[m])'
        OBVIOUS
      <3>1. PICK d : d = debug_info[m]
        OBVIOUS
      <3>2. CodeOf(d.file)' = CodeOf(d.file)
        BY <2>3, <2>4, <3>1
      <3>3. /\ \A n \in CodeOf(d.file) : hunks'[n] = hunks[n]
            /\ \A n \in CodeOf(d.file) :
                 /\ d.lowest <= hunks[n].addr + Virt
                 /\ hunks[n].addr + hunks[n].size + Virt <= d.highest
            /\ \/ d.highest = 0
               \/ \E a, b \in CodeOf(d.file) :
                    /\ d.lowest = hunks[a].addr + Virt
                    /\ d.highest = hunks[b].addr + hunks[b].size + Virt
        BY <2>5, <3>1
      <3>4. Bounds(d)'
        BY <3>2, <3>3
      <3>5. QED
        BY <2>2, <3>1, <3>4
    <2> HIDE DEF Bounds
    <2>7. QED
      BY <1>1, <1>2, <2>2, <2>3, <2>6 DEF Registered, Bounds
  <1>4. CASE Elsewhere /\ debug_info' = debug_info
    <2>1. UNCHANGED <<hunks, fits, debug_info>>
      BY <1>4, ElsewhereSame
    <2>2. \/ k' = k /\ (pc \in {"next", "failed", "jumped"} =>
                          pc' \in {"next", "failed", "jumped"})
          \/ k' = k + 1
      BY <1>4 DEF Elsewhere, CheckHeader, PassSection, HunksLoaded, Relocate,
         RelocateFails, Relocated, Relocating, Register, NextModule,
         ModuleMissing, Jump, vars
    <2>3. \A f : CodeOf(f)' = CodeOf(f)
      BY <2>1 DEF CodeOf
    <2>4. debug_info' \in Seq(Entry)
      BY <1>1, <2>1 DEF Registered
    <2>5. \A m \in DOMAIN debug_info :
            /\ debug_info[m].file \in 1 .. k'
            /\ debug_info[m].file = k' => pc' \in {"next", "failed", "jumped"}
      BY <1>1, <2>2 DEF Registered
    <2>6. \A m \in DOMAIN debug_info : fits /\ PlainCode => Bounds(debug_info[m])
      BY <1>1 DEF Registered
    <2>7. \A m \in DOMAIN debug_info : fits /\ PlainCode => Bounds(debug_info[m])'
      BY <2>1, <2>3, <2>6
    <2> HIDE DEF Bounds
    <2>8. QED
      BY <1>2, <2>1, <2>4, <2>5, <2>7 DEF Registered, Bounds
  <1>5. CASE Register /\ debug_info' # debug_info
    <2> DEFINE e == [file |-> k,
                     lowest |-> Min({Word - 1} \cup {Virtual(addr[x]) : x \in Code}),
                     highest |-> Max({0} \cup
                       {(Virtual(addr[x]) + sh[x].size) % Word : x \in Code})]
    <2>1. /\ pc = "relocs" /\ pc' = "next" /\ debug_info' = <<e>> \o debug_info
          /\ UNCHANGED <<k, hunks, fits>>
      BY <1>5 DEF Register, place
    <2>2. e \in Entry
      <3>1. /\ \A x \in Code : /\ Virtual(addr[x]) \in 0 .. (Word - 1)
                               /\ (Virtual(addr[x]) + sh[x].size) % Word \in 0 .. (Word - 1)
        <4> SUFFICES ASSUME NEW x \in Code
                     PROVE  /\ Virtual(addr[x]) \in 0 .. (Word - 1)
                            /\ (Virtual(addr[x]) + sh[x].size) % Word \in 0 .. (Word - 1)
          OBVIOUS
        <4>1. x \in DOMAIN sh /\ addr[x] \in 0 .. (Word - 1) /\ sh[x].size \in Nat
          BY <1>1, <2>1, SectionType DEF Code, IInv, TypeOK
        <4>2. addr[x] + Virt \in Int
          BY <4>1, WordNat, PlaceAssumption
        <4>3. Virtual(addr[x]) \in 0 .. (Word - 1)
          BY <4>2, WordNat DEF Virtual
        <4>4. Virtual(addr[x]) + sh[x].size \in Int
          BY <4>1, <4>3, WordNat
        <4>5. QED
          BY <4>3, <4>4, WordNat
      <3>2. /\ {Word - 1} \cup {Virtual(addr[x]) : x \in Code} \in SUBSET (0 .. (Word - 1))
            /\ {0} \cup {(Virtual(addr[x]) + sh[x].size) % Word : x \in Code}
                 \in SUBSET (0 .. (Word - 1))
        <4>1. Word - 1 \in 0 .. (Word - 1) /\ 0 \in 0 .. (Word - 1)
          BY WordNat
        <4>2. QED
          BY <3>1, <4>1
      <3>3. e.lowest \in 0 .. (Word - 1) /\ e.highest \in 0 .. (Word - 1)
        BY <3>2, MinMax
      <3>4. e.lowest \in Int /\ e.highest \in Int
        BY <3>3, WordNat
      <3>5. QED
        BY <1>1, <3>4
    <2>3. fits /\ PlainCode => Bounds(e)
      BY <2>1, RangeOfCode
    <2>4. e.file = k
      OBVIOUS
    <2>5. PICK g : g = e
      OBVIOUS
    <2> HIDE DEF e
    <2>6. /\ debug_info' \in Seq(Entry)
          /\ \A m \in DOMAIN debug_info' :
               \/ debug_info'[m] = g
               \/ \E l \in DOMAIN debug_info : debug_info'[m] = debug_info[l]
      <3>1. debug_info \in Seq(Entry) /\ g \in Entry
        BY <1>1, <2>2, <2>5 DEF Registered
      <3>2. debug_info' = <<g>> \o debug_info
        BY <2>1, <2>5
      <3> HIDE DEF Entry
      <3>3. QED
        BY <3>1, <3>2
    <2>7. ASSUME NEW m \in DOMAIN debug_info'
          PROVE  debug_info'[m].file \in 1 .. k /\ (fits /\ PlainCode => Bounds(debug_info'[m]))
      <3>1. CASE debug_info'[m] = g
        BY <1>1, <2>3, <2>4, <2>5, <3>1
      <3>2. CASE \E l \in DOMAIN debug_info : debug_info'[m] = debug_info[l]
        BY <1>1, <3>2 DEF Registered
      <3>3. QED
        BY <2>6, <3>1, <3>2
    <2>8. \A f : CodeOf(f)' = CodeOf(f)
      BY <2>1 DEF CodeOf
    <2>9. (\A m \in DOMAIN debug_info : fits /\ PlainCode => Bounds(debug_info[m]))'
      <3> SUFFICES ASSUME NEW m \in (DOMAIN debug_info)', fits', PlainCode'
                   PROVE  Bounds(debug_info[m])'
        OBVIOUS
      <3>1. PICK d : d = debug_info'[m]
        OBVIOUS
      <3>2. fits /\ PlainCode
        BY <2>1, <1>5 DEF PlainCode, Register
      <3>3. Bounds(d)
        BY <2>7, <3>1, <3>2
      <3>4. Bounds(d)'
        BY ONLY <2>1, <2>8, <3>3
      <3>5. QED
        BY ONLY <3>1, <3>4
    <2>9a. \A m \in DOMAIN debug_info' :
             /\ debug_info'[m].file \in 1 .. k'
             /\ debug_info'[m].file = k' => pc' \in {"next", "failed", "jumped"}
      BY ONLY <2>1, <2>7
    <2> HIDE DEF Bounds
    <2>10. QED
      BY <2>6, <2>9, <2>9a DEF Registered, Bounds
  <1>6. Elsewhere => debug_info' = debug_info \/ Register
    BY DEF Elsewhere, CheckHeader, PassSection, HunksLoaded, Relocate,
       RelocateFails, Relocated, NextModule, ModuleMissing, Jump, vars
  <1>7. QED
    BY <1>3, <1>4, <1>5, <1>6, NextCases

LEMMA InitBooks == Init => Books
  <1> SUFFICES ASSUME Init PROVE Books
    OBVIOUS
  <1>1. DOMAIN hunks = {} /\ DOMAIN tracker = {} /\ DOMAIN debug_info = {}
    BY DEF Init
  <1>2. /\ HunksAreSections /\ OnePerSection /\ InOrder
        /\ Addresses
    BY <1>1 DEF Init, HunksAreSections, OnePerSection, InOrder, Addresses
  <1>3. AboveZero
    BY PlaceAssumption DEF Init, AboveZero
  <1>4. Registered
    <2>1. debug_info \in Seq([file : Nat, lowest : Int, highest : Int])
      BY DEF Init
    <2>2. QED
      BY <1>1, <2>1 DEF Registered
  <1>5. Tracking
    <2>1. tracker \in Seq([addr : Int, length : Nat])
      BY DEF Init
    <2> DEFINE none == [x \in {} |-> 0]
    <2>2. none \in [DOMAIN tracker -> DOMAIN hunks]
      BY <1>1
    <2>3. Tracks(none)
      <3>1. {none[x] : x \in DOMAIN tracker} = {n \in DOMAIN hunks : hunks[n].bss}
        BY <1>1
      <3> HIDE DEF none
      <3>2. QED
        BY <1>1, <3>1 DEF Tracks
    <2> HIDE DEF none
    <2>4. QED
      BY <2>1, <2>2, <2>3 DEF Tracking
  <1>6. QED
    BY <1>2, <1>3, <1>4, <1>5 DEF Books

\* The books are right in every reachable state.
LEMMA BooksInductive == Spec => [](IInv /\ Books)
  <1>1. Init => IInv /\ Books
    BY InitIInv, InitBooks
  <1>2. IInv /\ Books /\ [Next]_vars => (IInv /\ Books)'
    <2> SUFFICES ASSUME IInv, Books, [Next]_vars
                 PROVE  IInv' /\ Books'
      OBVIOUS
    <2>1. IInv'
      BY NextIInv
    <2>2. HunksAreSections' /\ OnePerSection' /\ Addresses' /\ InOrder' /\ AboveZero'
      BY SectionsStep, AddressesStep, OrderStep
    <2>3. Tracking' /\ Registered'
      BY <2>1, TrackingStep, RegisteredStep
    <2>4. QED
      BY <2>1, <2>2, <2>3 DEF Books
  <1>3. QED
    BY <1>1, <1>2, PTL DEF Spec

\* The kernel's list names every bss section of every file once, in order
\* and at the address where it runs.
THEOREM KernelFindsBss == Spec => []BssHanded
  <1>1. IInv /\ Books => BssHanded
    BY DEF Books, Tracking, Tracks, BssHanded
  <1>2. QED
    BY <1>1, BooksInductive, PTL

\* The debugger finds for every code address the one module it is of.
THEOREM DebuggerFindsModule == Spec => []OneModuleEach
  <1>1. IInv /\ Books => OneModuleEach
    <2> SUFFICES ASSUME IInv, Books, fits, PlainCode,
                        NEW x \in DOMAIN hunks, NEW m \in DOMAIN debug_info,
                        hunks[x].exec
                 PROVE  IF hunks[x].file = debug_info[m].file
                        THEN debug_info[m].lowest <= hunks[x].addr + Virt
                               /\ hunks[x].addr + hunks[x].size + Virt
                                    <= debug_info[m].highest
                        ELSE debug_info[m].highest <= hunks[x].addr + Virt
                               \/ hunks[x].addr + hunks[x].size + Virt
                                    <= debug_info[m].lowest
      BY DEF OneModuleEach
    <2> DEFINE d == debug_info[m]
    <2>1. /\ HunksAreSections /\ InOrder /\ Registered /\ AboveZero
          /\ Virt \in Nat
      BY PlaceAssumption DEF Books
    <2>2. /\ d \in [file : Nat, lowest : Int, highest : Int]
          /\ \A n \in CodeOf(d.file) :
               /\ d.lowest <= hunks[n].addr + Virt
               /\ hunks[n].addr + hunks[n].size + Virt <= d.highest
          /\ \/ d.highest = 0
             \/ \E a, b \in CodeOf(d.file) :
                  /\ d.lowest = hunks[a].addr + Virt
                  /\ d.highest = hunks[b].addr + hunks[b].size + Virt
      <3> DEFINE Entry == [file : Nat, lowest : Int, highest : Int]
      <3>1. d \in Entry
        <4>1. debug_info \in Seq(Entry)
          BY <2>1 DEF Registered
        <4> HIDE DEF Entry
        <4>2. QED
          BY <4>1
      <3>2. /\ \A n \in CodeOf(d.file) :
                 /\ d.lowest <= hunks[n].addr + Virt
                 /\ hunks[n].addr + hunks[n].size + Virt <= d.highest
            /\ \/ d.highest = 0
               \/ \E a, b \in CodeOf(d.file) :
                    /\ d.lowest = hunks[a].addr + Virt
                    /\ d.highest = hunks[b].addr + hunks[b].size + Virt
        BY <2>1 DEF Registered
      <3>3. QED
        BY <3>1, <3>2
    <2>3. \A n \in DOMAIN hunks : hunks[n].exec => ~hunks[n].write
      <3> SUFFICES ASSUME NEW n \in DOMAIN hunks, hunks[n].exec
                   PROVE  ~hunks[n].write
        OBVIOUS
      <3>1. /\ hunks[n].file \in 1 .. k
            /\ hunks[n].sec \in DOMAIN files[hunks[n].file].sh
            /\ hunks[n].write = files[hunks[n].file].sh[hunks[n].sec].write
            /\ hunks[n].exec = files[hunks[n].file].sh[hunks[n].sec].exec
        BY <2>1 DEF HunksAreSections
      <3>2. files \in Seq(File) /\ k \in DOMAIN files
        BY BootAssumption DEF IInv, TypeOK
      <3>3. hunks[n].file \in DOMAIN files
        BY <3>1, <3>2
      <3>4. QED
        BY <3>1, <3>3 DEF PlainCode
    <2>4. \A n, l \in DOMAIN hunks :
            (hunks[n].exec /\ hunks[l].exec /\ hunks[n].file < hunks[l].file)
              => hunks[n].addr + hunks[n].size <= hunks[l].addr
      <3> SUFFICES ASSUME NEW n \in DOMAIN hunks, NEW l \in DOMAIN hunks,
                          hunks[n].exec, hunks[l].exec,
                          hunks[n].file < hunks[l].file
                   PROVE  hunks[n].addr + hunks[n].size <= hunks[l].addr
        OBVIOUS
      <3>1. n \in Nat /\ l \in Nat /\ hunks[n].file \in Nat /\ hunks[l].file \in Nat
        BY HunkNumbers
      <3>2. ~(l < n) /\ l # n
        BY <2>1, <3>1 DEF InOrder
      <3>3. n < l
        BY <3>1, <3>2
      <3>4. QED
        BY <2>1, <2>3, <3>3 DEF InOrder
    <2>5. hunks[x].addr \in Int /\ hunks[x].size \in Nat /\ hunks[x].file \in Nat
          /\ hunks[x].addr > 0
      BY <2>1, HunkNumbers
    <2> HIDE DEF d
    <2>6. CASE hunks[x].file = d.file
      BY <2>2, <2>6 DEF CodeOf, d
    <2>7. CASE hunks[x].file # d.file
      <3>1. CASE d.highest = 0
        BY <2>1, <2>5, <2>7, <3>1 DEF d
      <3>2. CASE d.highest # 0
        <4>1. PICK a \in CodeOf(d.file), b \in CodeOf(d.file) :
                /\ d.lowest = hunks[a].addr + Virt
                /\ d.highest = hunks[b].addr + hunks[b].size + Virt
          BY <2>2, <3>2
        <4>2. /\ a \in DOMAIN hunks /\ hunks[a].file = d.file /\ hunks[a].exec
              /\ b \in DOMAIN hunks /\ hunks[b].file = d.file /\ hunks[b].exec
          BY DEF CodeOf
        <4>3. /\ hunks[a].addr \in Int
              /\ hunks[b].addr \in Int /\ hunks[b].size \in Nat
              /\ d.file \in Nat
          BY <4>2, HunkNumbers
        <4>4. CASE hunks[x].file < d.file
          <5>1. hunks[x].addr + hunks[x].size <= hunks[a].addr
            BY <2>4, <4>2, <4>4
          <5>2. hunks[x].addr + hunks[x].size + Virt <= d.lowest
            BY <2>1, <2>5, <4>1, <4>3, <5>1
          <5>3. QED
            BY <2>7, <5>2 DEF d
        <4>5. CASE d.file < hunks[x].file
          <5>1. hunks[b].addr + hunks[b].size <= hunks[x].addr
            BY <2>4, <4>2, <4>5
          <5>2. d.highest <= hunks[x].addr + Virt
            BY <2>1, <2>5, <4>1, <4>3, <5>1
          <5>3. QED
            BY <2>7, <5>2 DEF d
        <4>6. QED
          BY <2>5, <2>7, <4>3, <4>4, <4>5
      <3>3. QED
        BY <3>1, <3>2
    <2>8. QED
      BY <2>6, <2>7
  <1>2. QED
    BY <1>1, BooksInductive, PTL

-----------------------------------------------------------------------------
(* The relocations made.                                                   *)

\* The sections that relocate hunk n.
Relas(n) ==
  {y \in DOMAIN files[hunks[n].file].sh :
     /\ files[hunks[n].file].sh[y].type = "rela"
     /\ files[hunks[n].file].sh[y].info = hunks[n].sec}

\* Relocation m of section y of file f was made.
Done(f, y, m) ==
  \/ f < k
  \/ f = k /\ \/ pc \in {"next", "jumped"}
              \/ pc = "relocs" /\ (y < i \/ (y = i /\ m < j))

\* What is v, in the field at p, when the symbol of r is at a.
Right(v, r, p, a) ==
  /\ r.type = "addr32" => v = a % Word
  /\ r.type = "lo" => v = (a % Word) % Half
  /\ r.type = "ha" => v = HighHalf(a % Word)
  /\ (r.type = "rel32" /\ r.sym.kind = "section") => v = (a - Virt - p) % Word
  /\ (r.type = "rel24" /\ r.sym.kind = "section")
       => v = Rounded(((a - Virt - p) % Word) % (2 * Reach), 4)

Holds(n, r) ==
  LET p == hunks[n].addr + r.offset
  IN  r.type # "none" =>
        /\ p \in DOMAIN mem
        /\ \A a \in Meant(hunks[n].file, r) : Right(mem[p], r, p, a)

AllWellFormed == \A f \in DOMAIN files : WellFormed(files[f])

\* Every relocation made is still there.
Stored ==
  (fits /\ AllWellFormed) =>
    \A n \in DOMAIN hunks : \A y \in Relas(n) :
      \A m \in DOMAIN files[hunks[n].file].sh[y].relocs :
        Done(hunks[n].file, y, m) =>
          Holds(n, files[hunks[n].file].sh[y].relocs[m])

\* The loops count from 1.
Counting == i >= 1 /\ j >= 1

LEMMA RelocType ==
  ASSUME files \in Boots, NEW f \in DOMAIN files, NEW y \in DOMAIN files[f].sh,
         NEW m \in DOMAIN files[f].sh[y].relocs
  PROVE  LET r == files[f].sh[y].relocs[m]
         IN  /\ r.offset \in Nat /\ r.addend \in Int
             /\ r.sym.value \in Nat /\ r.sym.section \in Nat
             /\ r.type \in {"addr32", "lo", "ha", "rel24", "rel32", "none", "unknown"}
             /\ r.sym.kind \in {"section", "undef", "common", "abs", "sysbase"}
             /\ m \in Nat /\ m >= 1 /\ y \in Nat /\ y >= 1
             /\ Len(files[f].sh) \in Nat
             /\ DOMAIN files[f].sh = 1 .. Len(files[f].sh)
             /\ Len(files[f].sh[y].relocs) \in Nat
             /\ DOMAIN files[f].sh[y].relocs = 1 .. Len(files[f].sh[y].relocs)
  <1>1. files \in Seq(File)
    BY BootAssumption
  <1>2. files[f] \in File
    BY <1>1
  <1>3. files[f].sh \in Seq(Section)
    BY <1>2 DEF File
  <1>4. files[f].sh[y] \in Section
    BY <1>3
  <1>5. files[f].sh[y].relocs \in Seq(Reloc)
    BY <1>4 DEF Section
  <1>6. PICK r : r = files[f].sh[y].relocs[m]
    OBVIOUS
  <1>7. r \in Reloc
    BY <1>5, <1>6
  <1>8. /\ r.offset \in Nat /\ r.addend \in Int /\ r.sym \in Symbol
        /\ r.type \in {"addr32", "lo", "ha", "rel24", "rel32", "none", "unknown"}
    BY <1>7 DEF Reloc
  <1>9. /\ r.sym.value \in Nat /\ r.sym.section \in Nat
        /\ r.sym.kind \in {"section", "undef", "common", "abs", "sysbase"}
    BY <1>8 DEF Symbol
  <1>10. /\ Len(files[f].sh) \in Nat
         /\ DOMAIN files[f].sh = 1 .. Len(files[f].sh)
         /\ Len(files[f].sh[y].relocs) \in Nat
         /\ DOMAIN files[f].sh[y].relocs = 1 .. Len(files[f].sh[y].relocs)
    BY <1>3, <1>5
  <1>11. m \in Nat /\ m >= 1 /\ y \in Nat /\ y >= 1
    BY <1>10
  <1>12. QED
    BY <1>6, <1>8, <1>9, <1>10, <1>11

\* A field relocated lies in its hunk.
LEMMA SiteInHunk ==
  ASSUME IInv, HunksAreSections, AllWellFormed,
         NEW n \in DOMAIN hunks, NEW y \in Relas(n),
         NEW m \in DOMAIN files[hunks[n].file].sh[y].relocs
  PROVE  /\ hunks[n].file \in DOMAIN files /\ hunks[n].file \in 1 .. k
         /\ hunks[n].file \in Nat /\ k \in Nat
         /\ y \in DOMAIN files[hunks[n].file].sh
         /\ files[hunks[n].file].sh[y].relocs[m].offset \in Nat
         /\ files[hunks[n].file].sh[y].relocs[m].offset < hunks[n].size
  <1>1. PICK f : f = hunks[n].file
    OBVIOUS
  <1>2. /\ f \in 1 .. k /\ hunks[n].sec \in DOMAIN files[f].sh
        /\ hunks[n].size = files[f].sh[hunks[n].sec].size
    BY <1>1 DEF HunksAreSections
  <1>3. files \in Seq(File) /\ k \in DOMAIN files /\ files \in Boots
    BY BootAssumption DEF IInv, TypeOK
  <1>4. f \in DOMAIN files /\ f \in Nat /\ k \in Nat
    BY <1>2, <1>3
  <1>5. y \in DOMAIN files[f].sh /\ files[f].sh[y].type = "rela"
        /\ files[f].sh[y].info = hunks[n].sec
    BY <1>1 DEF Relas
  <1>6. m \in DOMAIN files[f].sh[y].relocs
    BY <1>1
  <1>7. hunks[n].size \in Nat /\ hunks[n].size > 0
    BY HunkNumbers
  <1>8. files[f].sh[y].relocs[m].offset \in Nat
    BY <1>3, <1>4, <1>5, <1>6, RelocType
  <1>9. WellFormed(files[f])
    BY <1>4 DEF AllWellFormed
  <1>10. ~Empty(files[f].sh[hunks[n].sec])
    BY <1>2, <1>7 DEF Empty
  <1>11. files[f].sh[y].relocs[m].offset < files[f].sh[hunks[n].sec].size
    BY <1>2, <1>5, <1>6, <1>9, <1>10 DEF WellFormed
  <1>12. QED
    BY <1>1, <1>2, <1>4, <1>5, <1>8, <1>11

\* What is stored after a step that changes no hunk and no file.
LEMMA StoredAgain ==
  ASSUME UNCHANGED <<files, hunks, fits>>,
         fits /\ AllWellFormed =>
           \A n \in DOMAIN hunks : \A y \in Relas(n) :
             \A m \in DOMAIN files[hunks[n].file].sh[y].relocs :
               Done(hunks[n].file, y, m)' =>
                 Holds(n, files[hunks[n].file].sh[y].relocs[m])'
  PROVE  Stored'
  <1>1. files' = files /\ hunks' = hunks /\ fits' = fits
    OBVIOUS
  <1>2. AllWellFormed' <=> AllWellFormed
    BY ONLY <1>1 DEF AllWellFormed
  <1>3. \A n : Relas(n)' = Relas(n)
    BY ONLY <1>1 DEF Relas
  <1>4. QED
    BY <1>1, <1>2, <1>3 DEF Stored

\* Steps that store nothing and finish no relocation of a hunk.
LEMMA QuietStored ==
  ASSUME Stored, UNCHANGED <<files, hunks, fits, mem>>,
         \A n \in DOMAIN hunks : \A y \in Relas(n) :
           \A m \in DOMAIN files[hunks[n].file].sh[y].relocs :
             fits /\ AllWellFormed /\ Done(hunks[n].file, y, m)'
               => Done(hunks[n].file, y, m)
  PROVE  Stored'
  <1> SUFFICES ASSUME fits, AllWellFormed, NEW n \in DOMAIN hunks, NEW y \in Relas(n),
                      NEW m \in DOMAIN files[hunks[n].file].sh[y].relocs,
                      Done(hunks[n].file, y, m)'
               PROVE  Holds(n, files[hunks[n].file].sh[y].relocs[m])'
    BY StoredAgain
  <1>1. Holds(n, files[hunks[n].file].sh[y].relocs[m])
    BY DEF Stored
  <1>2. PICK r : r = files[hunks[n].file].sh[y].relocs[m]
    OBVIOUS
  <1>3. Meant(hunks[n].file, r)' = Meant(hunks[n].file, r)
    BY DEF Meant, HunkOf
  <1>4. Holds(n, r)'
    BY <1>1, <1>2, <1>3 DEF Holds
  <1>5. QED
    BY <1>2, <1>4

LEMMA CountingStep ==
  ASSUME IInv, Counting, [Next]_vars
  PROVE  Counting'
  <1>1. i \in Nat /\ j \in Nat
    BY DEF IInv, TypeOK
  <1>2. /\ i' \in {i, 1, i + 1} /\ j' \in {j, 1, j + 1}
    BY DEF Next, CheckHeader, LoadHunk, PassSection, HunksLoaded, Relocate,
       RelocateFails, Relocated, Register, NextModule, ModuleMissing, Jump,
       vars, place
  <1>3. QED
    BY <1>1, <1>2 DEF Counting

\* A hunk loaded lies clear of the fields relocated before.
LEMMA StoredHunk ==
  ASSUME Stored, Books, IInv, IInv', LoadHunk
  PROVE  Stored'
  <1>1. PICK h \in Hunk :
          /\ h.file = k
          /\ Len(hunks) \in Nat /\ DOMAIN hunks = 1 .. Len(hunks)
          /\ DOMAIN hunks' = 1 .. (Len(hunks) + 1)
          /\ hunks'[Len(hunks) + 1] = h
          /\ \A n \in 1 .. Len(hunks) : hunks'[n] = hunks[n]
          /\ mem' = [x \in DOMAIN mem \ (h.addr .. (h.addr + h.size - 1)) |-> mem[x]]
          /\ fits' => fits
    <2>1. PICK h \in Hunk : Loads(h)
      BY OneMore
    <2>2. QED
      BY ONLY <2>1 DEF Loads
  <1>2. pc = "hunks" /\ UNCHANGED <<pc, k, files>>
    BY DEF LoadHunk
  <1>3. HunksAreSections
    BY DEF Books
  <1> SUFFICES ASSUME fits', AllWellFormed, NEW n \in DOMAIN hunks',
                      NEW y, y \in Relas(n)',
                      NEW m \in DOMAIN files[hunks'[n].file].sh[y].relocs,
                      Done(hunks[n].file, y, m)'
               PROVE  Holds(n, files[hunks[n].file].sh[y].relocs[m])'
    BY <1>2 DEF Stored, AllWellFormed
  <1>4. k \in Nat
    <2>1. files \in Seq(File) /\ k \in DOMAIN files
      BY BootAssumption DEF IInv, TypeOK
    <2>2. QED
      BY <2>1
  <1>5. hunks'[n].file < k
    BY <1>2 DEF Done
  <1>6. n \in DOMAIN hunks /\ hunks'[n] = hunks[n]
    <2>1. n # Len(hunks) + 1
      BY <1>1, <1>4, <1>5
    <2>2. QED
      BY <1>1, <2>1
  <1>7. y \in Relas(n) /\ m \in DOMAIN files[hunks[n].file].sh[y].relocs
    BY <1>2, <1>6 DEF Relas
  <1>8. PICK r : r = files[hunks[n].file].sh[y].relocs[m]
    OBVIOUS
  <1>9. Holds(n, r)
    <2>1. Done(hunks[n].file, y, m)
      BY <1>5, <1>6 DEF Done
    <2>2. QED
      BY <1>1, <1>6, <1>7, <1>8, <2>1 DEF Stored
  <1>10. PICK f : f = hunks[n].file
    OBVIOUS
  <1>11. Meant(f, r)' = Meant(f, r)
    <2>1. \A s : HunkOf(f, s)' = HunkOf(f, s)
      <3> SUFFICES ASSUME NEW s
                   PROVE  HunkOf(f, s)' = HunkOf(f, s)
        OBVIOUS
      <3>1. h.file # f
        BY <1>1, <1>4, <1>5, <1>6, <1>10
      <3>2. {x \in DOMAIN hunks' : hunks'[x].file = f /\ hunks'[x].sec = s}
              = {x \in DOMAIN hunks : hunks[x].file = f /\ hunks[x].sec = s}
        BY <1>1, <3>1
      <3>3. \A x \in DOMAIN hunks : hunks'[x] = hunks[x]
        BY <1>1
      <3>4. QED
        BY <3>2, <3>3 DEF HunkOf
    <2>2. QED
      BY <2>1 DEF Meant
  <1>12. PICK p : p = hunks[n].addr + r.offset
    OBVIOUS
  <1>13. p \notin h.addr .. (h.addr + h.size - 1)
    <2>1. r.offset \in Nat /\ r.offset < hunks[n].size
      BY <1>3, <1>6, <1>7, <1>8, SiteInHunk
    <2>2. Len(hunks) + 1 \in DOMAIN hunks' /\ n \in DOMAIN hunks' /\ n # Len(hunks) + 1
      BY <1>1, <1>6
    <2>3. Apart(hunks[n], h)
      BY <1>1, <1>6, <2>2 DEF IInv, HunksApart
    <2>4. h.addr \in Int /\ h.size \in Nat /\ hunks[n].addr \in Int /\ hunks[n].size \in Nat
      BY <1>6, HunkNumbers DEF Hunk
    <2>5. QED
      BY <1>12, <2>1, <2>3, <2>4 DEF Apart
  <1>14. r.type # "none" => p \in DOMAIN mem' /\ mem'[p] = mem[p]
    BY <1>1, <1>9, <1>12, <1>13 DEF Holds
  <1>15. Holds(n, r)'
    BY <1>6, <1>9, <1>10, <1>11, <1>12, <1>14 DEF Holds, Right
  <1>16. files'[hunks'[n].file].sh[y].relocs[m] = r
    BY <1>2, <1>6, <1>8
  <1>17. QED
    BY <1>15, <1>16

\* What the field of one relocation gets is what is meant.
LEMMA FieldRight ==
  ASSUME Books, IInv, pc = "relocs", fits, AllWellFormed,
         NEW r, r.addend \in Int, r.sym.value \in Nat,
         r.type \in {"addr32", "lo", "ha", "rel24", "rel32"},
         r.sym.kind \in {"section", "abs", "sysbase"},
         r.sym.kind = "section" /\ r.sym.section \in DOMAIN sh =>
           sh[r.sym.section].type # "rela",
         NEW p \in Int, NEW a \in Meant(k, r)
  PROVE  Right(Field(r, p), r, p, a)
  <1>1. Virt \in Nat /\ Addresses /\ HunksAreSections
    BY PlaceAssumption DEF Books
  <1>2. CASE r.sym.kind = "sysbase"
    <2>1. a = 4 + r.addend
      BY <1>2 DEF Meant
    <2>2. Value(r.sym) = 4 /\ Shift(r.sym) = 0
      BY <1>2 DEF Value, Shift
    <2>3. Value(r.sym) + r.addend + Shift(r.sym) = a
      BY <2>1, <2>2
    <2>4. QED
      BY <1>2, <2>3 DEF Field, Right
  <1>3. CASE r.sym.kind = "section"
    <2>1. PICK q \in DOMAIN hunks :
            /\ hunks[q].file = k /\ hunks[q].sec = r.sym.section
            /\ a = hunks[q].addr + Virt + r.sym.value + r.addend
      BY <1>3 DEF Meant, HunkOf
    <2>2. addr[r.sym.section] = hunks[q].addr
      <3>1. r.sym.section \in DOMAIN sh
        BY <1>1, <2>1 DEF HunksAreSections, sh
      <3>2. QED
        BY <1>1, <1>3, <2>1, <3>1 DEF Addresses
    <2>3. hunks[q].addr \in Int
      BY HunkNumbers
    <2>4. Value(r.sym) = hunks[q].addr + r.sym.value /\ Shift(r.sym) = Virt
      BY <1>3, <2>2 DEF Value, Shift
    <2>5. /\ Value(r.sym) + r.addend + Shift(r.sym) = a
          /\ Value(r.sym) + r.addend - p = a - Virt - p
      BY <1>1, <2>1, <2>3, <2>4
    <2>6. QED
      BY <2>5 DEF Field, Right
  <1>4. QED
    BY <1>2, <1>3 DEF Meant

\* What a well formed file says, with its abbreviations expanded.
LEMMA WellFormedIs ==
  ASSUME NEW file, WellFormed(file)
  PROVE  /\ \A y \in {z \in DOMAIN file.sh :
                      file.sh[z].type = "rela" /\ file.sh[z].info \in DOMAIN file.sh} :
              \A n \in DOMAIN file.sh[y].relocs :
                (/\ file.sh[y].relocs[n].sym.kind = "section"
                 /\ file.sh[y].relocs[n].sym.section \in DOMAIN file.sh) =>
                   file.sh[file.sh[y].relocs[n].sym.section].type # "rela"
         /\ \A y, z \in {x \in DOMAIN file.sh :
                         file.sh[x].type = "rela" /\ file.sh[x].info \in DOMAIN file.sh} :
              \A n \in DOMAIN file.sh[y].relocs, m \in DOMAIN file.sh[z].relocs :
                (/\ file.sh[y].info = file.sh[z].info
                 /\ file.sh[y].relocs[n].offset = file.sh[z].relocs[m].offset
                 /\ file.sh[y].relocs[n].type # "none"
                 /\ file.sh[z].relocs[m].type # "none") => y = z /\ n = m
  BY Zenon DEF WellFormed

\* A relocation stores what is meant, and in no field relocated before.
LEMMA StoredRelocate ==
  ASSUME Stored, Books, IInv, Relocate
  PROVE  Stored'
  <1>1. /\ pc = "relocs" /\ i \in DOMAIN sh /\ sh[i].type = "rela"
        /\ sh[i].info \in DOMAIN sh /\ addr[sh[i].info] # 0
        /\ j \in DOMAIN sh[i].relocs /\ ~Unresolved(sh[i].relocs[j])
        /\ j' = j + 1
        /\ UNCHANGED <<files, k, pc, i, addr, hunks, fits>>
    BY DEF Relocate, Relocating, InMemory, place
  <1>2. /\ HunksAreSections /\ OnePerSection /\ Addresses /\ AboveZero
        /\ Virt \in Nat /\ files \in Boots /\ k \in DOMAIN files
        /\ i \in Nat /\ j \in Nat /\ k \in Nat
    <2>1. files \in Seq(File) /\ k \in DOMAIN files
      BY BootAssumption DEF IInv, TypeOK
    <2>2. QED
      BY <2>1, PlaceAssumption DEF Books, IInv, TypeOK
  <1> SUFFICES ASSUME fits, AllWellFormed, NEW n \in DOMAIN hunks,
                      NEW y \in Relas(n),
                      NEW m \in DOMAIN files[hunks[n].file].sh[y].relocs,
                      Done(hunks[n].file, y, m)'
               PROVE  Holds(n, files[hunks[n].file].sh[y].relocs[m])'
    BY <1>1, StoredAgain
  <1>3. WellFormed(files[k])
    BY <1>2 DEF AllWellFormed
  <1>4. sh[sh[i].info].type \notin {"table", "rela"}
    BY <1>1, <1>3 DEF WellFormed, sh
  <1>5. PICK c \in DOMAIN hunks : hunks[c].file = k /\ hunks[c].sec = sh[i].info
    BY <1>1, <1>2, <1>4 DEF Addresses
  <1>6. addr[sh[i].info] = hunks[c].addr
    BY <1>1, <1>2, <1>4, <1>5 DEF Addresses
  <1>7. i \in Relas(c) /\ j \in DOMAIN files[hunks[c].file].sh[i].relocs
    BY <1>1, <1>5 DEF Relas, sh
  <1>8. PICK q : q = sh[i].relocs[j]
    OBVIOUS
  <1>9. /\ q.offset \in Nat /\ q.offset < hunks[c].size
        /\ q.addend \in Int /\ q.sym.value \in Nat
        /\ q.type \in {"addr32", "lo", "ha", "rel24", "rel32", "none", "unknown"}
        /\ q.sym.kind \in {"section", "undef", "common", "abs", "sysbase"}
    <2>1. files[hunks[c].file].sh[i].relocs[j] = q
      BY <1>5, <1>8 DEF sh
    <2>2. q.offset \in Nat /\ q.offset < hunks[c].size
      BY <1>2, <1>7, <2>1, SiteInHunk
    <2>3. i \in DOMAIN files[k].sh /\ j \in DOMAIN files[k].sh[i].relocs
          /\ q = files[k].sh[i].relocs[j]
      BY <1>1, <1>8 DEF sh
    <2>4. QED
      BY <1>2, <2>2, <2>3, RelocType
  <1>10. /\ hunks[c].addr \in Int /\ hunks[c].size \in Nat /\ hunks[c].addr > 0
         /\ hunks[c].addr + hunks[c].size < Word - Virt
    BY <1>2, HunkNumbers
  <1>11. PICK P : P = hunks[c].addr + q.offset
    OBVIOUS
  <1>12. P \in Int /\ (addr[sh[i].info] + q.offset) % Word = P
    <2>1. P \in 0 .. (Word - 1)
      BY <1>2, <1>9, <1>10, <1>11, WordNat
    <2>2. QED
      BY <1>6, <1>9, <1>10, <1>11, <2>1, Fitting
  <1>13. mem' = IF q.type = "none" THEN mem
                ELSE [x \in DOMAIN mem \cup {P} |->
                        IF x = P THEN Field(q, P) ELSE mem[x]]
    BY <1>8, <1>12 DEF Relocate
  <1>14. PICK r : r = files[hunks[n].file].sh[y].relocs[m]
    OBVIOUS
  <1>15. PICK f : f = hunks[n].file
    OBVIOUS
  <1>16. Meant(f, r)' = Meant(f, r)
    BY <1>1 DEF Meant, HunkOf
  <1>17. PICK p : p = hunks[n].addr + r.offset
    OBVIOUS
  <1>18. /\ r.offset \in Nat /\ r.offset < hunks[n].size
         /\ y \in DOMAIN files[f].sh /\ m \in Nat /\ y \in Nat /\ f \in Nat
         /\ hunks[n].addr \in Int /\ hunks[n].size \in Nat
    <2>1. /\ r.offset \in Nat /\ r.offset < hunks[n].size
          /\ f \in DOMAIN files /\ y \in DOMAIN files[f].sh /\ f \in Nat
      BY <1>2, <1>14, <1>15, SiteInHunk
    <2>2. m \in Nat /\ y \in Nat
      BY <1>2, <1>15, <2>1, RelocType
    <2>3. QED
      BY <2>1, <2>2, HunkNumbers
  <1>19. CASE f = k /\ y = i /\ m = j
    <2>1. r = q
      BY <1>8, <1>14, <1>15, <1>19 DEF sh
    <2>2. n = c
      <3>1. hunks[n].sec = hunks[c].sec
        BY <1>5, <1>15, <1>19 DEF Relas, sh
      <3>2. QED
        BY <1>2, <1>5, <1>15, <1>19, <3>1 DEF OnePerSection
    <2>3. p = P
      BY <1>11, <1>17, <2>1, <2>2
    <2>4. CASE r.type = "none"
      BY <1>14, <1>1, <2>4 DEF Holds
    <2>5. CASE r.type # "none"
      <3>1. p \in DOMAIN mem' /\ mem'[p] = Field(q, P)
        BY <1>13, <2>1, <2>3, <2>5
      <3>2. /\ q.type \in {"addr32", "lo", "ha", "rel24", "rel32"}
            /\ q.sym.kind \in {"section", "abs", "sysbase"}
        BY <1>1, <1>8, <1>9, <2>1, <2>5 DEF Unresolved
      <3>2a. q.sym.kind = "section" /\ q.sym.section \in DOMAIN sh =>
               sh[q.sym.section].type # "rela"
        <4>1. PICK file : file = files[k]
          OBVIOUS
        <4>2. k \in DOMAIN files /\ WellFormed(file)
          BY <1>2, <1>3, <4>1
        <4>3. /\ i \in DOMAIN file.sh /\ file.sh[i].type = "rela"
              /\ file.sh[i].info \in DOMAIN file.sh
              /\ j \in DOMAIN file.sh[i].relocs /\ q = file.sh[i].relocs[j]
          BY <1>1, <1>8, <4>1 DEF sh
        <4>4. q.sym.kind = "section" /\ q.sym.section \in DOMAIN file.sh =>
                file.sh[q.sym.section].type # "rela"
          <5>1. \A v \in {x \in DOMAIN file.sh :
                          /\ file.sh[x].type = "rela"
                          /\ file.sh[x].info \in DOMAIN file.sh} :
                  \A a \in DOMAIN file.sh[v].relocs :
                    (/\ file.sh[v].relocs[a].sym.kind = "section"
                     /\ file.sh[v].relocs[a].sym.section \in DOMAIN file.sh) =>
                       file.sh[file.sh[v].relocs[a].sym.section].type # "rela"
            BY ONLY <4>2, WellFormedIs
          <5>2. QED
            BY ONLY <4>3, <5>1
        <4>5. QED
          BY ONLY <4>1, <4>4 DEF sh
      <3>3. \A a \in Meant(k, q) : Right(Field(q, P), q, P, a)
        BY <1>1, <1>9, <1>12, <3>2, <3>2a, FieldRight
      <3>4. Holds(n, r)'
        BY <1>1, <1>15, <1>16, <1>17, <1>19, <2>1, <2>3, <3>1, <3>3 DEF Holds, Right
      <3>5. QED
        BY <1>1, <1>14, <3>4
    <2>6. QED
      BY <2>4, <2>5
  <1>20. CASE ~(f = k /\ y = i /\ m = j)
    <2>1. Done(f, y, m)
      BY <1>1, <1>2, <1>15, <1>18, <1>20 DEF Done
    <2>2. Holds(n, r)
      BY <1>14, <1>15, <2>1 DEF Stored
    <2>3. ASSUME q.type # "none", r.type # "none" PROVE p # P
      <3>1. CASE n = c
        <4>1. f = k
          BY <1>5, <1>15, <3>1
        <4>2. /\ y \in DOMAIN files[k].sh /\ files[k].sh[y].type = "rela"
              /\ files[k].sh[y].info = hunks[c].sec
              /\ i \in DOMAIN files[k].sh /\ files[k].sh[i].type = "rela"
              /\ files[k].sh[i].info = hunks[c].sec
              /\ hunks[c].sec \in DOMAIN files[k].sh
              /\ m \in DOMAIN files[k].sh[y].relocs /\ r = files[k].sh[y].relocs[m]
              /\ j \in DOMAIN files[k].sh[i].relocs /\ q = files[k].sh[i].relocs[j]
          BY <1>1, <1>5, <1>8, <1>14, <1>15, <3>1, <4>1 DEF Relas, sh
        <4>3. r.offset # q.offset
          <5>1. \A v, w \in {x \in DOMAIN files[k].sh :
                             /\ files[k].sh[x].type = "rela"
                             /\ files[k].sh[x].info \in DOMAIN files[k].sh} :
                  \A a \in DOMAIN files[k].sh[v].relocs, b \in DOMAIN files[k].sh[w].relocs :
                    (/\ files[k].sh[v].info = files[k].sh[w].info
                     /\ files[k].sh[v].relocs[a].offset = files[k].sh[w].relocs[b].offset
                     /\ files[k].sh[v].relocs[a].type # "none"
                     /\ files[k].sh[w].relocs[b].type # "none") => v = w /\ a = b
            BY ONLY <1>3, WellFormedIs
          <5>2. QED
            BY ONLY <1>20, <2>3, <4>1, <4>2, <5>1
        <4>4. QED
          BY <1>9, <1>10, <1>11, <1>17, <1>18, <3>1, <4>3
      <3>2. CASE n # c
        <4>1. Apart(hunks[n], hunks[c])
          BY <3>2 DEF IInv, HunksApart
        <4>2. QED
          BY <1>9, <1>10, <1>11, <1>17, <1>18, <4>1 DEF Apart
      <3>3. QED
        BY <3>1, <3>2
    <2>4. r.type # "none" => p \in DOMAIN mem' /\ mem'[p] = mem[p]
      BY <1>13, <1>17, <2>2, <2>3 DEF Holds
    <2>5. Holds(n, r)'
      BY <1>1, <1>15, <1>16, <1>17, <2>2, <2>4 DEF Holds, Right
    <2>6. QED
      BY <1>1, <1>14, <2>5
  <1>21. QED
    BY <1>19, <1>20

LEMMA StoredStep ==
  ASSUME Stored, Counting, Books, IInv, IInv', [Next]_vars
  PROVE  Stored'
  <1>1. /\ HunksAreSections /\ Addresses /\ AboveZero
        /\ files \in Boots /\ k \in DOMAIN files /\ k \in Nat
        /\ i \in Nat /\ j \in Nat /\ i >= 1 /\ j >= 1
    <2>1. files \in Seq(File) /\ k \in DOMAIN files
      BY BootAssumption DEF IInv, TypeOK
    <2>2. QED
      BY <2>1 DEF Books, IInv, TypeOK, Counting
  <1>2. ASSUME AllWellFormed, NEW n \in DOMAIN hunks, NEW y \in Relas(n),
               NEW m \in DOMAIN files[hunks[n].file].sh[y].relocs
        PROVE  /\ hunks[n].file \in 1 .. k /\ hunks[n].file \in Nat
               /\ y \in DOMAIN files[hunks[n].file].sh
               /\ y \in Nat /\ y >= 1 /\ m \in Nat /\ m >= 1
               /\ DOMAIN files[hunks[n].file].sh = 1 .. Len(files[hunks[n].file].sh)
               /\ Len(files[hunks[n].file].sh) \in Nat
               /\ DOMAIN files[hunks[n].file].sh[y].relocs
                    = 1 .. Len(files[hunks[n].file].sh[y].relocs)
               /\ Len(files[hunks[n].file].sh[y].relocs) \in Nat
    <2>1. /\ hunks[n].file \in DOMAIN files /\ hunks[n].file \in 1 .. k
          /\ hunks[n].file \in Nat /\ y \in DOMAIN files[hunks[n].file].sh
      BY <1>1, <1>2, SiteInHunk
    <2>2. PICK f : f = hunks[n].file
      OBVIOUS
    <2>3. f \in DOMAIN files /\ y \in DOMAIN files[f].sh
          /\ m \in DOMAIN files[f].sh[y].relocs
      BY <2>1, <2>2
    <2>4. /\ y \in Nat /\ y >= 1 /\ m \in Nat /\ m >= 1
          /\ DOMAIN files[f].sh = 1 .. Len(files[f].sh)
          /\ Len(files[f].sh) \in Nat
          /\ DOMAIN files[f].sh[y].relocs = 1 .. Len(files[f].sh[y].relocs)
          /\ Len(files[f].sh[y].relocs) \in Nat
      BY <1>1, <2>3, RelocType
    <2>5. QED
      BY <2>1, <2>2, <2>4
  <1>3. CASE CheckHeader \/ PassSection
    <2>1. /\ UNCHANGED <<files, k, hunks, fits, mem>>
          /\ pc' \in {"hunks", "failed"}
      BY <1>3 DEF CheckHeader, PassSection, place
    <2>2. QED
      BY <2>1, QuietStored DEF Done
  <1>4. CASE HunksLoaded
    <2>1. /\ UNCHANGED <<files, k, hunks, fits, mem>>
          /\ pc' = "relocs" /\ i' = 1 /\ j' = 1
      BY <1>4 DEF HunksLoaded, place
    <2>2. \A n \in DOMAIN hunks : \A y \in Relas(n) :
            \A m \in DOMAIN files[hunks[n].file].sh[y].relocs :
              fits /\ AllWellFormed /\ Done(hunks[n].file, y, m)'
                => Done(hunks[n].file, y, m)
      <3> SUFFICES ASSUME NEW n \in DOMAIN hunks, NEW y \in Relas(n),
                          NEW m \in DOMAIN files[hunks[n].file].sh[y].relocs,
                          AllWellFormed, Done(hunks[n].file, y, m)'
                   PROVE  Done(hunks[n].file, y, m)
        OBVIOUS
      <3>1. y \in Nat /\ y >= 1 /\ m \in Nat /\ m >= 1
        BY <1>2
      <3>2. QED
        BY <2>1, <3>1 DEF Done
    <2>3. QED
      BY <2>1, <2>2, QuietStored
  <1>5. CASE RelocateFails \/ ModuleMissing \/ Jump
    <2>1. /\ UNCHANGED <<files, k, hunks, fits, mem>>
          /\ pc' \in {"failed", "jumped"} /\ (pc' = "jumped" => pc = "next")
      BY <1>5 DEF RelocateFails, ModuleMissing, Jump, place
    <2>2. QED
      BY <2>1, QuietStored DEF Done
  <1>6. CASE Relocated
    <2>1. /\ UNCHANGED <<files, k, hunks, fits, mem>>
          /\ pc = "relocs" /\ pc' = "relocs" /\ i' = i + 1 /\ j' = 1
          /\ i \in DOMAIN sh
          /\ ~InMemory(sh[i]) \/ j \notin DOMAIN sh[i].relocs
      BY <1>6 DEF Relocated, place
    <2>2. \A n \in DOMAIN hunks : \A y \in Relas(n) :
            \A m \in DOMAIN files[hunks[n].file].sh[y].relocs :
              fits /\ AllWellFormed /\ Done(hunks[n].file, y, m)'
                => Done(hunks[n].file, y, m)
      <3> SUFFICES ASSUME NEW n \in DOMAIN hunks, NEW y \in Relas(n),
                          NEW m \in DOMAIN files[hunks[n].file].sh[y].relocs,
                          fits, AllWellFormed, Done(hunks[n].file, y, m)'
                   PROVE  Done(hunks[n].file, y, m)
        OBVIOUS
      <3>1. /\ y \in Nat /\ y >= 1 /\ m \in Nat /\ m >= 1
            /\ hunks[n].file \in Nat
            /\ DOMAIN files[hunks[n].file].sh[y].relocs
                 = 1 .. Len(files[hunks[n].file].sh[y].relocs)
            /\ Len(files[hunks[n].file].sh[y].relocs) \in Nat
        BY <1>2
      <3>2. hunks[n].file < k \/ (hunks[n].file = k /\ y < i + 1)
        BY <1>1, <2>1, <3>1 DEF Done
      <3>3. CASE hunks[n].file < k \/ (hunks[n].file = k /\ y < i)
        BY <2>1, <3>3 DEF Done
      <3>4. CASE hunks[n].file = k /\ y = i
        <4>1. sh[i].type = "rela" /\ sh[i].info = hunks[n].sec
          BY <3>4 DEF Relas, sh
        <4>2. addr[hunks[n].sec] = hunks[n].addr /\ hunks[n].sec \in DOMAIN sh
          <5>1. hunks[n].sec \in DOMAIN sh
            BY <1>1, <3>4 DEF HunksAreSections, sh
          <5>2. WellFormed(files[k])
            BY <1>1 DEF AllWellFormed
          <5>3. sh[hunks[n].sec].type # "rela"
            <6>1. i \in DOMAIN sh /\ sh[i].info \in DOMAIN sh
              BY <2>1, <4>1, <5>1
            <6>2. sh[sh[i].info].type \notin {"table", "rela"}
              BY <4>1, <5>2, <6>1 DEF WellFormed, sh
            <6>3. QED
              BY <4>1, <6>2
          <5>4. QED
            BY <1>1, <2>1, <3>4, <5>1, <5>3 DEF Addresses
        <4>3. hunks[n].addr \in Int /\ hunks[n].addr > 0
          BY <1>1, HunkNumbers
        <4>4. InMemory(sh[i])
          BY <4>1, <4>2, <4>3 DEF InMemory
        <4>5. j \notin 1 .. Len(files[hunks[n].file].sh[y].relocs)
          BY <2>1, <3>1, <3>4, <4>4 DEF sh
        <4>6. m < j
          BY <1>1, <3>1, <4>5
        <4>7. QED
          BY <2>1, <3>4, <4>6 DEF Done
      <3>5. QED
        BY <1>1, <3>1, <3>2, <3>3, <3>4
    <2>3. QED
      BY <2>1, <2>2, QuietStored
  <1>7. CASE Register
    <2>1. /\ UNCHANGED <<files, k, hunks, fits, mem>>
          /\ pc = "relocs" /\ pc' = "next" /\ i \notin DOMAIN sh
      BY <1>7 DEF Register, place
    <2>2. \A n \in DOMAIN hunks : \A y \in Relas(n) :
            \A m \in DOMAIN files[hunks[n].file].sh[y].relocs :
              fits /\ AllWellFormed /\ Done(hunks[n].file, y, m)'
                => Done(hunks[n].file, y, m)
      <3> SUFFICES ASSUME NEW n \in DOMAIN hunks, NEW y \in Relas(n),
                          NEW m \in DOMAIN files[hunks[n].file].sh[y].relocs,
                          AllWellFormed, Done(hunks[n].file, y, m)'
                   PROVE  Done(hunks[n].file, y, m)
        OBVIOUS
      <3>1. /\ y \in DOMAIN files[hunks[n].file].sh
            /\ y \in Nat /\ y >= 1
            /\ DOMAIN files[hunks[n].file].sh = 1 .. Len(files[hunks[n].file].sh)
            /\ Len(files[hunks[n].file].sh) \in Nat
        BY <1>2
      <3>2. CASE hunks[n].file = k
        <4>1. i \notin 1 .. Len(files[k].sh)
          BY <2>1, <3>1, <3>2 DEF sh
        <4>2. y < i
          BY <1>1, <3>1, <3>2, <4>1
        <4>3. QED
          BY <2>1, <3>2, <4>2 DEF Done
      <3>3. CASE hunks[n].file # k
        BY <2>1, <3>3 DEF Done
      <3>4. QED
        BY <3>2, <3>3
    <2>3. QED
      BY <2>1, <2>2, QuietStored
  <1>8. CASE NextModule
    <2>1. /\ UNCHANGED <<files, hunks, fits, mem>> /\ k' = k + 1
          /\ pc = "next" /\ pc' = "header"
      BY <1>8 DEF NextModule, place
    <2>2. \A n \in DOMAIN hunks : \A y \in Relas(n) :
            \A m \in DOMAIN files[hunks[n].file].sh[y].relocs :
              fits /\ AllWellFormed /\ Done(hunks[n].file, y, m)'
                => Done(hunks[n].file, y, m)
      <3>1. \A n \in DOMAIN hunks : hunks[n].file \in 1 .. k
        BY <1>1 DEF HunksAreSections
      <3>2. \A n \in DOMAIN hunks : hunks[n].file < k \/ hunks[n].file = k
        BY <1>1, <3>1
      <3>3. QED
        BY <2>1, <3>2 DEF Done
    <2>3. QED
      BY <2>1, <2>2, QuietStored
  <1>9. CASE UNCHANGED vars
    <2>1. UNCHANGED <<files, k, pc, i, j, hunks, fits, mem>>
      BY <1>9 DEF vars, place
    <2>2. QED
      BY <2>1, QuietStored DEF Done
  <1>10. CASE LoadHunk
    BY <1>10, StoredHunk
  <1>11. CASE Relocate
    BY <1>11, StoredRelocate
  <1>12. QED
    BY <1>3, <1>4, <1>5, <1>6, <1>7, <1>8, <1>9, <1>10, <1>11 DEF Next

LEMMA StoredInductive == Spec => [](IInv /\ Books /\ Counting /\ Stored)
  <1>1. Init => Counting /\ Stored
    <2>1. Init => DOMAIN hunks = {}
      BY DEF Init
    <2>2. QED
      BY <2>1 DEF Init, Counting, Stored
  <1>2. IInv /\ Books /\ IInv' /\ Counting /\ Stored /\ [Next]_vars
          => (Counting /\ Stored)'
    BY CountingStep, StoredStep
  <1>3. QED
    BY <1>1, <1>2, BooksInductive, PTL DEF Spec

\* Division with remainder.
LEMMA DivMod ==
  ASSUME NEW x \in Int, NEW n \in Nat \ {0}
  PROVE  /\ x = n * (x \div n) + (x % n)
         /\ x \div n \in Int /\ x % n \in 0 .. (n - 1)
  BY SMT

LEMMA Remainder ==
  ASSUME NEW x \in Int, NEW n \in Nat \ {0}, NEW q \in Int, NEW r \in 0 .. (n - 1),
         x = n * q + r
  PROVE  x % n = r
  BY SMT

\* A number and its remainder differ by nothing but words.
LEMMA Congruent ==
  ASSUME NEW d \in Int
  PROVE  ((d % Word) - d) % Word = 0
  <1>1. PICK W \in Nat \ {0} : W = Word
    BY WordNat
  <1>2. PICK q \in Int, r \in 0 .. (W - 1) :
          q = d \div W /\ r = d % W /\ d = W * q + r
    BY DivMod
  <1>3. r - d = W * (-q) + 0
    BY <1>2, SMT
  <1>4. r - d \in Int /\ -q \in Int /\ 0 \in 0 .. (W - 1)
    BY <1>2
  <1>5. (r - d) % W = 0
    BY <1>3, <1>4, Remainder
  <1>6. QED
    BY <1>1, <1>2, <1>5

\* A distance that a branch can reach survives it.
LEMMA BranchReaches ==
  ASSUME NEW d \in -Reach .. (Reach - 1), (d % 4) = 0
  PROVE  Signed(Rounded((d % Word) % (2 * Reach), 4), 2 * Reach) = d
  <1>1. PICK M \in Nat \ {0} : M = 2 * Reach
    BY WordAssumption
  <1>2. PICK W \in Nat \ {0} : W = Word
    BY WordNat
  <1>3. (M % 4) = 0 /\ (W % M) = 0 /\ Reach \in Nat \ {0}
    BY <1>1, <1>2, WordAssumption, ReachAssumption
  <1>4. d \in Int /\ -Reach <= d /\ d < Reach
    BY <1>3
  <1>5. (d % W) % M = d % M
    <2>1. PICK w \in Int : W = M * w
      <3>1. W = M * (W \div M) + (W % M) /\ W \div M \in Int
        BY DivMod
      <3>2. QED
        BY <1>3, <3>1
    <2>2. PICK q \in Int, e \in 0 .. (W - 1) : e = d % W /\ d = W * q + e
      BY <1>4, DivMod
    <2>3. e \in Int
      OBVIOUS
    <2>a. /\ e = M * (e \div M) + (e % M)
          /\ e \div M \in Int /\ e % M \in 0 .. (M - 1)
      BY <2>3, DivMod
    <2>4. PICK f \in Int, g \in 0 .. (M - 1) : g = e % M /\ e = M * f + g
      BY <2>a
    <2>5. d = M * (w * q + f) + g
      BY <2>1, <2>2, <2>4, SMT
    <2>6. w * q + f \in Int
      OBVIOUS
    <2>7. d % M = g
      BY <1>4, <2>5, <2>6, Remainder
    <2>8. QED
      BY <2>2, <2>4, <2>7
  <1>6. PICK x : x = d % M
    OBVIOUS
  <1>7. x \in 0 .. (M - 1) /\ x % 4 = 0 /\ x = IF d >= 0 THEN d ELSE d + M
    <2>1. CASE d >= 0
      <3>1. d = M * 0 + d /\ d \in 0 .. (M - 1)
        BY <1>1, <1>3, <1>4, <2>1
      <3>2. x = d
        BY <1>4, <1>6, <3>1, Remainder
      <3>3. QED
        BY <2>1, <3>1, <3>2
    <2>2. CASE d < 0
      <3>1. d = M * (-1) + (d + M) /\ d + M \in 0 .. (M - 1)
        BY <1>1, <1>3, <1>4, <2>2
      <3>2. x = d + M
        BY <1>4, <1>6, <3>1, Remainder
      <3>3. (d + M) % 4 = 0
        BY <1>3, <1>4
      <3>4. QED
        BY <1>4, <2>2, <3>1, <3>2, <3>3
    <2>3. QED
      BY <1>4, <2>1, <2>2
  <1>8. Rounded(x, 4) = x
    BY <1>7 DEF Rounded
  <1>9. M \div 2 = Reach
    BY <1>1, <1>3
  <1>10. Signed(x, M) = d
    BY <1>1, <1>3, <1>4, <1>7, <1>9 DEF Signed
  <1>11. QED
    BY <1>1, <1>2, <1>5, <1>6, <1>8, <1>10

\* The two halves of an address make it up again.
LEMMA HalvesMeet ==
  ASSUME NEW a \in Int
  PROVE  ((HighHalf(a % Word) * Half + Signed((a % Word) % Half, Half) - a) % Word) = 0
  <1>1. PICK H \in Nat \ {0} : H = Half
    BY WordAssumption
  <1>2. PICK W \in Nat \ {0} : W = Word /\ W = H * H
    BY <1>1, WordNat DEF Word
  <1>3. PICK q \in Int, x \in 0 .. (W - 1) : x = a % W /\ a = W * q + x
    BY DivMod
  <1>4. x \in Int
    OBVIOUS
  <1>5. PICK h \in Int, l \in 0 .. (H - 1) :
          h = x \div H /\ l = x % H /\ x = H * h + l
    BY <1>4, DivMod
  <1>6. h \in 0 .. (H - 1)
    <2>1. h >= 0
      BY <1>3, <1>5, SMT
    <2>2. h < H
      BY <1>2, <1>3, <1>5, SMT
    <2>3. QED
      BY <2>1, <2>2
  <1>7. PICK c \in {0, 1} : c = Carry(x)
    BY DEF Carry
  <1>8. Signed(l, H) = l - c * H
    BY <1>1, <1>5, <1>7 DEF Signed, Carry
  <1>9. PICK v : v = HighHalf(x)
    OBVIOUS
  <1>10. v = (h + c) % H
    BY <1>1, <1>5, <1>7, <1>9 DEF HighHalf
  <1>11. PICK e : e = v * H + Signed(l, H) - a
    OBVIOUS
  <1>12. CASE h + c < H
    <2>1. v = h + c
      BY <1>6, <1>10, <1>12
    <2>2. e = W * (-q) + 0
      <3>1. e = (h + c) * H + (l - c * H) - a
        BY <1>8, <1>11, <2>1
      <3>2. (h + c) * H + (l - c * H) = H * h + l
        <4>1. CASE c = 0
          BY <4>1
        <4>2. CASE c = 1
          BY <4>2
        <4>3. QED
          BY <1>7, <4>1, <4>2
      <3>a. e = x - a
        BY <1>5, <3>1, <3>2
      <3>3. QED
        BY <1>3, <3>a, SMT
    <2>3. -q \in Int /\ e \in Int /\ 0 \in 0 .. (W - 1)
      BY <2>2
    <2>4. e % W = 0
      BY <2>2, <2>3, Remainder
    <2>5. QED
      BY <1>1, <1>2, <1>3, <1>5, <1>9, <1>11, <2>4
  <1>13. CASE h + c >= H
    <2>1. h + c = H /\ c = 1 /\ h = H - 1
      BY <1>6, <1>7, <1>13
    <2>2. v = 0
      <3>1. H = H * 1 + 0 /\ 0 \in 0 .. (H - 1)
        OBVIOUS
      <3>2. H % H = 0
        BY <3>1, Remainder
      <3>3. QED
        BY <1>10, <2>1, <3>2
    <2>3. e = W * (-q - 1) + 0
      <3>1. e = 0 * H + (l - 1 * H) - a
        BY <1>8, <1>11, <2>1, <2>2
      <3>2. x = H * (H - 1) + l
        BY <1>5, <2>1
      <3>3. x = W - H + l
        BY <1>2, <3>2, SMT
      <3>4. e = x - W - a
        BY <3>1, <3>3, SMT
      <3>5. QED
        BY <1>3, <3>4, SMT
    <2>4. -q - 1 \in Int /\ e \in Int /\ 0 \in 0 .. (W - 1)
      BY <2>3
    <2>5. e % W = 0
      BY <2>3, <2>4, Remainder
    <2>6. QED
      BY <1>1, <1>2, <1>3, <1>5, <1>9, <1>11, <2>5
  <1>14. QED
    BY <1>6, <1>7, <1>12, <1>13

\* In the end every field holds what its relocation meant.
LEMMA FieldStored ==
  ASSUME IInv, Books, Stored, pc = "jumped", fits, AllWellFormed,
         NEW f \in DOMAIN files, NEW x \in Fields(f)
  PROVE  /\ x[1] \in Int /\ x[2].addend \in Int /\ x[2].sym.value \in Nat
         /\ x[2].type # "none" =>
              \A a \in Meant(f, x[2]) : Right(mem[x[1]], x[2], x[1], a)
         /\ \A a \in Meant(f, x[2]) : a \in Int
  <1>1. PICK y \in DOMAIN files[f].sh :
          /\ files[f].sh[y].type = "rela"
          /\ x \in {<<h.addr + files[f].sh[y].relocs[m].offset,
                      files[f].sh[y].relocs[m]>> :
                      m \in DOMAIN files[f].sh[y].relocs,
                      h \in HunkOf(f, files[f].sh[y].info)}
    BY DEF Fields
  <1>2. PICK m \in DOMAIN files[f].sh[y].relocs, h \in HunkOf(f, files[f].sh[y].info) :
          x = <<h.addr + files[f].sh[y].relocs[m].offset, files[f].sh[y].relocs[m]>>
    BY <1>1
  <1>3. PICK n \in DOMAIN hunks :
          /\ hunks[n].file = f /\ hunks[n].sec = files[f].sh[y].info /\ h = hunks[n]
    BY <1>2 DEF HunkOf
  <1>4. PICK r : r = files[f].sh[y].relocs[m]
    OBVIOUS
  <1>5. y \in Relas(n) /\ m \in DOMAIN files[hunks[n].file].sh[y].relocs
    BY <1>1, <1>3 DEF Relas
  <1>6. HunksAreSections /\ files \in Boots /\ Virt \in Nat
    BY PlaceAssumption DEF Books, IInv
  <1>7. Done(hunks[n].file, y, m)
    <2>1. hunks[n].file \in 1 .. k /\ hunks[n].file \in Nat /\ k \in Nat
      BY <1>5, <1>6, SiteInHunk
    <2>2. hunks[n].file < k \/ hunks[n].file = k
      BY <2>1
    <2>3. QED
      BY <2>2 DEF Done
  <1>8. Holds(n, r)
    BY <1>3, <1>4, <1>5, <1>7 DEF Stored
  <1>9. r.offset \in Nat /\ r.addend \in Int /\ r.sym.value \in Nat
    BY <1>4, <1>6, RelocType
  <1>10. hunks[n].addr \in Int
    BY HunkNumbers
  <1>11. PICK p : p = hunks[n].addr + r.offset
    OBVIOUS
  <1>12. x[1] = p /\ x[2] = r /\ p \in Int
    <2>1. x = <<hunks[n].addr + files[f].sh[y].relocs[m].offset, files[f].sh[y].relocs[m]>>
      BY ONLY <1>2, <1>3
    <2>2. x = <<p, r>>
      BY ONLY <1>4, <1>11, <2>1
    <2>3. p \in Int
      BY ONLY <1>9, <1>10, <1>11
    <2>4. QED
      BY ONLY <2>2, <2>3
  <1>13. \A a \in Meant(f, r) : a \in Int
    <2> SUFFICES ASSUME NEW a \in Meant(f, r) PROVE a \in Int
      OBVIOUS
    <2>1. CASE r.sym.kind = "sysbase"
      BY <1>9, <2>1 DEF Meant
    <2>2. CASE r.sym.kind = "section"
      <3>1. PICK g \in HunkOf(f, r.sym.section) :
              a = g.addr + Virt + r.sym.value + r.addend
        BY <2>2 DEF Meant
      <3>2. PICK l \in DOMAIN hunks : g = hunks[l]
        BY DEF HunkOf
      <3>3. g.addr \in Int
        BY <3>2, HunkNumbers
      <3>4. QED
        BY <1>6, <1>9, <3>1, <3>3
    <2>3. QED
      BY <2>1, <2>2 DEF Meant
  <1>14. r.type # "none" => \A a \in Meant(f, r) : Right(mem[p], r, p, a)
    BY <1>3, <1>8, <1>11 DEF Holds
  <1>15. QED
    BY <1>9, <1>12, <1>13, <1>14

\* When the kernel starts, every pointer, every pair of halves and every
\* branch that can reach leads where its symbol was loaded, for every
\* sequence of well formed files that fit.
THEOREM PointersLead == Spec => []PointersMeet
  <1>1. IInv /\ Books /\ Stored => PointersMeet
    <2> SUFFICES ASSUME IInv, Books, Stored, pc = "jumped", fits, AllWellFormed,
                        NEW f \in DOMAIN files, NEW x \in Fields(f),
                        NEW a \in Meant(f, x[2])
                 PROVE  LET p == x[1]  r == x[2]
                        IN  /\ r.type = "addr32" => mem[p] = a % Word
                            /\ (r.type = "rel32" /\ r.sym.kind = "section") =>
                                 ((p + Virt + mem[p] - a) % Word) = 0
                            /\ (r.type = "rel24" /\ r.sym.kind = "section"
                                  /\ a - p - Virt \in -Reach .. (Reach - 1)
                                  /\ ((a - p - Virt) % 4) = 0)
                                 => p + Virt + Signed(mem[p], 2 * Reach) = a
                            /\ r.type = "ha" => \A y \in Fields(f) :
                                 (y[2].type = "lo" /\ y[2].sym = r.sym
                                    /\ y[2].addend = r.addend)
                                   => ((mem[p] * Half + Signed(mem[y[1]], Half) - a)
                                         % Word) = 0
      BY DEF PointersMeet, AllWellFormed
    <2> DEFINE p == x[1]
               r == x[2]
    <2>1. /\ p \in Int /\ a \in Int
          /\ r.type # "none" => Right(mem[p], r, p, a)
      BY FieldStored
    <2>2. Virt \in Nat /\ Word \in Nat \ {0} /\ Reach \in Nat \ {0}
      BY PlaceAssumption, WordNat, WordAssumption
    <2>3. r.type = "addr32" => mem[p] = a % Word
      BY <2>1 DEF Right
    <2>4. ASSUME r.type = "rel32", r.sym.kind = "section"
          PROVE  ((p + Virt + mem[p] - a) % Word) = 0
      <3>1. PICK d \in Int : d = a - Virt - p
        BY <2>1, <2>2
      <3>2. mem[p] = d % Word
        BY <2>1, <2>4, <3>1 DEF Right
      <3>3. d % Word \in Int
        BY <2>2
      <3>4. p + Virt + mem[p] - a = (d % Word) - d
        BY <2>1, <2>2, <3>1, <3>2, <3>3
      <3>5. QED
        BY <3>4, Congruent
    <2>5. ASSUME r.type = "rel24", r.sym.kind = "section",
                 a - p - Virt \in -Reach .. (Reach - 1), ((a - p - Virt) % 4) = 0
          PROVE  p + Virt + Signed(mem[p], 2 * Reach) = a
      <3>1. PICK d : d = a - p - Virt
        OBVIOUS
      <3>2. d = a - Virt - p /\ d \in Int
        BY <2>1, <2>2, <3>1
      <3>3. d \in -Reach .. (Reach - 1) /\ (d % 4) = 0
        BY <2>5, <3>1
      <3>4. mem[p] = Rounded((d % Word) % (2 * Reach), 4)
        BY <2>1, <2>5, <3>2 DEF Right
      <3>5. Signed(mem[p], 2 * Reach) = d
        BY <3>3, <3>4, BranchReaches
      <3>6. QED
        BY <2>1, <2>2, <3>1, <3>5
    <2>6. ASSUME r.type = "ha", NEW y \in Fields(f),
                 y[2].type = "lo", y[2].sym = r.sym, y[2].addend = r.addend
          PROVE  ((mem[p] * Half + Signed(mem[y[1]], Half) - a) % Word) = 0
      <3>1. a \in Meant(f, y[2])
        BY <2>6 DEF Meant
      <3>2. Right(mem[y[1]], y[2], y[1], a)
        BY <2>6, <3>1, FieldStored
      <3>3. mem[y[1]] = (a % Word) % Half
        BY <2>6, <3>2 DEF Right
      <3>4. mem[p] = HighHalf(a % Word)
        BY <2>1, <2>6 DEF Right
      <3>5. QED
        BY <2>1, <3>3, <3>4, HalvesMeet
    <2>7. QED
      BY <2>3, <2>4, <2>5, <2>6
  <1>2. QED
    BY <1>1, StoredInductive, PTL

-----------------------------------------------------------------------------
(* How far the loading has come.                                           *)

FilesAhead == Len(files) - k

\* What is left to be done with a file.
Stage ==
  CASE pc = "header" -> 4
    [] pc = "hunks"  -> 3
    [] pc = "relocs" -> 2
    [] pc = "next"   -> 1
    [] OTHER         -> 0

SectionsAhead == IF pc \in {"hunks", "relocs"} THEN Len(sh) + 1 - i ELSE 0
RelocsAhead   == IF Relocating THEN Len(sh[i].relocs) + 1 - j ELSE 0

\* By the files first, by what is done with one next, and so on.
Nearer ==
  \/ FilesAhead' < FilesAhead
  \/ /\ FilesAhead' = FilesAhead
     /\ \/ Stage' < Stage
        \/ /\ Stage' = Stage
           /\ \/ SectionsAhead' < SectionsAhead
              \/ SectionsAhead' = SectionsAhead /\ RelocsAhead' < RelocsAhead

\* What the loader counts: files, sections, relocations.
LEMMA Counted ==
  ASSUME IInv
  PROVE  /\ k \in 1 .. Len(files) /\ Len(files) \in Nat
         /\ i \in Nat /\ j \in Nat /\ Len(sh) \in Nat
         /\ \A x \in DOMAIN sh :
              /\ Len(sh[x].relocs) \in Nat
              /\ DOMAIN sh[x].relocs = 1 .. Len(sh[x].relocs)
  <1>1. files \in Boots /\ k \in DOMAIN files /\ i \in Nat /\ j \in Nat
    BY DEF IInv, TypeOK
  <1>2. files \in Seq(File)
    BY <1>1, BootAssumption
  <1>3. k \in 1 .. Len(files) /\ Len(files) \in Nat
    BY ONLY <1>1, <1>2
  <1>4. files[k] \in File
    BY ONLY <1>2, <1>3
  <1>5. sh \in Seq(Section)
    BY ONLY <1>4 DEF File, sh
  <1>6. \A s \in Section : s.relocs \in Seq(Reloc)
    BY ONLY TRUE DEF Section
  <1>7. Len(sh) \in Nat
    BY ONLY <1>5
  <1>8. \A x \in DOMAIN sh : sh[x] \in Section
    BY ONLY <1>5
  <1>9. ASSUME NEW x \in DOMAIN sh
        PROVE  /\ Len(sh[x].relocs) \in Nat
               /\ DOMAIN sh[x].relocs = 1 .. Len(sh[x].relocs)
    <2>1. sh[x].relocs \in Seq(Reloc)
      BY ONLY <1>6, <1>8, <1>9
    <2>2. QED
      BY ONLY <2>1
  <1>10. QED
    BY <1>1, <1>3, <1>7, <1>9

LEMMA AheadType ==
  ASSUME IInv
  PROVE  {FilesAhead, Stage, SectionsAhead, RelocsAhead} \subseteq Nat
  <1>1. /\ k \in DOMAIN files /\ i \in Nat /\ j \in Nat
        /\ pc \in {"hunks", "relocs"} => i <= Len(sh) + 1
    BY DEF IInv, TypeOK
  <1>2. k \in 1 .. Len(files) /\ Len(files) \in Nat /\ Len(sh) \in Nat
    BY Counted
  <1>3. FilesAhead \in Nat
    BY <1>2 DEF FilesAhead
  <1>4. Stage \in Nat
    BY DEF Stage
  <1>5. SectionsAhead \in Nat
    BY <1>1, <1>2 DEF SectionsAhead
  <1>6. RelocsAhead \in Nat
    <2>1. CASE Relocating
      <3>1. i \in DOMAIN sh /\ j \in DOMAIN sh[i].relocs
        BY <2>1 DEF Relocating
      <3>2. /\ Len(sh[i].relocs) \in Nat
            /\ DOMAIN sh[i].relocs = 1 .. Len(sh[i].relocs)
        BY <3>1, Counted
      <3>3. Len(sh[i].relocs) \in Nat /\ j \in 1 .. Len(sh[i].relocs)
        BY ONLY <3>1, <3>2
      <3>4. QED
        BY <2>1, <3>3 DEF RelocsAhead
    <2>2. CASE ~Relocating
      BY <2>2 DEF RelocsAhead
    <2>3. QED
      BY <2>1, <2>2
  <1>7. QED
    BY <1>3, <1>4, <1>5, <1>6

\* Every step of the loader brings it nearer its end, and none takes it back:
\* whatever the files hold, load_elf_file() goes through a file's sections
\* twice and through each list of relocations once, and testboot_aros() through
\* the files once.
THEOREM LoadingGoesOn ==
  Spec => /\ []({FilesAhead, Stage, SectionsAhead, RelocsAhead} \subseteq Nat)
          /\ [][Nearer]_vars
  <1>1. ASSUME IInv, IInv', Next PROVE Nearer
    <2>0. /\ {FilesAhead, Stage, SectionsAhead, RelocsAhead} \subseteq Nat
          /\ i \in Nat /\ j \in Nat /\ k \in DOMAIN files
      BY <1>1, AheadType DEF IInv, TypeOK
    <2>1. k \in 1 .. Len(files) /\ Len(files) \in Nat /\ Len(sh) \in Nat
      BY <1>1, Counted
    <2>2. CASE NextModule
      <3>1. FilesAhead = Len(files) - k /\ FilesAhead' = Len(files) - (k + 1)
        BY <2>2 DEF NextModule, FilesAhead
      <3>2. QED
        BY <2>1, <3>1 DEF Nearer
    <2>3. CASE \/ CheckHeader \/ HunksLoaded \/ RelocateFails \/ Register
               \/ ModuleMissing \/ Jump
      <3>1. \/ pc = "header" /\ pc' \in {"hunks", "failed"}
            \/ pc = "hunks" /\ pc' = "relocs"
            \/ pc = "relocs" /\ pc' \in {"failed", "next"}
            \/ pc = "next" /\ pc' \in {"failed", "jumped"}
        BY <2>3 DEF CheckHeader, HunksLoaded, RelocateFails, Relocating, Register,
           ModuleMissing, Jump
      <3>2. FilesAhead' = FilesAhead
        BY <2>3 DEF CheckHeader, HunksLoaded, RelocateFails, Register,
           ModuleMissing, Jump, FilesAhead
      <3>3. Stage' < Stage
        BY <3>1 DEF Stage
      <3>4. QED
        BY <3>2, <3>3 DEF Nearer
    <2>4. CASE LoadHunk \/ PassSection \/ Relocated
      <3>1. /\ pc \in {"hunks", "relocs"} /\ pc' = pc /\ i' = i + 1
            /\ files' = files /\ k' = k
        BY <2>4 DEF LoadHunk, PassSection, Relocated
      <3>2. FilesAhead' = FilesAhead /\ Stage' = Stage /\ sh' = sh
        BY <3>1 DEF FilesAhead, Stage, sh
      <3>3. SectionsAhead = Len(sh) + 1 - i /\ SectionsAhead' = Len(sh) + 1 - (i + 1)
        BY <3>1, <3>2 DEF SectionsAhead
      <3>4. SectionsAhead' < SectionsAhead
        BY <2>0, <2>1, <3>3
      <3>5. QED
        BY <3>2, <3>4 DEF Nearer
    <2>5. CASE Relocate
      <3>1. /\ Relocating /\ j' = j + 1
            /\ UNCHANGED <<files, k, pc, i, addr>>
        BY <2>5 DEF Relocate
      <3>2. /\ FilesAhead' = FilesAhead /\ Stage' = Stage /\ sh' = sh
            /\ SectionsAhead' = SectionsAhead
        BY <3>1 DEF FilesAhead, Stage, SectionsAhead, sh
      <3>3. i \in DOMAIN sh /\ j \in DOMAIN sh[i].relocs
        BY <3>1 DEF Relocating
      <3>4. PICK n \in Nat : n = Len(sh[i].relocs) /\ DOMAIN sh[i].relocs = 1 .. n
        BY <1>1, <3>3, Counted
      <3>5. j \in 1 .. n
        BY <3>3, <3>4
      <3>6. RelocsAhead = n + 1 - j /\ RelocsAhead' \in {n + 1 - (j + 1), 0}
        BY <3>1, <3>2, <3>4 DEF RelocsAhead
      <3>7. RelocsAhead' < RelocsAhead
        BY <3>5, <3>6
      <3>8. QED
        BY <3>2, <3>7 DEF Nearer
    <2>6. QED
      BY <1>1, <2>2, <2>3, <2>4, <2>5 DEF Next
  <1>2. IInv /\ IInv' /\ [Next]_vars => [Nearer]_vars
    BY <1>1
  <1>3. IInv => {FilesAhead, Stage, SectionsAhead, RelocsAhead} \subseteq Nat
    BY AheadType
  <1>4. QED
    BY <1>2, <1>3, Inductive, PTL DEF Spec
=============================================================================
