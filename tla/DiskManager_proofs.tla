------------------------- MODULE DiskManager_proofs ------------------------
(***************************************************************************)
(* The layout of the file and the life of a page, for any number and size  *)
(* of extents: DiskInv is inductive, and the disk manager is a page store. *)
(***************************************************************************)
EXTENDS DiskManager, WellFoundedInduction, TLAPS

\* Division with remainder.
LEMMA Division ==
  ASSUME NEW n \in Nat \ {0}, NEW p \in Nat
  PROVE  /\ p = n * (p \div n) + (p % n)
         /\ p % n \in 0 .. n - 1
         /\ p \div n \in Nat
OBVIOUS

\* Multiplication is monotone.
LEMMA TimesMonotone ==
  ASSUME NEW n \in Nat, NEW a \in Nat, NEW b \in Nat, a <= b
  PROVE  n * a <= n * b /\ n * a \in Nat
OBVIOUS

USE NAssumption, MaxExtentsAssumption, WordSizeAssumption, ZeroAssumption

\* A page is an offset in an extent, in one way.
LEMMA PageSplit ==
  ASSUME NEW p \in Page
  PROVE  /\ ExtentOf(p) \in Extent
         /\ OffsetOf(p) \in Offset
         /\ p = OffsetOf(p) + ExtentOf(p) * N
<1> DEFINE quotient == p \div N
           remainder == p % N
<1>1. p \in Nat /\ p < N * MaxExtents
  BY DEF Page
<1>2. /\ p = N * quotient + remainder
      /\ remainder \in 0 .. N - 1
      /\ quotient \in Nat
  BY <1>1, Division
<1> HIDE DEF quotient, remainder
<1>3. ASSUME quotient >= MaxExtents PROVE FALSE
  <2>1. N * MaxExtents <= N * quotient /\ N * MaxExtents \in Nat
    BY <1>2, <1>3, TimesMonotone
  <2>2. N * quotient \in Nat
    BY <1>2
  <2>3. QED
    BY <1>1, <1>2, <2>1, <2>2
<1>4. quotient \in Extent
  BY <1>2, <1>3 DEF Extent
<1>5. p = remainder + quotient * N
  BY <1>2
<1>6. QED
  BY <1>2, <1>4, <1>5 DEF ExtentOf, OffsetOf, Offset, quotient, remainder

\* A page is given by its extent and its offset.
LEMMA PageJoin ==
  ASSUME NEW e \in Extent, NEW o \in Offset
  PROVE  /\ o + e * N \in Page
         /\ ExtentOf(o + e * N) = e
         /\ OffsetOf(o + e * N) = o
<1>1. e * N + o \in Page
  <2>1. e * N <= (MaxExtents - 1) * N
    BY DEF Extent
  <2>2. QED
    BY <2>1 DEF Page, Extent, Offset
<1>2. (e * N + o) \div N = e /\ (e * N + o) % N = o
  BY DEF Extent, Offset
<1>3. o + e * N = e * N + o
  BY DEF Extent, Offset
<1>4. QED
  BY <1>1, <1>2, <1>3 DEF ExtentOf, OffsetOf

\* Two products of extents with the stride differ by at least a stride.
LEMMA Strides ==
  ASSUME NEW e \in Nat, NEW f \in Nat, NEW o \in 0 .. N, NEW r \in 0 .. N,
         e * (N + 1) + o = f * (N + 1) + r
  PROVE  e = f /\ o = r
OBVIOUS

\* Where the pages of the file are: inside it, and all in different places.
LEMMA Layout ==
  /\ META_PAGE_ID \in Phys
  /\ \A e \in Extent : BitmapPageId(e) \in Phys \ {META_PAGE_ID}
  /\ \A p \in Page : MapPageId(p) \in Phys \ {META_PAGE_ID}
  /\ \A e, f \in Extent : BitmapPageId(e) = BitmapPageId(f) => e = f
  /\ \A p, q \in Page : MapPageId(p) = MapPageId(q) => p = q
  /\ \A e \in Extent, p \in Page : BitmapPageId(e) # MapPageId(p)
<1>1. ASSUME NEW e \in Extent
      PROVE  e * (N + 1) \in Nat /\ e * (N + 1) + N + 1 <= MaxExtents * (N + 1)
  <2>1. e \in Nat /\ e + 1 <= MaxExtents
    BY DEF Extent
  <2>2. (e + 1) * (N + 1) <= MaxExtents * (N + 1)
    BY <2>1
  <2>3. QED
    BY <2>1, <2>2
<1>2. META_PAGE_ID \in Phys
  BY DEF META_PAGE_ID, Phys
<1>3. ASSUME NEW e \in Extent PROVE BitmapPageId(e) \in Phys \ {META_PAGE_ID}
  BY <1>1 DEF BitmapPageId, Phys, META_PAGE_ID
<1>4. ASSUME NEW p \in Page PROVE MapPageId(p) \in Phys \ {META_PAGE_ID}
  <2>1. ExtentOf(p) \in Extent /\ OffsetOf(p) \in 0 .. N - 1
    BY PageSplit DEF Offset
  <2>2. QED
    BY <2>1, <1>1 DEF MapPageId, Phys, META_PAGE_ID
<1>5. ASSUME NEW e \in Extent, NEW f \in Extent, BitmapPageId(e) = BitmapPageId(f)
      PROVE  e = f
  <2>1. e \in Nat /\ f \in Nat /\ e * (N + 1) + 0 = f * (N + 1) + 0
    BY <1>1, <1>5 DEF BitmapPageId, Extent
  <2>2. QED
    BY <2>1, Strides
<1>6. ASSUME NEW p \in Page, NEW q \in Page, MapPageId(p) = MapPageId(q)
      PROVE  p = q
  <2>1. /\ ExtentOf(p) \in Extent /\ OffsetOf(p) \in 0 .. N - 1
        /\ ExtentOf(q) \in Extent /\ OffsetOf(q) \in 0 .. N - 1
    BY PageSplit DEF Offset
  <2>2. ExtentOf(p) * (N + 1) + OffsetOf(p) = ExtentOf(q) * (N + 1) + OffsetOf(q)
    BY <1>1, <1>6, <2>1 DEF MapPageId
  <2>3. ExtentOf(p) = ExtentOf(q) /\ OffsetOf(p) = OffsetOf(q)
    BY <2>1, <2>2, Strides DEF Extent
  <2>4. QED
    BY <2>3, PageSplit
<1>7. ASSUME NEW e \in Extent, NEW p \in Page PROVE BitmapPageId(e) # MapPageId(p)
  <2>1. ExtentOf(p) \in Extent /\ OffsetOf(p) \in 0 .. N - 1
    BY PageSplit DEF Offset
  <2>2. ASSUME BitmapPageId(e) = MapPageId(p) PROVE FALSE
    <3>1. e * (N + 1) + 0 = ExtentOf(p) * (N + 1) + (OffsetOf(p) + 1)
      BY <1>1, <2>1, <2>2 DEF BitmapPageId, MapPageId
    <3>2. 0 = OffsetOf(p) + 1
      BY <2>1, <3>1, Strides DEF Extent
    <3>3. QED
      BY <2>1, <3>2
  <2>3. QED
    BY <2>2
<1>8. QED
  BY <1>2, <1>3, <1>4, <1>5, <1>6, <1>7

-----------------------------------------------------------------------------
\* What the images of pages are.
LEMMA Images ==
  /\ ZeroMeta \in Meta
  /\ ZeroImage \in Image /\ ZeroImage.kind = "zero" /\ ZeroImage.meta = ZeroMeta
  /\ ZeroImage.bits = {} /\ ZeroImage.data = Zero
  /\ \A m \in Meta : /\ MetaImage(m) \in Image
                     /\ MetaImage(m).kind = "meta" /\ MetaImage(m).meta = m
  /\ \A b \in SUBSET Offset : /\ BitmapImage(b) \in Image
                              /\ BitmapImage(b).kind = "bitmap"
                              /\ BitmapImage(b).bits = b
  /\ \A d \in Data : /\ DataImage(d) \in Image
                     /\ DataImage(d).kind = "data" /\ DataImage(d).data = d
<1>1. ZeroMeta \in Meta
  BY DEF ZeroMeta, Meta, Word
<1>2. ZeroImage \in Image
  BY <1>1 DEF ZeroImage, Image
<1>3. QED
  BY <1>1, <1>2 DEF ZeroImage, Image, MetaImage, BitmapImage, DataImage

\* Count keeps the types and the number of extents.
LEMMA CountType ==
  ASSUME NEW m \in Meta, NEW e \in Extent, NEW delta \in {-1, 1}
  PROVE  Count(m, e, delta) \in Meta /\ Count(m, e, delta).num_extents_ = m.num_extents_
<1>1. \A w \in Word : (w + delta + WordSize) % WordSize \in Word
  <2> SUFFICES ASSUME NEW w \in Word PROVE (w + delta + WordSize) % WordSize \in Word
    OBVIOUS
  <2>1. w + delta + WordSize \in Nat /\ WordSize \in Nat \ {0}
    BY DEF Word
  <2>2. QED
    BY <2>1, Division DEF Word
<1>2. QED
  BY <1>1 DEF Count, Meta

\* What the three kinds of writes change in the file.
LEMMA WriteBitmap ==
  ASSUME file \in [Phys -> Image], NEW e \in Extent, NEW b \in SUBSET Offset,
         file' = [file EXCEPT ![BitmapPageId(e)] = BitmapImage(b)]
  PROVE  /\ file' \in [Phys -> Image]
         /\ file'[META_PAGE_ID] = file[META_PAGE_ID]
         /\ Bits(e)' = b
         /\ \A x \in Extent : x # e => Bits(x)' = Bits(x)
         /\ \A p \in Page : file'[MapPageId(p)] = file[MapPageId(p)]
         /\ LayoutIntact => LayoutIntact'
<1>1. file' \in [Phys -> Image]
  BY Images, Layout
<1>2. file'[META_PAGE_ID] = file[META_PAGE_ID]
  BY Layout
<1>3. file'[BitmapPageId(e)] = BitmapImage(b)
  BY Layout
<1>4. \A x \in Extent : x # e => file'[BitmapPageId(x)] = file[BitmapPageId(x)]
  BY Layout
<1>5. \A p \in Page : file'[MapPageId(p)] = file[MapPageId(p)]
  BY Layout
<1>6. QED
  BY <1>1, <1>2, <1>3, <1>4, <1>5, Images DEF LayoutIntact, Bits

\* Writing the meta page leaves the other pages alone.
LEMMA WriteMeta ==
  ASSUME file \in [Phys -> Image], NEW m \in Meta,
         file' = [file EXCEPT ![META_PAGE_ID] = MetaImage(m)]
  PROVE  /\ file' \in [Phys -> Image]
         /\ file'[META_PAGE_ID].meta = m
         /\ \A x \in Extent : Bits(x)' = Bits(x)
         /\ \A p \in Page : file'[MapPageId(p)] = file[MapPageId(p)]
         /\ LayoutIntact => LayoutIntact'
<1>1. file' \in [Phys -> Image]
  BY Images, Layout
<1>2. file'[META_PAGE_ID] = MetaImage(m)
  BY Layout
<1>3. \A x \in Extent : file'[BitmapPageId(x)] = file[BitmapPageId(x)]
  BY Layout
<1>4. \A p \in Page : file'[MapPageId(p)] = file[MapPageId(p)]
  BY Layout
<1>5. QED
  BY <1>1, <1>2, <1>3, <1>4, Images DEF LayoutIntact, Bits

\* Writing data leaves the meta page and the bitmaps alone.
LEMMA WriteData ==
  ASSUME file \in [Phys -> Image], NEW p \in Page, NEW d \in Data,
         file' = [file EXCEPT ![MapPageId(p)] = DataImage(d)]
  PROVE  /\ file' \in [Phys -> Image]
         /\ file'[META_PAGE_ID] = file[META_PAGE_ID]
         /\ \A x \in Extent : Bits(x)' = Bits(x)
         /\ file'[MapPageId(p)].data = d
         /\ \A q \in Page : q # p => file'[MapPageId(q)] = file[MapPageId(q)]
         /\ LayoutIntact => LayoutIntact'
<1>1. file' \in [Phys -> Image]
  BY Images, Layout
<1>2. file'[META_PAGE_ID] = file[META_PAGE_ID]
  BY Layout
<1>3. \A x \in Extent : file'[BitmapPageId(x)] = file[BitmapPageId(x)]
  BY Layout
<1>4. file'[MapPageId(p)] = DataImage(d)
  BY Layout
<1>5. \A q \in Page : q # p => file'[MapPageId(q)] = file[MapPageId(q)]
  BY Layout
<1>6. QED
  BY <1>1, <1>2, <1>3, <1>4, <1>5, Images DEF LayoutIntact, Bits

-----------------------------------------------------------------------------
\* A page that is not marked in a counted extent has no owner.
LEMMA UnmarkedHasNoOwner ==
  ASSUME DiskInv, NEW p \in Page,
         \/ ExtentOf(p) >= file[META_PAGE_ID].meta.num_extents_
         \/ OffsetOf(p) \notin Bits(ExtentOf(p))
  PROVE  owners[p] = 0
<1>1. owners[p] \in Nat
  BY DEF DiskInv, TypeOK
<1>2. file[META_PAGE_ID].meta.num_extents_ \in Nat /\ ExtentOf(p) \in Nat
  BY PageSplit, Layout DEF DiskInv, TypeOK, Image, Meta, Extent
<1>3. p \notin Live
  BY <1>2 DEF DiskInv, LiveSurvivesRestart
<1>4. QED
  BY <1>1, <1>3 DEF Live

\* The invariant holds at first.
LEMMA InitDiskInv == Init => DiskInv
<1> SUFFICES ASSUME Init PROVE DiskInv
  OBVIOUS
<1>1. TypeOK
  BY Images DEF Init, TypeOK
<1>2. \A i \in Phys : file[i] = ZeroImage
  BY DEF Init
<1>3. LayoutIntact
  BY <1>2, Images, Layout DEF LayoutIntact
<1>4. Live = {} /\ OneOwner
  BY DEF Init, Live, OneOwner
<1>5. ExtentsAgree
  <2>1. file[META_PAGE_ID].meta = ZeroMeta
    BY <1>2, Images, Layout
  <2>2. QED
    BY <2>1 DEF Init, ExtentsAgree, ZeroMeta
<1>6. QED
  BY <1>1, <1>3, <1>4, <1>5 DEF DiskInv, LiveSurvivesRestart

\* AllocatePage in an extent with room.
LEMMA AllocatePageInv ==
  ASSUME DiskInv, NEW e \in Extent, NEW o \in Offset, AllocatePage(e, o)
  PROVE  /\ DiskInv'
         /\ owners[o + e * N] = 0
         /\ \A p \in Page : ReadPage(p)' = ReadPage(p)
<1> DEFINE fresh == o + e * N
<1>1. fresh \in Page /\ ExtentOf(fresh) = e /\ OffsetOf(fresh) = o
  BY PageJoin
<1>2. file \in [Phys -> Image] /\ Bits(e) \union {o} \in SUBSET Offset
  BY Layout DEF DiskInv, TypeOK, Bits, Image
<1>3. /\ file' \in [Phys -> Image]
      /\ file'[META_PAGE_ID] = file[META_PAGE_ID]
      /\ Bits(e)' = Bits(e) \union {o}
      /\ \A x \in Extent : x # e => Bits(x)' = Bits(x)
      /\ \A p \in Page : file'[MapPageId(p)] = file[MapPageId(p)]
      /\ LayoutIntact => LayoutIntact'
  BY <1>2, WriteBitmap DEF AllocatePage
<1>4. o \notin Bits(e)
  BY DEF AllocatePage, FirstFree
<1>5. owners[fresh] = 0
  BY <1>1, <1>4, UnmarkedHasNoOwner
<1>6. meta_page' \in Meta /\ meta_page'.num_extents_ = meta_page.num_extents_
  BY CountType DEF AllocatePage, DiskInv, TypeOK
<1>7. owners' = [owners EXCEPT ![fresh] = 1] /\ owners' \in [Page -> Nat]
  BY <1>1, <1>5 DEF AllocatePage, DiskInv, TypeOK
<1>8. TypeOK'
  BY <1>3, <1>6, <1>7 DEF TypeOK, AllocatePage, DiskInv
<1>9. LiveSurvivesRestart'
  <2> SUFFICES ASSUME NEW p \in Live'
               PROVE  /\ ExtentOf(p) < file'[META_PAGE_ID].meta.num_extents_
                      /\ OffsetOf(p) \in Bits(ExtentOf(p))'
    BY DEF LiveSurvivesRestart
  <2>1. p \in Page /\ ExtentOf(p) \in Extent
    BY PageSplit DEF Live
  <2>2. CASE p = fresh
    <3>1. e < file[META_PAGE_ID].meta.num_extents_
      BY DEF AllocatePage, DiskInv, ExtentsAgree
    <3>2. QED
      BY <1>1, <1>3, <2>2, <3>1
  <2>3. CASE p # fresh
    <3>1. p \in Live
      BY <1>7, <2>1, <2>3 DEF Live, DiskInv, TypeOK
    <3>2. /\ ExtentOf(p) < file[META_PAGE_ID].meta.num_extents_
          /\ OffsetOf(p) \in Bits(ExtentOf(p))
      BY <3>1 DEF DiskInv, LiveSurvivesRestart
    <3>3. QED
      BY <1>3, <2>1, <3>2
  <2>4. QED
    BY <2>2, <2>3
<1>10. OneOwner'
  BY <1>7 DEF OneOwner, DiskInv, TypeOK
<1>11. ExtentsAgree'
  BY <1>3, <1>6 DEF ExtentsAgree, DiskInv, AllocatePage
<1>12. QED
  BY <1>3, <1>5, <1>8, <1>9, <1>10, <1>11 DEF DiskInv, ReadPage

\* AllocatePage that opens an extent, up to its first write.
LEMMA AllocateExtentInv ==
  ASSUME DiskInv, NEW e \in Extent, AllocateExtent(e)
  PROVE  DiskInv' /\ \A p \in Page : ReadPage(p)' = ReadPage(p)
<1>1. e = file[META_PAGE_ID].meta.num_extents_
  BY DEF AllocateExtent, DiskInv, ExtentsAgree
<1>2. file \in [Phys -> Image] /\ {0} \in SUBSET Offset
  BY DEF DiskInv, TypeOK, Offset
<1>3. /\ file' \in [Phys -> Image]
      /\ file'[META_PAGE_ID] = file[META_PAGE_ID]
      /\ Bits(e)' = {0}
      /\ \A x \in Extent : x # e => Bits(x)' = Bits(x)
      /\ \A p \in Page : file'[MapPageId(p)] = file[MapPageId(p)]
      /\ LayoutIntact => LayoutIntact'
  BY <1>2, WriteBitmap DEF AllocateExtent
<1>4. meta_page' \in Meta /\ meta_page'.num_extents_ = e + 1
  <2>1. Count(meta_page, e, 1) \in Meta
    BY CountType DEF DiskInv, TypeOK
  <2>2. e + 1 \in 0 .. MaxExtents
    BY DEF Extent
  <2>3. \A m \in Meta, k \in 0 .. MaxExtents :
           /\ [m EXCEPT !.num_extents_ = k] \in Meta
           /\ [m EXCEPT !.num_extents_ = k].num_extents_ = k
    BY DEF Meta
  <2>4. QED
    BY <2>1, <2>2, <2>3 DEF AllocateExtent
<1>5. opening' = e * N /\ opening' \in Page
  <2>1. 0 + e * N \in Page
    BY PageJoin DEF Offset
  <2>2. QED
    BY <2>1 DEF AllocateExtent, Extent
<1>6. TypeOK'
  BY <1>3, <1>4, <1>5 DEF TypeOK, AllocateExtent, DiskInv
<1>7. LiveSurvivesRestart'
  <2> SUFFICES ASSUME NEW p \in Live
               PROVE  /\ ExtentOf(p) < file'[META_PAGE_ID].meta.num_extents_
                      /\ OffsetOf(p) \in Bits(ExtentOf(p))'
    BY DEF LiveSurvivesRestart, Live, AllocateExtent
  <2>1. ExtentOf(p) \in Extent
    BY PageSplit DEF Live
  <2>2. ExtentOf(p) < e /\ OffsetOf(p) \in Bits(ExtentOf(p))
    BY <1>1 DEF DiskInv, LiveSurvivesRestart
  <2>3. ExtentOf(p) # e
    BY <2>1, <2>2 DEF Extent
  <2>4. QED
    BY <1>1, <1>3, <2>1, <2>2, <2>3
<1>8. OneOwner'
  BY DEF OneOwner, DiskInv, AllocateExtent
<1>9. ExtentsAgree'
  <2>1. e * N # INVALID_PAGE_ID
    BY <1>5 DEF Page, INVALID_PAGE_ID
  <2>2. QED
    BY <1>1, <1>3, <1>4, <1>5, <2>1 DEF ExtentsAgree
<1>10. QED
  BY <1>3, <1>6, <1>7, <1>8, <1>9 DEF DiskInv, ReadPage

\* The rest of it.
LEMMA AllocateExtentReturnInv ==
  ASSUME DiskInv, AllocateExtentReturn
  PROVE  /\ DiskInv'
         /\ opening \in Page /\ owners[opening] = 0
         /\ \A p \in Page : ReadPage(p)' = ReadPage(p)
<1> DEFINE e == file[META_PAGE_ID].meta.num_extents_
<1>1. /\ e \in Extent
      /\ opening = e * N
      /\ meta_page.num_extents_ = e + 1
      /\ Bits(e) = {0}
  BY DEF DiskInv, ExtentsAgree, AllocateExtentReturn
<1> HIDE DEF e
<1>2. opening = 0 + e * N /\ 0 \in Offset
  BY <1>1 DEF Extent, Offset
<1>3. opening \in Page /\ ExtentOf(opening) = e /\ OffsetOf(opening) = 0
  BY <1>1, <1>2, PageJoin
<1>4. owners[opening] = 0
  BY <1>1, <1>3, UnmarkedHasNoOwner DEF e, Extent
<1>5. /\ file' \in [Phys -> Image]
      /\ file'[META_PAGE_ID].meta = meta_page
      /\ \A x \in Extent : Bits(x)' = Bits(x)
      /\ \A p \in Page : file'[MapPageId(p)] = file[MapPageId(p)]
      /\ LayoutIntact => LayoutIntact'
  BY WriteMeta DEF AllocateExtentReturn, DiskInv, TypeOK
<1>6. owners' = [owners EXCEPT ![opening] = 1] /\ owners' \in [Page -> Nat]
  BY <1>3, <1>4 DEF AllocateExtentReturn, DiskInv, TypeOK
<1>7. TypeOK'
  BY <1>5, <1>6 DEF TypeOK, AllocateExtentReturn, DiskInv
<1>8. LiveSurvivesRestart'
  <2> SUFFICES ASSUME NEW p \in Live'
               PROVE  /\ ExtentOf(p) < e + 1
                      /\ OffsetOf(p) \in Bits(ExtentOf(p))'
    BY <1>1, <1>5 DEF LiveSurvivesRestart
  <2>1. p \in Page /\ ExtentOf(p) \in Extent
    BY PageSplit DEF Live
  <2>2. CASE p = opening
    BY <1>1, <1>3, <1>5, <2>2 DEF Extent
  <2>3. CASE p # opening
    <3>1. p \in Live
      BY <1>6, <2>1, <2>3 DEF Live, DiskInv, TypeOK
    <3>2. ExtentOf(p) < e /\ OffsetOf(p) \in Bits(ExtentOf(p))
      BY <3>1 DEF DiskInv, LiveSurvivesRestart, e
    <3>3. QED
      BY <1>1, <1>5, <2>1, <3>2 DEF Extent
  <2>4. QED
    BY <2>2, <2>3
<1>9. OneOwner'
  BY <1>6 DEF OneOwner, DiskInv, TypeOK
<1>10. ExtentsAgree'
  BY <1>5 DEF ExtentsAgree, AllocateExtentReturn
<1>11. QED
  BY <1>3, <1>4, <1>5, <1>7, <1>8, <1>9, <1>10 DEF DiskInv, ReadPage

\* DeAllocatePage.
LEMMA DeAllocatePageInv ==
  ASSUME DiskInv, NEW p \in Page, DeAllocatePage(p)
  PROVE  DiskInv' /\ \A q \in Page : ReadPage(q)' = ReadPage(q)
<1>1. ExtentOf(p) \in Extent
  BY PageSplit
<1>2. meta_page' \in Meta /\ meta_page'.num_extents_ = meta_page.num_extents_
  BY <1>1, CountType DEF DeAllocatePage, DiskInv, TypeOK
<1>3. /\ file' \in [Phys -> Image]
      /\ file'[META_PAGE_ID].meta = meta_page'
      /\ \A x \in Extent : Bits(x)' = Bits(x)
      /\ \A q \in Page : file'[MapPageId(q)] = file[MapPageId(q)]
      /\ LayoutIntact => LayoutIntact'
  BY <1>2, WriteMeta DEF DeAllocatePage, DiskInv, TypeOK
<1>4. owners' = [owners EXCEPT ![p] = 0] /\ owners' \in [Page -> Nat]
  BY DEF DeAllocatePage, DiskInv, TypeOK
<1>5. TypeOK'
  BY <1>2, <1>3, <1>4 DEF TypeOK, DeAllocatePage, DiskInv
<1>6. meta_page.num_extents_ = file[META_PAGE_ID].meta.num_extents_
  BY DEF DiskInv, ExtentsAgree, DeAllocatePage
<1>7. LiveSurvivesRestart'
  <2> SUFFICES ASSUME NEW q \in Live'
               PROVE  /\ ExtentOf(q) < file'[META_PAGE_ID].meta.num_extents_
                      /\ OffsetOf(q) \in Bits(ExtentOf(q))'
    BY DEF LiveSurvivesRestart
  <2>1. q \in Live /\ ExtentOf(q) \in Extent
    BY <1>4, PageSplit DEF Live, DiskInv, TypeOK
  <2>2. QED
    BY <1>2, <1>3, <1>6, <2>1 DEF DiskInv, LiveSurvivesRestart
<1>8. OneOwner'
  BY <1>4 DEF OneOwner, DiskInv, TypeOK
<1>9. ExtentsAgree'
  BY <1>3 DEF ExtentsAgree, DeAllocatePage
<1>10. QED
  BY <1>3, <1>5, <1>7, <1>8, <1>9 DEF DiskInv, ReadPage

\* WritePage.
LEMMA WritePageInv ==
  ASSUME DiskInv, NEW p \in Page, NEW d \in Data, WritePage(p, d)
  PROVE  /\ DiskInv'
         /\ ReadPage(p)' = d
         /\ \A q \in Page : q # p => ReadPage(q)' = ReadPage(q)
<1>1. /\ file' \in [Phys -> Image]
      /\ file'[META_PAGE_ID] = file[META_PAGE_ID]
      /\ \A x \in Extent : Bits(x)' = Bits(x)
      /\ file'[MapPageId(p)].data = d
      /\ \A q \in Page : q # p => file'[MapPageId(q)] = file[MapPageId(q)]
      /\ LayoutIntact => LayoutIntact'
  BY WriteData DEF WritePage, DiskInv, TypeOK
<1>2. TypeOK' /\ OneOwner'
  BY <1>1 DEF TypeOK, OneOwner, WritePage, DiskInv
<1>3. LiveSurvivesRestart'
  <2> SUFFICES ASSUME NEW q \in Live
               PROVE  /\ ExtentOf(q) < file'[META_PAGE_ID].meta.num_extents_
                      /\ OffsetOf(q) \in Bits(ExtentOf(q))'
    BY DEF LiveSurvivesRestart, Live, WritePage
  <2>1. ExtentOf(q) \in Extent
    BY PageSplit DEF Live
  <2>2. QED
    BY <1>1, <2>1 DEF DiskInv, LiveSurvivesRestart
<1>4. ExtentsAgree'
  BY <1>1 DEF ExtentsAgree, WritePage, DiskInv
<1>5. QED
  BY <1>1, <1>2, <1>3, <1>4 DEF DiskInv, ReadPage

\* A restart.
LEMMA RestartInv ==
  ASSUME DiskInv, Restart
  PROVE  DiskInv' /\ \A q \in Page : ReadPage(q)' = ReadPage(q)
<1>1. file[META_PAGE_ID].meta \in Meta
  BY Layout DEF DiskInv, TypeOK, Image
<1>2. TypeOK'
  BY <1>1 DEF TypeOK, DiskInv, Restart
<1>3. LayoutIntact' /\ LiveSurvivesRestart' /\ OneOwner'
  BY DEF LayoutIntact, LiveSurvivesRestart, OneOwner, Live, Bits, DiskInv, Restart
<1>4. ExtentsAgree'
  BY DEF ExtentsAgree, Restart
<1>5. QED
  BY <1>2, <1>3, <1>4 DEF DiskInv, ReadPage, Restart

\* Every step preserves the invariant.
LEMMA NextDiskInv == DiskInv /\ [Next]_vars => DiskInv'
<1> SUFFICES ASSUME DiskInv, [Next]_vars PROVE DiskInv'
  OBVIOUS
<1>1. ASSUME NEW e \in Extent, NEW o \in Offset, AllocatePage(e, o) PROVE DiskInv'
  BY <1>1, AllocatePageInv
<1>2. ASSUME NEW e \in Extent, AllocateExtent(e) PROVE DiskInv'
  BY <1>2, AllocateExtentInv
<1>3. ASSUME AllocateExtentReturn PROVE DiskInv'
  BY <1>3, AllocateExtentReturnInv
<1>4. ASSUME NEW p \in Page, DeAllocatePage(p) PROVE DiskInv'
  BY <1>4, DeAllocatePageInv
<1>5. ASSUME NEW p \in Live, NEW d \in Data, WritePage(p, d) PROVE DiskInv'
  BY <1>5, WritePageInv DEF Live
<1>6. ASSUME Restart PROVE DiskInv'
  BY <1>6, RestartInv
<1>7. ASSUME UNCHANGED vars PROVE DiskInv'
  BY <1>7 DEF vars, DiskInv, TypeOK, LayoutIntact, LiveSurvivesRestart, OneOwner,
              ExtentsAgree, Live, Bits
<1>8. QED
  BY <1>1, <1>2, <1>3, <1>4, <1>5, <1>6, <1>7 DEF Next, Allocation, Writing

-----------------------------------------------------------------------------
\* DiskInv holds of every behaviour of DiskManager, whatever the size and the
\* number of the extents.
THEOREM DiskInvariant == Spec => []DiskInv
<1>1. Init => DiskInv
  BY InitDiskInv
<1>2. DiskInv /\ [Next]_vars => DiskInv'
  BY NextDiskInv
<1>3. QED
  BY <1>1, <1>2, PTL DEF Spec

\* MapPageId keeps data off the meta page and the bitmaps, for any N: no
\* sequence of AllocatePage, DeAllocatePage and WritePage mixes them up.
THEOREM DiskLayoutIntact == Spec => []LayoutIntact
<1>1. DiskInv => LayoutIntact
  BY DEF DiskInv
<1>2. QED
  BY <1>1, DiskInvariant, PTL

\* The order of the two writes in AllocatePage is enough: a restart at any
\* moment leaves every page in use allocated.
THEOREM DiskLiveSurvivesRestart == Spec => []LiveSurvivesRestart
<1>1. DiskInv => LiveSurvivesRestart
  BY DEF DiskInv
<1>2. QED
  BY <1>1, DiskInvariant, PTL

\* The order of two pages is that of their extents, then of their offsets.
LEMMA PageOrder ==
  ASSUME NEW p \in Page, NEW q \in Page, q < p
  PROVE  \/ ExtentOf(q) < ExtentOf(p)
         \/ ExtentOf(q) = ExtentOf(p) /\ OffsetOf(q) < OffsetOf(p)
<1> DEFINE e == ExtentOf(p)  f == ExtentOf(q)  o == OffsetOf(p)  r == OffsetOf(q)
<1>1. /\ e \in Nat /\ o \in 0 .. N - 1 /\ p = o + e * N
      /\ f \in Nat /\ r \in 0 .. N - 1 /\ q = r + f * N
  BY PageSplit DEF Extent, Offset
<1> HIDE DEF e, f, o, r
<1>2. ASSUME f > e PROVE FALSE
  <2>1. N * (e + 1) <= N * f
    BY <1>1, <1>2, TimesMonotone
  <2>2. N * (e + 1) = e * N + N /\ N * f = f * N
    BY <1>1
  <2>3. e * N \in Nat /\ f * N \in Nat
    BY <1>1
  <2>4. QED
    BY <1>1, <2>1, <2>2, <2>3
<1>3. ASSUME f = e PROVE r < o
  <2>1. e * N \in Nat
    BY <1>1
  <2>2. QED
    BY <1>1, <1>3, <2>1
<1>4. f < e \/ (f = e /\ r < o)
  BY <1>1, <1>2, <1>3
<1>5. QED
  BY <1>4 DEF e, f, o, r

\* A page is marked if its bit is set in the bitmap of a counted extent; what
\* changes neither the bitmaps nor the number of extents changes no mark.
LEMMA SameMarks ==
  ASSUME IdsInSequence, meta_page'.num_extents_ = meta_page.num_extents_,
         \A x \in Extent : Bits(x)' = Bits(x)
  PROVE  IdsInSequence'
<1>1. \A p \in Page : ExtentOf(p) \in Extent
  BY PageSplit
<1>2. \A p \in Page : p \in Marked' <=> p \in Marked
  BY <1>1 DEF Marked, IsPageFree
<1>3. QED
  BY <1>2 DEF IdsInSequence, Marked

\* AllocatePage gives no id twice, for any size and number of extents, whatever is
\* freed in between and wherever a restart falls: as the cleared bit of a freed
\* page is never written, the page is not used again.
THEOREM DiskIdsInSequence == Spec => []IdsInSequence
<1>1. Init => IdsInSequence
  <2>1. \A p \in Page : ~(ExtentOf(p) < 0)
    BY PageSplit DEF Extent
  <2>2. Init => meta_page.num_extents_ = 0
    BY DEF Init, ZeroMeta
  <2>3. QED
    BY <2>1, <2>2 DEF IdsInSequence, Marked
<1>2. DiskInv /\ IdsInSequence /\ [Next]_vars => IdsInSequence'
  <2> SUFFICES ASSUME DiskInv, IdsInSequence, [Next]_vars PROVE IdsInSequence'
    OBVIOUS
  <2> DEFINE n == meta_page.num_extents_
  <2>1. file \in [Phys -> Image] /\ n \in 0 .. MaxExtents /\ meta_page \in Meta
    BY DEF DiskInv, TypeOK, Meta
  <2>2. \A p \in Page : /\ ExtentOf(p) \in Extent /\ OffsetOf(p) \in Offset
                        /\ p \in Marked <=> /\ ExtentOf(p) < n
                                            /\ OffsetOf(p) \in Bits(ExtentOf(p))
                        /\ p \in Marked' <=> /\ ExtentOf(p) < n'
                                             /\ OffsetOf(p) \in Bits(ExtentOf(p))'
    BY PageSplit DEF Marked, IsPageFree
  <2>3. Marked \subseteq Page /\ Marked' \subseteq Page
    BY DEF Marked
  <2>4. ASSUME NEW e \in Extent, NEW o \in Offset, AllocatePage(e, o)
        PROVE  IdsInSequence'
    <3> SUFFICES ASSUME NEW p \in Marked', NEW q \in Page, q < p PROVE q \in Marked'
      BY DEF IdsInSequence
    <3>1. n' = n /\ e < n
      BY <2>1, <2>4, CountType DEF AllocatePage
    <3>2. Bits(e) \union {o} \in SUBSET Offset
      BY <2>1, Layout DEF Bits, Image
    <3>3. Bits(e)' = Bits(e) \union {o} /\ \A x \in Extent : x # e => Bits(x)' = Bits(x)
      BY <2>1, <2>4, <3>2, WriteBitmap DEF AllocatePage
    <3>4. CASE p \in Marked
      <4>1. q \in Marked
        BY <3>4 DEF IdsInSequence
      <4>2. QED
        BY <2>2, <3>1, <3>3, <4>1
    <3>5. CASE p \notin Marked
      <4>1. ExtentOf(p) = e /\ OffsetOf(p) = o
        BY <2>2, <2>3, <3>1, <3>3, <3>5
      <4>2. CASE ExtentOf(q) < e
        <5>1. Bits(ExtentOf(q)) = Offset
          BY <2>2, <2>4, <4>2 DEF AllocatePage
        <5>2. ExtentOf(q) < n' /\ ExtentOf(q) # e
          BY <2>1, <2>2, <3>1, <4>2 DEF Extent
        <5>3. QED
          BY <2>2, <3>3, <5>1, <5>2
      <4>3. CASE ExtentOf(q) = e /\ OffsetOf(q) < o
        <5>1. OffsetOf(q) \in Bits(e)
          BY <2>2, <2>4, <4>3 DEF AllocatePage, FirstFree
        <5>2. QED
          BY <2>2, <3>1, <3>3, <4>3, <5>1
      <4>4. QED
        BY <2>3, <4>1, <4>2, <4>3, PageOrder
    <3>6. QED
      BY <3>4, <3>5
  <2>5. ASSUME NEW e \in Extent, AllocateExtent(e) PROVE IdsInSequence'
    <3> SUFFICES ASSUME NEW p \in Marked', NEW q \in Page, q < p PROVE q \in Marked'
      BY DEF IdsInSequence
    <3>1. n = e /\ n' = e + 1
      <4>1. Count(meta_page, e, 1) \in Meta
        BY <2>1, CountType
      <4>2. QED
        BY <2>5, <4>1 DEF AllocateExtent, Meta
    <3>2. {0} \in SUBSET Offset
      BY DEF Offset
    <3>3. Bits(e)' = {0} /\ \A x \in Extent : x # e => Bits(x)' = Bits(x)
      BY <2>1, <2>5, <3>2, WriteBitmap DEF AllocateExtent
    <3>4. ASSUME ExtentOf(q) < e PROVE q \in Marked'
      <4>1. Bits(ExtentOf(q)) = Offset
        BY <2>2, <2>5, <3>4 DEF AllocateExtent
      <4>2. ExtentOf(q) < n' /\ ExtentOf(q) # e
        BY <2>2, <3>1, <3>4 DEF Extent
      <4>3. QED
        BY <2>2, <3>3, <4>1, <4>2
    <3>5. ExtentOf(p) <= e /\ (ExtentOf(p) = e => OffsetOf(p) = 0)
      BY <2>2, <2>3, <3>1, <3>3 DEF Extent
    <3>6. ExtentOf(q) < e
      BY <2>2, <2>3, <3>5, PageOrder DEF Extent, Offset
    <3>7. QED
      BY <3>4, <3>6
  <2>6. ASSUME AllocateExtentReturn PROVE IdsInSequence'
    <3>1. \A x \in Extent : Bits(x)' = Bits(x)
      BY <2>1, <2>6, WriteMeta DEF AllocateExtentReturn
    <3>2. QED
      BY <2>6, <3>1, SameMarks DEF AllocateExtentReturn
  <2>7. ASSUME NEW p \in Page, DeAllocatePage(p) PROVE IdsInSequence'
    <3>1. meta_page' \in Meta /\ n' = n
      BY <2>1, <2>2, <2>7, CountType DEF DeAllocatePage
    <3>2. \A x \in Extent : Bits(x)' = Bits(x)
      BY <2>1, <2>7, <3>1, WriteMeta DEF DeAllocatePage
    <3>3. QED
      BY <3>1, <3>2, SameMarks
  <2>8. ASSUME NEW p \in Live, NEW d \in Data, WritePage(p, d) PROVE IdsInSequence'
    <3>1. \A x \in Extent : Bits(x)' = Bits(x)
      BY <2>1, <2>8, WriteData DEF WritePage, Live
    <3>2. QED
      BY <2>8, <3>1, SameMarks DEF WritePage
  <2>9. ASSUME Restart PROVE IdsInSequence'
    <3> SUFFICES ASSUME NEW p \in Marked', NEW q \in Page, q < p PROVE q \in Marked'
      BY DEF IdsInSequence
    <3>1. n' \in Nat /\ n' <= n /\ \A x \in Extent : Bits(x)' = Bits(x)
      BY <2>1, <2>9, Layout
      DEF Restart, DiskInv, ExtentsAgree, Bits, TypeOK, Image, Meta, Extent
    <3>2. p \in Marked
      BY <2>1, <2>2, <2>3, <3>1 DEF Extent
    <3>3. q \in Marked
      BY <3>2 DEF IdsInSequence
    <3>4. ExtentOf(q) <= ExtentOf(p) /\ ExtentOf(p) < n'
      BY <2>2, <2>3, PageOrder DEF Extent
    <3>5. QED
      BY <2>2, <2>3, <3>1, <3>3, <3>4 DEF Extent
  <2>10. ASSUME UNCHANGED vars PROVE IdsInSequence'
    BY <2>10, SameMarks DEF vars, Bits
  <2>11. QED
    BY <2>4, <2>5, <2>6, <2>7, <2>8, <2>9, <2>10 DEF Next, Allocation, Writing
<1>3. QED
  BY <1>1, <1>2, DiskInvariant, PTL DEF Spec

\* ReadPage returns what WritePage last wrote: no write of a bitmap, of the
\* meta page or of another page reaches the bytes of a page.
THEOREM DiskOnlyWritesChangeBytes == Spec => OnlyWritesChangeBytes
<1> DEFINE Changed == \A p \in Page : ReadPage(p)' # ReadPage(p) =>
                         \E d \in Data : WritePage(p, d)
<1>1. DiskInv /\ [Next]_vars => [Changed]_vars
  <2> SUFFICES ASSUME DiskInv, [Next]_vars PROVE [Changed]_vars
    OBVIOUS
  <2>1. ASSUME NEW e \in Extent, NEW o \in Offset, AllocatePage(e, o) PROVE Changed
    BY <2>1, AllocatePageInv
  <2>2. ASSUME NEW e \in Extent, AllocateExtent(e) PROVE Changed
    BY <2>2, AllocateExtentInv
  <2>3. ASSUME AllocateExtentReturn PROVE Changed
    BY <2>3, AllocateExtentReturnInv
  <2>4. ASSUME NEW p \in Page, DeAllocatePage(p) PROVE Changed
    BY <2>4, DeAllocatePageInv
  <2>5. ASSUME NEW p \in Live, NEW d \in Data, WritePage(p, d) PROVE Changed
    <3>1. p \in Page
      BY DEF Live
    <3>2. \A q \in Page : q # p => ReadPage(q)' = ReadPage(q)
      BY <2>5, <3>1, WritePageInv
    <3>3. QED
      BY <2>5, <3>2
  <2>6. ASSUME Restart PROVE Changed
    BY <2>6, RestartInv
  <2>7. QED
    BY <2>1, <2>2, <2>3, <2>4, <2>5, <2>6 DEF Next, Allocation, Writing
<1>2. QED
  BY <1>1, DiskInvariant, PTL DEF Spec, OnlyWritesChangeBytes

\* The disk manager implements the page store: AllocatePage never hands out a
\* page that has an owner, and a page keeps its bytes until it is written.
THEOREM DiskImplementsPageStore == Spec => ImplementsPageStore
<1> DEFINE contents == [p \in Page |-> ReadPage(p)]
<1>1. Init => PS!Init
  <2> SUFFICES ASSUME Init PROVE PS!Init
    OBVIOUS
  <2>1. \A p \in Page : ReadPage(p) = Zero
    BY Layout, Images DEF Init, ReadPage
  <2>2. QED
    BY <2>1 DEF Init, PS!Init
<1>2. DiskInv /\ [Next]_vars => [PS!Next]_(PS!vars)
  <2> SUFFICES ASSUME DiskInv, [Next]_vars PROVE [PS!Next]_(PS!vars)
    OBVIOUS
  <2>1. \A p \in Page : ReadPage(p) \in Data
    BY Layout DEF DiskInv, TypeOK, ReadPage, Image
  <2>2. ASSUME \A p \in Page : ReadPage(p)' = ReadPage(p)
        PROVE  contents' = contents /\ \A p \in Page :
                  \E d \in Data : contents' = [contents EXCEPT ![p] = d]
    <3>1. contents' = contents
      BY <2>2
    <3>2. \A p \in Page : contents' = [contents EXCEPT ![p] = ReadPage(p)]
      BY <3>1
    <3>3. QED
      BY <2>1, <3>1, <3>2
  <2>3. ASSUME NEW e \in Extent, NEW o \in Offset, AllocatePage(e, o)
        PROVE  PS!Next
    <3>1. o + e * N \in Page /\ owners[o + e * N] = 0
      BY <2>3, PageJoin, AllocatePageInv
    <3>2. owners' = [owners EXCEPT ![o + e * N] = 1]
      BY <2>3, <3>1 DEF AllocatePage, DiskInv, TypeOK
    <3>3. \E d \in Data : contents' = [contents EXCEPT ![o + e * N] = d]
      BY <2>2, <2>3, <3>1, AllocatePageInv
    <3>4. PS!Allocate(o + e * N)
      BY <3>1, <3>2, <3>3 DEF PS!Allocate
    <3>5. QED
      BY <3>1, <3>4 DEF PS!Next
  <2>4. ASSUME NEW e \in Extent, AllocateExtent(e) PROVE UNCHANGED PS!vars
    <3>1. contents' = contents /\ owners' = owners
      BY <2>2, <2>4, AllocateExtentInv DEF AllocateExtent
    <3>2. QED
      BY <3>1 DEF PS!vars
  <2>5. ASSUME AllocateExtentReturn PROVE PS!Next
    <3>1. opening \in Page /\ owners[opening] = 0
      BY <2>5, AllocateExtentReturnInv
    <3>2. owners' = [owners EXCEPT ![opening] = 1]
      BY <2>5, <3>1 DEF AllocateExtentReturn, DiskInv, TypeOK
    <3>3. \E d \in Data : contents' = [contents EXCEPT ![opening] = d]
      BY <2>2, <2>5, <3>1, AllocateExtentReturnInv
    <3>4. PS!Allocate(opening)
      BY <3>1, <3>2, <3>3 DEF PS!Allocate
    <3>5. QED
      BY <3>1, <3>4 DEF PS!Next
  <2>6. ASSUME NEW p \in Page, DeAllocatePage(p) PROVE PS!Next
    <3>1. \E d \in Data : contents' = [contents EXCEPT ![p] = d]
      BY <2>2, <2>6, DeAllocatePageInv
    <3>2. PS!Free(p)
      BY <2>6, <3>1 DEF PS!Free, DeAllocatePage
    <3>3. QED
      BY <3>2 DEF PS!Next
  <2>7. ASSUME NEW p \in Live, NEW d \in Data, WritePage(p, d) PROVE PS!Next
    <3>1. p \in Page
      BY DEF Live
    <3>2. ReadPage(p)' = d /\ \A q \in Page : q # p => ReadPage(q)' = ReadPage(q)
      BY <2>7, <3>1, WritePageInv
    <3>3. contents' = [contents EXCEPT ![p] = d]
      BY <3>1, <3>2
    <3>4. PS!Write(p, d)
      BY <2>7, <3>3 DEF PS!Write, WritePage, Live
    <3>5. QED
      BY <3>1, <3>4 DEF PS!Next
  <2>8. ASSUME Restart PROVE UNCHANGED PS!vars
    <3>1. contents' = contents /\ owners' = owners
      BY <2>2, <2>8, RestartInv DEF Restart
    <3>2. QED
      BY <3>1 DEF PS!vars
  <2>9. ASSUME UNCHANGED vars PROVE UNCHANGED PS!vars
    <3>1. contents' = contents /\ owners' = owners
      BY <2>9 DEF vars, ReadPage
    <3>2. QED
      BY <3>1 DEF PS!vars
  <2>10. QED
    BY <2>3, <2>4, <2>5, <2>6, <2>7, <2>8, <2>9 DEF Next, Allocation, Writing
<1>3. QED
  BY <1>1, <1>2, DiskInvariant, PTL DEF Spec, ImplementsPageStore, PS!Spec

-----------------------------------------------------------------------------
(***************************************************************************)
(* The counters: sums over the extents, by their least counterexamples.    *)
(***************************************************************************)
\* Every set of naturals has a least element.
LEMMA LeastElement ==
  ASSUME NEW S, S \subseteq Nat, S # {}
  PROVE  \E x \in S : \A y \in S : x <= y
<1> DEFINE R == {ss \in Nat \X Nat : ss[1] < ss[2]}
<1>1. IsWellFoundedOn(R, Nat)
  BY NatLessThanWellFounded, Zenon DEF OpToRel
<1>2. PICK x \in S : \A y \in S : ~(<<y, x>> \in R)
  <2> HIDE DEF R
  <2>1. QED
    BY <1>1, WFMin, Zenon
<1>3. \A y, z \in Nat : y < z => <<y, z>> \in R
  OBVIOUS
<1> HIDE DEF R
<1>4. ASSUME NEW y \in S PROVE x <= y
  <2>1. x \in Nat /\ y \in Nat
    OBVIOUS
  <2>2. ~(y < x)
    BY <1>2, <1>3, <2>1, Zenon
  <2>3. QED
    BY <2>1, <2>2
<1>5. QED
  BY <1>4

\* Partial sums exist.
LEMMA SumExists ==
  ASSUME NEW u, NEW n \in Nat
  PROVE  \E f : f = [e \in 0 .. n |-> IF e = 0 THEN 0 ELSE f[e - 1] + u[e - 1]]
<1> DEFINE Sum(f, k) == f = [e \in 0 .. k |-> IF e = 0 THEN 0 ELSE f[e - 1] + u[e - 1]]
           Bad == {k \in Nat : ~ \E f : Sum(f, k)}
<1>1. SUFFICES Bad = {}
  OBVIOUS
<1>2. SUFFICES ASSUME NEW k \in Bad, \A j \in Bad : k <= j PROVE FALSE
  <2>1. Bad \subseteq Nat
    OBVIOUS
  <2> HIDE DEF Bad
  <2>2. QED
    BY <2>1, LeastElement
<1>3. CASE k = 0
  <2>1. Sum([e \in 0 .. 0 |-> 0], 0)
    OBVIOUS
  <2>2. QED
    BY <1>3, <2>1
<1>4. CASE k # 0
  <2>1. k \in Nat /\ k - 1 \in Nat /\ k - 1 \notin Bad
    <3>1. k \in Nat
      OBVIOUS
    <3> HIDE DEF Bad
    <3>2. QED
      BY <1>2, <1>4, <3>1
  <2>2. PICK f : Sum(f, k - 1)
    BY <2>1
  <2> DEFINE g == [e \in 0 .. k |-> IF e = k THEN f[k - 1] + u[k - 1] ELSE f[e]]
  <2>3. ASSUME NEW e \in 0 .. k
        PROVE  g[e] = IF e = 0 THEN 0 ELSE g[e - 1] + u[e - 1]
    <3>1. CASE e = k
      BY <1>4, <2>1, <3>1
    <3>2. CASE e # k
      <4>1. e \in 0 .. k - 1 /\ g[e] = f[e] /\ (e # 0 => g[e - 1] = f[e - 1])
        BY <2>1, <3>2
      <4>2. f[e] = IF e = 0 THEN 0 ELSE f[e - 1] + u[e - 1]
        BY <2>2, <4>1
      <4>3. QED
        BY <4>1, <4>2
    <3>3. QED
      BY <3>1, <3>2
  <2>4. Sum(g, k)
    BY <2>3
  <2>5. QED
    BY <2>4
<1>5. QED
  BY <1>3, <1>4

\* The sum of the pages used, extent by extent.
LEMMA UsedBeforeDef ==
  ASSUME NEW m
  PROVE  \A e \in 0 .. MaxExtents :
           UsedBefore(m)[e] =
             IF e = 0 THEN 0 ELSE UsedBefore(m)[e - 1] + m.extent_used_page_[e - 1]
<1> DEFINE u == m.extent_used_page_
           used == CHOOSE f : f = [e \in 0 .. MaxExtents |->
                                     IF e = 0 THEN 0 ELSE f[e - 1] + u[e - 1]]
<1>1. UsedBefore(m) = used
  BY DEF UsedBefore
<1>2. used = [e \in 0 .. MaxExtents |-> IF e = 0 THEN 0 ELSE used[e - 1] + u[e - 1]]
  <2> HIDE DEF u
  <2>1. MaxExtents \in Nat
    OBVIOUS
  <2>2. \E f : f = [e \in 0 .. MaxExtents |-> IF e = 0 THEN 0 ELSE f[e - 1] + u[e - 1]]
    BY <2>1, SumExists
  <2>3. QED
    BY <2>2
<1> HIDE DEF used, u
<1>3. \A e \in 0 .. MaxExtents : used[e] = IF e = 0 THEN 0 ELSE used[e - 1] + u[e - 1]
  BY <1>2
<1>4. QED
  BY <1>1, <1>3 DEF u

\* The sums are numbers.
LEMMA SumsAreNumbers ==
  ASSUME NEW m \in Meta
  PROVE  \A e \in 0 .. MaxExtents : UsedBefore(m)[e] \in Nat
<1> DEFINE s == UsedBefore(m)
           u == m.extent_used_page_
           Bad == {e \in 0 .. MaxExtents : s[e] \notin Nat}
<1>1. \A e \in 0 .. MaxExtents : s[e] = IF e = 0 THEN 0 ELSE s[e - 1] + u[e - 1]
  BY UsedBeforeDef
<1>2. \A e \in Extent : u[e] \in Nat
  BY DEF Meta, Word
<1> HIDE DEF s, u
<1>3. SUFFICES ASSUME NEW e \in Bad, \A x \in Bad : e <= x PROVE FALSE
  <2>1. Bad \subseteq Nat
    OBVIOUS
  <2>2. Bad = {} => \A e \in 0 .. MaxExtents : s[e] \in Nat
    OBVIOUS
  <2> HIDE DEF Bad
  <2>3. QED
    BY <2>1, <2>2, LeastElement DEF s
<1>4. e \in 0 .. MaxExtents /\ s[e] \notin Nat
  OBVIOUS
<1>5. e # 0
  BY <1>1, <1>4
<1>6. e - 1 \notin Bad
  <2> HIDE DEF Bad
  <2>1. QED
    BY <1>3, <1>4
<1>7. s[e - 1] \in Nat /\ e - 1 \in Extent
  BY <1>4, <1>5, <1>6 DEF Extent
<1>8. QED
  BY <1>1, <1>2, <1>4, <1>5, <1>7

\* One counter changes: the sums before it stay, those behind it follow.
LEMMA SumChange ==
  ASSUME NEW m \in Meta, NEW w \in Meta, NEW x \in Extent,
         \A e \in Extent \ {x} : w.extent_used_page_[e] = m.extent_used_page_[e]
  PROVE  UsedBefore(w)[MaxExtents] =
           UsedBefore(m)[MaxExtents] + (w.extent_used_page_[x] - m.extent_used_page_[x])
<1> DEFINE s == UsedBefore(m)
           t == UsedBefore(w)
           u == m.extent_used_page_
           v == w.extent_used_page_
           change(e) == IF e <= x THEN 0 ELSE v[x] - u[x]
           Bad == {e \in 0 .. MaxExtents : t[e] # s[e] + change(e)}
<1>1. \A e \in 0 .. MaxExtents :
        /\ s[e] = IF e = 0 THEN 0 ELSE s[e - 1] + u[e - 1]
        /\ t[e] = IF e = 0 THEN 0 ELSE t[e - 1] + v[e - 1]
        /\ s[e] \in Nat /\ t[e] \in Nat
  BY UsedBeforeDef, SumsAreNumbers
<1>2. /\ \A e \in Extent : u[e] \in Nat /\ v[e] \in Nat
      /\ \A e \in Extent \ {x} : v[e] = u[e]
  BY DEF Meta, Word
<1> HIDE DEF s, t, u, v
<1>3. ASSUME NEW e \in Bad, \A y \in Bad : e <= y PROVE FALSE
  <2>1. e \in 0 .. MaxExtents /\ t[e] # s[e] + change(e) /\ x \in Int
    BY DEF Extent
  <2>2. e # 0
    BY <1>1, <2>1 DEF Extent
  <2>3. e - 1 \notin Bad
    <3> HIDE DEF Bad
    <3>1. QED
      BY <1>3, <2>1
  <2>4. t[e - 1] = s[e - 1] + change(e - 1) /\ e - 1 \in Extent /\ e - 1 \in 0 .. MaxExtents
    BY <2>1, <2>2, <2>3 DEF Extent
  <2>5. t[e] = t[e - 1] + v[e - 1] /\ s[e] = s[e - 1] + u[e - 1]
    BY <1>1, <2>1, <2>2
  <2>6. CASE e - 1 = x
    <3>1. change(e - 1) = 0 /\ change(e) = v[x] - u[x]
      BY <2>1, <2>6
    <3> HIDE DEF change
    <3>2. QED
      BY <1>1, <1>2, <2>1, <2>4, <2>5, <2>6, <3>1
  <2>7. CASE e - 1 # x
    <3>1. change(e - 1) = change(e) /\ v[e - 1] = u[e - 1]
      BY <1>2, <2>1, <2>4, <2>7
    <3>2. change(e) \in Int
      BY <1>2
    <3> HIDE DEF change
    <3>3. QED
      BY <1>1, <1>2, <2>1, <2>4, <2>5, <3>1, <3>2
  <2>8. QED
    BY <2>6, <2>7
<1>4. Bad = {}
  <2>1. Bad \subseteq Nat
    OBVIOUS
  <2> HIDE DEF Bad
  <2>2. QED
    BY <1>3, <2>1, LeastElement
<1>5. MaxExtents \in 0 .. MaxExtents /\ ~(MaxExtents <= x)
  BY DEF Extent
<1>6. t[MaxExtents] = s[MaxExtents] + change(MaxExtents)
  BY <1>4, <1>5
<1>7. QED
  BY <1>5, <1>6 DEF s, t, u, v

\* Counting up or down keeps a word in step with a sum, also where it wraps.
LEMMA StepOfWord ==
  ASSUME NEW w \in Word, NEW delta \in {-1, 1}
  PROVE  \E c \in {-1, 0, 1} : (w + delta + WordSize) % WordSize = w + delta + c * WordSize
<1>1. WordSize \in Nat \ {0} /\ w \in 0 .. WordSize - 1
  BY DEF Word
<1>2. CASE w + delta < 0
  BY <1>1, <1>2
<1>3. CASE w + delta >= 0 /\ w + delta < WordSize
  BY <1>1, <1>3
<1>4. CASE w + delta = WordSize
  BY <1>1, <1>4
<1>5. QED
  BY <1>1, <1>2, <1>3, <1>4

\* A counter that wraps round steps with the sum it counts.
LEMMA StepOfSum ==
  ASSUME NEW s \in Nat, NEW delta \in {-1, 1}, NEW c \in {-1, 0, 1},
         s + delta + c * WordSize \in Nat
  PROVE  (s + delta + c * WordSize) % WordSize = ((s % WordSize) + delta + WordSize) % WordSize
<1> DEFINE q == s \div WordSize
           r == s % WordSize
<1>1. WordSize \in Nat \ {0}
  OBVIOUS
<1>2. s = WordSize * q + r /\ r \in 0 .. WordSize - 1 /\ q \in Nat
  BY <1>1, Division
<1> HIDE DEF q, r
<1>3. \A k \in Int, x \in 0 .. WordSize - 1 : (WordSize * k + x) % WordSize = x
  BY <1>1
<1>4. PICK b \in {-1, 0, 1} : (r + delta + WordSize) % WordSize = r + delta + b * WordSize
  BY <1>2, StepOfWord DEF Word
<1>5. r + delta + b * WordSize \in 0 .. WordSize - 1
  <2>1. r + delta + WordSize \in Nat
    BY <1>1, <1>2
  <2>2. QED
    BY <1>1, <1>4, <2>1, Division
<1>6. s + delta + c * WordSize = WordSize * (q + c - b) + (r + delta + b * WordSize)
  BY <1>1, <1>2
<1>7. q + c - b \in Int
  BY <1>2
<1>8. (s + delta + c * WordSize) % WordSize = r + delta + b * WordSize
  BY <1>3, <1>5, <1>6, <1>7
<1>9. QED
  BY <1>4, <1>8 DEF r

\* Total looks at the counters of the extents only.
LEMMA SameTotal ==
  ASSUME NEW m, NEW w, w.extent_used_page_ = m.extent_used_page_
  PROVE  Total(w) = Total(m)
BY DEF Total, UsedBefore

\* Count keeps the total in step with the counters of the extents.
LEMMA CountTotal ==
  ASSUME NEW m \in Meta, NEW e \in Extent, NEW delta \in {-1, 1},
         m.num_allocated_pages_ = Total(m)
  PROVE  Count(m, e, delta).num_allocated_pages_ = Total(Count(m, e, delta))
<1> DEFINE w == Count(m, e, delta)
           s == UsedBefore(m)[MaxExtents]
           old == m.extent_used_page_[e]
<1>1. /\ w \in Meta /\ old \in Word
      /\ w.num_allocated_pages_ = (m.num_allocated_pages_ + delta + WordSize) % WordSize
      /\ w.extent_used_page_[e] = (old + delta + WordSize) % WordSize
      /\ \A x \in Extent \ {e} : w.extent_used_page_[x] = m.extent_used_page_[x]
  <2> DEFINE n == (m.num_allocated_pages_ + delta + WordSize) % WordSize
             k == (old + delta + WordSize) % WordSize
  <2>1. w \in Meta
    BY CountType
  <2>2. /\ m.extent_used_page_ \in [Extent -> Word]
        /\ m = [num_allocated_pages_ |-> m.num_allocated_pages_,
                num_extents_ |-> m.num_extents_,
                extent_used_page_ |-> m.extent_used_page_]
    BY DEF Meta
  <2>3. w = [m EXCEPT !.num_allocated_pages_ = n, !.extent_used_page_[e] = k]
    BY DEF Count
  <2> HIDE DEF w, n, k
  <2>4. /\ w.num_allocated_pages_ = n
        /\ w.extent_used_page_ = [m.extent_used_page_ EXCEPT ![e] = k]
    BY <2>2, <2>3
  <2>5. QED
    BY <2>1, <2>2, <2>4 DEF n, k
<1>2. PICK c \in {-1, 0, 1} : (old + delta + WordSize) % WordSize = old + delta + c * WordSize
  BY <1>1, StepOfWord
<1> HIDE DEF w
<1>3. UsedBefore(w)[MaxExtents] = s + (w.extent_used_page_[e] - old)
  BY <1>1, SumChange
<1>4. s \in Nat /\ UsedBefore(w)[MaxExtents] \in Nat
  BY <1>1, SumsAreNumbers
<1>5. m.num_allocated_pages_ = s % WordSize
  BY DEF Total
<1> HIDE DEF s, old
<1>6. UsedBefore(w)[MaxExtents] = s + delta + c * WordSize
  <2>1. /\ w.extent_used_page_[e] = old + delta + c * WordSize
        /\ old \in Int /\ c * WordSize \in Int
    BY <1>1, <1>2 DEF Word
  <2>2. \A x \in Int : x + delta + c * WordSize - x = delta + c * WordSize
    BY <2>1
  <2>3. QED
    BY <1>3, <1>4, <2>1, <2>2
<1>7. UsedBefore(w)[MaxExtents] % WordSize = ((s % WordSize) + delta + WordSize) % WordSize
  <2>1. s + delta + c * WordSize \in Nat
    BY <1>4, <1>6
  <2>2. (s + delta + c * WordSize) % WordSize = ((s % WordSize) + delta + WordSize) % WordSize
    BY <1>4, <2>1, StepOfSum, Zenon
  <2>3. QED
    BY <1>6, <2>2, Zenon
<1>8. QED
  BY <1>1, <1>5, <1>7 DEF Total, w

\* The total of the meta page is the sum of the extents' counters, in memory and
\* on file, for any word size: the two are always changed together and wrap
\* together.
THEOREM DiskCountersAgree == Spec => []CountersAgree
<1> DEFINE Agree(m) == m.num_allocated_pages_ = Total(m)
<1>1. Init => CountersAgree
  <2> SUFFICES ASSUME Init PROVE CountersAgree
    OBVIOUS
  <2>1. meta_page = ZeroMeta /\ file[META_PAGE_ID].meta = ZeroMeta
    BY Layout, Images DEF Init
  <2>2. Total(ZeroMeta) = 0
    <3> DEFINE s == UsedBefore(ZeroMeta)
               Bad == {e \in 0 .. MaxExtents : s[e] # 0}
    <3>1. \A e \in 0 .. MaxExtents :
            s[e] = IF e = 0 THEN 0 ELSE s[e - 1] + ZeroMeta.extent_used_page_[e - 1]
      BY UsedBeforeDef
    <3>2. \A e \in Extent : ZeroMeta.extent_used_page_[e] = 0
      BY DEF ZeroMeta
    <3> HIDE DEF s
    <3>3. ASSUME NEW e \in Bad, \A x \in Bad : e <= x PROVE FALSE
      <4>1. e \in 0 .. MaxExtents /\ s[e] # 0
        OBVIOUS
      <4>2. e # 0
        BY <3>1, <4>1
      <4>3. e - 1 \notin Bad
        <5> HIDE DEF Bad
        <5>1. QED
          BY <3>3, <4>1
      <4>4. e - 1 \in 0 .. MaxExtents /\ e - 1 \in Extent
        BY <4>1, <4>2 DEF Extent
      <4>5. s[e - 1] = 0
        BY <4>3, <4>4
      <4>6. QED
        BY <3>1, <3>2, <4>1, <4>2, <4>4, <4>5
    <3>4. Bad = {}
      <4>1. Bad \subseteq Nat
        OBVIOUS
      <4> HIDE DEF Bad
      <4>2. QED
        BY <3>3, <4>1, LeastElement
    <3>5. s[MaxExtents] = 0
      BY <3>4
    <3>6. QED
      BY <3>5 DEF Total, s
  <2>3. ZeroMeta.num_allocated_pages_ = 0
    BY DEF ZeroMeta
  <2>4. QED
    BY <2>1, <2>2, <2>3 DEF CountersAgree
<1>2. DiskInv /\ CountersAgree /\ [Next]_vars => CountersAgree'
  <2> SUFFICES ASSUME DiskInv, CountersAgree, [Next]_vars PROVE CountersAgree'
    OBVIOUS
  <2>1. /\ file \in [Phys -> Image] /\ meta_page \in Meta
        /\ Agree(meta_page) /\ Agree(file[META_PAGE_ID].meta)
    BY DEF DiskInv, TypeOK, CountersAgree
  <2>2. SUFFICES Agree(meta_page') /\ Agree(file'[META_PAGE_ID].meta)
    BY DEF CountersAgree, Total, UsedBefore
  <2>3. \A m \in Meta, e \in Extent, delta \in {-1, 1} :
          Agree(m) => Agree(Count(m, e, delta)) /\ Count(m, e, delta) \in Meta
    BY CountTotal, CountType
  <2> HIDE DEF Agree
  <2>4. ASSUME NEW e \in Extent, NEW o \in Offset, AllocatePage(e, o)
        PROVE  Agree(meta_page') /\ Agree(file'[META_PAGE_ID].meta)
    <3>1. file'[META_PAGE_ID] = file[META_PAGE_ID]
      BY <2>1, <2>4, Layout DEF AllocatePage
    <3>2. QED
      BY <2>1, <2>3, <2>4, <3>1 DEF AllocatePage
  <2>5. ASSUME NEW e \in Extent, AllocateExtent(e)
        PROVE  Agree(meta_page') /\ Agree(file'[META_PAGE_ID].meta)
    <3>1. file'[META_PAGE_ID] = file[META_PAGE_ID]
      BY <2>1, <2>5, Layout DEF AllocateExtent
    <3> DEFINE w == Count(meta_page, e, 1)
    <3>2. w \in Meta /\ Agree(w) /\ meta_page' = [w EXCEPT !.num_extents_ = e + 1]
      BY <2>1, <2>3, <2>5 DEF AllocateExtent
    <3> HIDE DEF w
    <3>3. /\ meta_page'.num_allocated_pages_ = w.num_allocated_pages_
          /\ meta_page'.extent_used_page_ = w.extent_used_page_
      BY <3>2 DEF Meta
    <3>4. Agree(meta_page')
      BY <3>2, <3>3, SameTotal DEF Agree
    <3>5. QED
      BY <2>1, <3>1, <3>4
  <2>6. ASSUME AllocateExtentReturn
        PROVE  Agree(meta_page') /\ Agree(file'[META_PAGE_ID].meta)
    BY <2>1, <2>6, WriteMeta DEF AllocateExtentReturn
  <2>7. ASSUME NEW p \in Page, DeAllocatePage(p)
        PROVE  Agree(meta_page') /\ Agree(file'[META_PAGE_ID].meta)
    <3>1. ExtentOf(p) \in Extent
      BY PageSplit
    <3>2. meta_page' \in Meta /\ Agree(meta_page')
      BY <2>1, <2>3, <2>7, <3>1 DEF DeAllocatePage
    <3>3. file'[META_PAGE_ID].meta = meta_page'
      BY <2>1, <2>7, <3>2, WriteMeta DEF DeAllocatePage
    <3>4. QED
      BY <3>2, <3>3
  <2>8. ASSUME NEW p \in Live, NEW d \in Data, WritePage(p, d)
        PROVE  Agree(meta_page') /\ Agree(file'[META_PAGE_ID].meta)
    <3>1. file'[META_PAGE_ID] = file[META_PAGE_ID] /\ meta_page' = meta_page
      BY <2>1, <2>8, WriteData DEF WritePage, Live
    <3>2. QED
      BY <2>1, <3>1
  <2>9. ASSUME Restart
        PROVE  Agree(meta_page') /\ Agree(file'[META_PAGE_ID].meta)
    BY <2>1, <2>9 DEF Restart
  <2>10. CASE UNCHANGED vars
    BY <2>1, <2>10 DEF vars
  <2>11. QED
    BY <2>4, <2>5, <2>6, <2>7, <2>8, <2>9, <2>10 DEF Next, Allocation, Writing
<1>3. QED
  BY <1>1, <1>2, DiskInvariant, PTL DEF Spec

=============================================================================
