---------------------------- MODULE MachineProofs ----------------------------
(* Theorems about the parts of the vision program that keep state of their *)
(* own, for any values of their constants.                                 *)
EXTENDS MCMachines, ZoomedImageProofs, SequenceTheorems, FiniteSetTheorems

(***************************************************************************)
(* ImageMemory: images p and a raw image r over a heap h.                  *)
(***************************************************************************)
PixelRecords == [data : Buffers \cup {0}, external : BOOLEAN,
                 width : Sides, height : Sides]
RawRecords == [data : Buffers \cup {0}, width : Sides, height : Sides]

Owns(p, i) == p[i].data # 0 /\ ~p[i].external

(* PixelsAreOwned, buffer by buffer.                                       *)
Typed(p, r, h) == /\ p \in [ImageObjects -> PixelRecords]
                  /\ r \in RawRecords
                  /\ DOMAIN h \subseteq Buffers

Kept(p, r, h) ==
    /\ \A b : b \in DOMAIN h <=>
          \/ b # 0 /\ r.data = b
          \/ \E i \in ImageObjects : Owns(p, i) /\ p[i].data = b
    /\ \A i \in ImageObjects : Owns(p, i) =>
          h[p[i].data] = p[i].width * p[i].height /\ p[i].data # r.data
    /\ r.data # 0 => h[r.data] = r.width * r.height
    /\ \A i, j \in ImageObjects :
          Owns(p, i) /\ Owns(p, j) /\ p[i].data = p[j].data => i = j

Fits(p, h) ==
    \A i \in ImageObjects :
       p[i].external /\ p[i].data \in DOMAIN h =>
          p[i].width * p[i].height <= h[p[i].data]

AllGood(p, r, h) == Typed(p, r, h) /\ Kept(p, r, h) /\ Fits(p, h)

Good == AllGood(pixelsOf, rawPixels, heapSizes)

(* Buffer by buffer is owner by owner.                                     *)
LEMMA GoodMeansOwned == Good => PixelsAreOwned
<1> SUFFICES ASSUME Good PROVE PixelsAreOwned
  OBVIOUS
<1>1. /\ Typed(pixelsOf, rawPixels, heapSizes)
      /\ Kept(pixelsOf, rawPixels, heapSizes)
      /\ Fits(pixelsOf, heapSizes)
  BY DEF Good, AllGood
<1>2. \A i : i \in Owners <=> i \in ImageObjects /\ Owns(pixelsOf, i)
  BY DEF Owners, Owns
<1>3. \A o : o \in Owned <=>
               \/ o = rawPixels /\ rawPixels.data # 0
               \/ \E i \in Owners : o = pixelsOf[i]
  BY DEF Owned
<1>4. \A b : b \in Live <=>
               \/ b # 0 /\ rawPixels.data = b
               \/ \E i \in Owners : pixelsOf[i].data = b
  BY <1>1, <1>2 DEF Kept, Live
<1>5. \A b : b \in Live <=> \E o \in Owned : o.data = b
  BY <1>3, <1>4
<1>6. Live = {o.data : o \in Owned}
  BY <1>5
<1>7. \A o \in Owned : heapSizes[o.data] = o.width * o.height
  BY <1>1, <1>2, <1>3 DEF Kept
<1>8. OwnersAreSound
  BY <1>1, <1>2, <1>6, <1>7 DEF Kept, OwnersAreSound
<1>9. BorrowedFit
  BY <1>1 DEF Fits, BorrowedFit, Live
<1>10. MemoryTypeOK
  BY <1>1 DEF Typed, PixelRecords, RawRecords, MemoryTypeOK
<1> QED
  BY <1>8, <1>9, <1>10 DEF PixelsAreOwned

(* The product of two sides is a number of pixels.                         *)
LEMMA Products ==
  ASSUME NEW w \in Sides, NEW v \in Sides
  PROVE  w * v \in Nat
BY MemoryAssumption

(* An image that gives up its pixels, and has none of its own afterwards.  *)
LEMMA ImageReleases ==
  ASSUME NEW p, NEW r, NEW h, AllGood(p, r, h),
         NEW i \in ImageObjects, NEW x \in PixelRecords,
         x.external \/ x.data = 0,
         NEW g, g = (IF Owns(p, i) THEN Freed(h, p[i].data) ELSE h),
         x.external /\ x.data \in DOMAIN g => x.width * x.height <= g[x.data]
  PROVE  AllGood([p EXCEPT ![i] = x], r, g)
<1> DEFINE q == [p EXCEPT ![i] = x]
<1>1. /\ p \in [ImageObjects -> PixelRecords] /\ r \in RawRecords
      /\ DOMAIN h \subseteq Buffers
      /\ Kept(p, r, h) /\ Fits(p, h)
  BY DEF AllGood, Typed
<1>2. /\ q \in [ImageObjects -> PixelRecords]
      /\ q[i] = x
      /\ \A j \in ImageObjects \ {i} : q[j] = p[j]
  BY <1>1
<1> HIDE DEF q
<1>3. ~Owns(q, i) /\ \A j \in ImageObjects \ {i} : Owns(q, j) <=> Owns(p, j)
  BY <1>2 DEF Owns
<1>4. /\ \A b : b \in DOMAIN g <=>
                  b \in DOMAIN h /\ ~(Owns(p, i) /\ b = p[i].data)
      /\ \A b \in DOMAIN g : g[b] = h[b]
  BY DEF Freed, Restrict
<1>5. Kept(q, r, g)
  BY <1>1, <1>2, <1>3, <1>4 DEF Kept
<1>6. Fits(q, g)
  BY <1>1, <1>2, <1>4 DEF Fits
<1>7. Typed(q, r, g)
  BY <1>1, <1>2, <1>4 DEF Typed
<1> QED
  BY <1>5, <1>6, <1>7 DEF AllGood, q

(* An image without pixels of its own that gets new ones.                  *)
LEMMA ImageAcquires ==
  ASSUME NEW p, NEW r, NEW h, AllGood(p, r, h),
         NEW i \in ImageObjects, ~Owns(p, i),
         NEW w \in Sides, NEW v \in Sides,
         NEW b \in Buffers, b # r.data, b \notin DOMAIN h,
         \A j \in ImageObjects : p[j].data # b
  PROVE  AllGood([p EXCEPT ![i] = [data |-> b, external |-> FALSE,
                                   width |-> w, height |-> v]],
                 r, With(h, b, w * v))
<1> DEFINE x == [data |-> b, external |-> FALSE, width |-> w, height |-> v]
           q == [p EXCEPT ![i] = x]
           g == With(h, b, w * v)
<1>1. /\ p \in [ImageObjects -> PixelRecords] /\ r \in RawRecords
      /\ DOMAIN h \subseteq Buffers /\ b # 0
      /\ Kept(p, r, h) /\ Fits(p, h)
  BY MemoryAssumption DEF AllGood, Typed
<1>2. /\ q \in [ImageObjects -> PixelRecords]
      /\ q[i] = x
      /\ \A j \in ImageObjects \ {i} : q[j] = p[j]
  BY <1>1 DEF PixelRecords
<1>3. /\ x.data = b /\ x.width = w /\ x.height = v /\ ~x.external
  OBVIOUS
<1>4. /\ \A c : c \in DOMAIN g <=> c \in DOMAIN h \/ c = b
      /\ g[b] = w * v
      /\ \A c \in DOMAIN h : g[c] = h[c]
  BY DEF With
<1> HIDE DEF q, g, x
<1>5. /\ Owns(q, i)
      /\ \A j \in ImageObjects \ {i} : Owns(q, j) <=> Owns(p, j)
  BY <1>1, <1>2, <1>3 DEF Owns
<1>6. Kept(q, r, g)
  BY <1>1, <1>2, <1>3, <1>4, <1>5 DEF Kept
<1>7. Fits(q, g)
  BY <1>1, <1>2, <1>3, <1>4 DEF Fits
<1>8. Typed(q, r, g)
  BY <1>1, <1>2, <1>4 DEF Typed
<1> QED
  BY <1>6, <1>7, <1>8 DEF AllGood, q, g, x

(* A raw image that gives up its pixels.                                   *)
LEMMA RawReleases ==
  ASSUME NEW p, NEW r, NEW h, AllGood(p, r, h),
         NEW q \in RawRecords, q.data = 0,
         NEW g, g = (IF r.data # 0 THEN Freed(h, r.data) ELSE h)
  PROVE  AllGood(p, q, g)
<1>1. /\ p \in [ImageObjects -> PixelRecords] /\ r \in RawRecords
      /\ DOMAIN h \subseteq Buffers
      /\ Kept(p, r, h) /\ Fits(p, h)
  BY DEF AllGood, Typed
<1>2. /\ \A b : b \in DOMAIN g <=>
                  b \in DOMAIN h /\ ~(r.data # 0 /\ b = r.data)
      /\ \A b \in DOMAIN g : g[b] = h[b]
  BY DEF Freed, Restrict
<1>3. \A i \in ImageObjects : Owns(p, i) => p[i].data # 0
  BY DEF Owns
<1>4. Kept(p, q, g)
  BY <1>1, <1>2, <1>3 DEF Kept
<1>5. Fits(p, g)
  BY <1>1, <1>2 DEF Fits
<1>6. Typed(p, q, g)
  BY <1>1, <1>2 DEF Typed
<1> QED
  BY <1>4, <1>5, <1>6 DEF AllGood

(* A raw image without pixels that gets some.                              *)
LEMMA RawAcquires ==
  ASSUME NEW p, NEW r, NEW h, AllGood(p, r, h), r.data = 0,
         NEW w \in Sides, NEW v \in Sides,
         NEW b \in Buffers, b \notin DOMAIN h,
         \A j \in ImageObjects : p[j].data # b
  PROVE  AllGood(p, [data |-> b, width |-> w, height |-> v],
                 With(h, b, w * v))
<1> DEFINE q == [data |-> b, width |-> w, height |-> v]
           g == With(h, b, w * v)
<1>1. /\ p \in [ImageObjects -> PixelRecords] /\ r \in RawRecords
      /\ DOMAIN h \subseteq Buffers /\ b # 0
      /\ Kept(p, r, h) /\ Fits(p, h)
  BY MemoryAssumption DEF AllGood, Typed
<1>2. /\ q.data = b /\ q.width = w /\ q.height = v
      /\ q \in RawRecords
  BY DEF RawRecords
<1>3. /\ \A c : c \in DOMAIN g <=> c \in DOMAIN h \/ c = b
      /\ g[b] = w * v
      /\ \A c \in DOMAIN h : g[c] = h[c]
  BY DEF With
<1> HIDE DEF q, g
<1>4. Kept(p, q, g)
  BY <1>1, <1>2, <1>3 DEF Kept, Owns
<1>5. Fits(p, g)
  BY <1>1, <1>3 DEF Fits
<1>6. Typed(p, q, g)
  BY <1>1, <1>2, <1>3 DEF Typed
<1> QED
  BY <1>4, <1>5, <1>6 DEF AllGood, q, g

(* Every step keeps it.                                                    *)
LEMMA DestroyIsGood ==
  ASSUME Good, NEW i \in ImageObjects, Destroy(i)
  PROVE  Good'
<1>1. EmptyPixels \in PixelRecords /\ ~EmptyPixels.external
      /\ EmptyPixels.data = 0
  BY MemoryAssumption DEF EmptyPixels, PixelRecords
<1>2. heapSizes' = IF Owns(pixelsOf, i) THEN Freed(heapSizes, pixelsOf[i].data)
                                        ELSE heapSizes
  BY DEF Destroy, FreesOwn, Owners, Owns
<1>3. AllGood([pixelsOf EXCEPT ![i] = EmptyPixels], rawPixels, heapSizes')
  BY <1>1, <1>2, ImageReleases DEF Good
<1> QED
  BY <1>3 DEF Destroy, Good

(* Whoever has pixels, or has borrowed some that exist, stays in them.     *)
LEMMA BorrowIsGood ==
  ASSUME Good, NEW i \in ImageObjects, NEW other,
         \/ other = rawPixels
         \/ \E j \in ImageObjects : other = pixelsOf[j],
         Borrow(i, other)
  PROVE  Good'
<1> DEFINE x == [data |-> other.data, external |-> TRUE,
                 width |-> other.width, height |-> other.height]
<1>1. /\ pixelsOf \in [ImageObjects -> PixelRecords]
      /\ rawPixels \in RawRecords
      /\ DOMAIN heapSizes \subseteq Buffers
      /\ Kept(pixelsOf, rawPixels, heapSizes) /\ Fits(pixelsOf, heapSizes)
  BY DEF Good, AllGood, Typed
<1>2. /\ other.data \in Buffers \cup {0}
      /\ other.width \in Sides /\ other.height \in Sides
  BY <1>1 DEF PixelRecords, RawRecords
<1>3. /\ x \in PixelRecords /\ x.external /\ x.data = other.data
      /\ x.width = other.width /\ x.height = other.height
  BY <1>2 DEF PixelRecords
<1>4. heapSizes' = IF Owns(pixelsOf, i) THEN Freed(heapSizes, pixelsOf[i].data)
                                        ELSE heapSizes
  BY DEF Borrow, FreesOwn, Owners, Owns
<1>5. \A b \in DOMAIN heapSizes' :
         b \in DOMAIN heapSizes /\ heapSizes'[b] = heapSizes[b]
  BY <1>4 DEF Freed, Restrict
<1>6. other.width * other.height \in Nat
  BY <1>2, Products
<1>7. ASSUME other.data \in DOMAIN heapSizes
      PROVE  other.width * other.height <= heapSizes[other.data]
  <2>1. other.data # 0
    BY <1>1, <1>7, MemoryAssumption
  <2>2. CASE other = rawPixels
    <3>1. heapSizes[other.data] = other.width * other.height
      BY <1>1, <2>1, <2>2 DEF Kept
    <3> QED
      BY <3>1, <1>6
  <2>3. ASSUME NEW j \in ImageObjects, other = pixelsOf[j]
        PROVE  other.width * other.height <= heapSizes[other.data]
    <3>1. CASE pixelsOf[j].external
      BY <1>1, <1>7, <2>3, <3>1 DEF Fits
    <3>2. CASE ~pixelsOf[j].external
      <4>1. heapSizes[other.data] = other.width * other.height
        BY <1>1, <2>1, <2>3, <3>2 DEF Kept, Owns
      <4> QED
        BY <4>1, <1>6
    <3> QED
      BY <3>1, <3>2
  <2> QED
    BY <2>2, <2>3
<1> HIDE DEF x
<1>8. x.data \in DOMAIN heapSizes' => x.width * x.height <= heapSizes'[x.data]
  BY <1>3, <1>5, <1>7
<1>9. AllGood([pixelsOf EXCEPT ![i] = x], rawPixels, heapSizes')
  BY <1>3, <1>4, <1>8, ImageReleases DEF Good
<1> QED
  BY <1>9 DEF Borrow, Good, x

(* allocate(): what was the image's own is freed before it gets more.      *)
LEMMA AllocateIsGood ==
  ASSUME Good, NEW i \in ImageObjects, NEW w \in Sides, NEW v \in Sides,
         Allocate(i, w, v)
  PROVE  Good'
<1> DEFINE heap == IF Owns(pixelsOf, i)
                   THEN Freed(heapSizes, pixelsOf[i].data) ELSE heapSizes
           x(b) == [data |-> b, external |-> FALSE, width |-> w, height |-> v]
           freed == [pixelsOf EXCEPT ![i] = EmptyPixels]
<1>1. /\ pixelsOf \in [ImageObjects -> PixelRecords]
      /\ rawPixels' = rawPixels
  BY DEF Good, AllGood, Typed, Allocate
<1>2. i \in Owners <=> Owns(pixelsOf, i)
  BY DEF Owners, Owns
<1>3. \/ /\ pixelsOf' = [pixelsOf EXCEPT ![i] = pixelsOf[i]]
         /\ heapSizes' = heapSizes
      \/ /\ pixelsOf' = [pixelsOf EXCEPT ![i] = x(0)]
         /\ heapSizes' = heap
      \/ \E b \in Buffers :
            /\ Fresh(b)
            /\ pixelsOf' = [pixelsOf EXCEPT ![i] = x(b)]
            /\ heapSizes' = With(heap, b, w * v)
  <2>1. PICK a \in Allocated(i, w, v) :
           pixelsOf' = [pixelsOf EXCEPT ![i] = a.pixels] /\ heapSizes' = a.heap
    BY DEF Allocate
  <2>2. \/ a = [pixels |-> pixelsOf[i], heap |-> heapSizes]
        \/ a = [pixels |-> x(0), heap |-> heap]
        \/ \E b \in Buffers :
              Fresh(b) /\ a = [pixels |-> x(b), heap |-> With(heap, b, w * v)]
    <3>1. CASE /\ i \in Owners
               /\ pixelsOf[i].width = w /\ pixelsOf[i].height = v
      BY <2>1, <3>1 DEF Allocated
    <3>2. CASE ~(/\ i \in Owners
                 /\ pixelsOf[i].width = w /\ pixelsOf[i].height = v)
      <4>1. Allocated(i, w, v) =
               IF w = 0 /\ v = 0 THEN {[pixels |-> x(0), heap |-> heap]}
               ELSE {[pixels |-> x(b), heap |-> With(heap, b, w * v)] :
                        b \in {c \in Buffers : Fresh(c)}}
        BY <1>2, <3>2, Zenon DEF Allocated
      <4> HIDE DEF x, heap
      <4> QED
        BY <2>1, <4>1
    <3> QED
      BY <3>1, <3>2
  <2> HIDE DEF x, heap
  <2>3. CASE a = [pixels |-> pixelsOf[i], heap |-> heapSizes]
    BY <2>1, <2>3
  <2>4. CASE a = [pixels |-> x(0), heap |-> heap]
    BY <2>1, <2>4
  <2>5. ASSUME NEW b \in Buffers, Fresh(b),
               a = [pixels |-> x(b), heap |-> With(heap, b, w * v)]
        PROVE  /\ pixelsOf' = [pixelsOf EXCEPT ![i] = x(b)]
               /\ heapSizes' = With(heap, b, w * v)
    <3>1. a.pixels = x(b) /\ a.heap = With(heap, b, w * v)
      BY <2>5
    <3> QED
      BY <2>1, <3>1
  <2> QED
    BY <2>2, <2>3, <2>4, <2>5, Zenon
<1>4. EmptyPixels \in PixelRecords /\ ~EmptyPixels.external
      /\ EmptyPixels.data = 0
  BY MemoryAssumption DEF EmptyPixels, PixelRecords
<1>5. x(0) \in PixelRecords /\ x(0).data = 0 /\ ~x(0).external
  BY DEF PixelRecords
<1>6. /\ \A b \in DOMAIN heap : b \in DOMAIN heapSizes
      /\ ~Owns(freed, i)
      /\ \A j \in ImageObjects \ {i} : freed[j] = pixelsOf[j]
      /\ freed[i].data = 0
  BY <1>1, <1>4 DEF Freed, Restrict, Owns
<1>7. CASE /\ pixelsOf' = [pixelsOf EXCEPT ![i] = pixelsOf[i]]
           /\ heapSizes' = heapSizes
  <2>1. pixelsOf' = pixelsOf
    BY <1>1, <1>7
  <2> QED
    BY <1>1, <1>7, <2>1 DEF Good
<1>8. CASE pixelsOf' = [pixelsOf EXCEPT ![i] = x(0)] /\ heapSizes' = heap
  <2> HIDE DEF x
  <2>1. AllGood([pixelsOf EXCEPT ![i] = x(0)], rawPixels, heap)
    BY <1>5, ImageReleases DEF Good
  <2> QED
    BY <1>1, <1>8, <2>1 DEF Good
<1>9. ASSUME NEW b \in Buffers, Fresh(b),
             pixelsOf' = [pixelsOf EXCEPT ![i] = x(b)],
             heapSizes' = With(heap, b, w * v)
      PROVE  Good'
  <2>1. AllGood(freed, rawPixels, heap)
    BY <1>4, ImageReleases DEF Good
  <2>2. /\ b \notin DOMAIN heap /\ b # rawPixels.data
        /\ \A j \in ImageObjects : pixelsOf[j].data # b
        /\ b # 0
    BY <1>6, <1>9, MemoryAssumption DEF Fresh, Live
  <2>3. \A j \in ImageObjects : freed[j].data # b
    BY <1>6, <2>2
  <2>4. ~Owns(freed, i)
    BY <1>6
  <2>5. [freed EXCEPT ![i] = x(b)] = [pixelsOf EXCEPT ![i] = x(b)]
    BY <1>1
  <2> HIDE DEF heap, freed
  <2>6. AllGood([freed EXCEPT ![i] = x(b)], rawPixels, With(heap, b, w * v))
    BY <2>1, <2>2, <2>3, <2>4, ImageAcquires
  <2> QED
    BY <1>1, <1>9, <2>5, <2>6 DEF Good
<1> QED
  BY <1>3, <1>7, <1>8, <1>9

(* RawImage::allocate().                                                   *)
LEMMA RawAllocateIsGood ==
  ASSUME Good, NEW w \in Sides, NEW v \in Sides, RawAllocate(w, v)
  PROVE  Good'
<1> DEFINE heap == IF rawPixels.data # 0
                   THEN Freed(heapSizes, rawPixels.data) ELSE heapSizes
           none == [data |-> 0, width |-> 0, height |-> 0]
<1>1. none \in RawRecords /\ none.data = 0
  BY MemoryAssumption DEF RawRecords
<1>2. \/ rawPixels' = none /\ heapSizes' = heap
      \/ \E b \in Buffers :
            /\ Fresh(b)
            /\ rawPixels' = [data |-> b, width |-> w, height |-> v]
            /\ heapSizes' = With(heap, b, w * v)
  BY DEF RawAllocate
<1>3. pixelsOf' = pixelsOf
  BY DEF RawAllocate
<1>4. \A b \in DOMAIN heap : b \in DOMAIN heapSizes
  BY DEF Freed, Restrict
<1> HIDE DEF none
<1>5. AllGood(pixelsOf, none, heap)
  BY <1>1, RawReleases DEF Good
<1> HIDE DEF heap
<1>6. CASE rawPixels' = none /\ heapSizes' = heap
  BY <1>3, <1>5, <1>6 DEF Good
<1>7. ASSUME NEW b \in Buffers, Fresh(b),
             rawPixels' = [data |-> b, width |-> w, height |-> v],
             heapSizes' = With(heap, b, w * v)
      PROVE  Good'
  <2>1. b \notin DOMAIN heap /\ \A j \in ImageObjects : pixelsOf[j].data # b
    BY <1>4, <1>7 DEF Fresh, Live
  <2>2. AllGood(pixelsOf, [data |-> b, width |-> w, height |-> v],
                With(heap, b, w * v))
    BY <1>1, <1>5, <2>1, RawAcquires
  <2> QED
    BY <1>3, <1>7, <2>2 DEF Good
<1> QED
  BY <1>2, <1>6, <1>7

(* copyToRawImage(): other sides for the same number of pixels.            *)
LEMMA CopyToRawImageIsGood ==
  ASSUME Good, NEW i \in ImageObjects, CopyToRawImage(i)
  PROVE  Good'
<1>1. /\ pixelsOf \in [ImageObjects -> PixelRecords]
      /\ rawPixels \in RawRecords
      /\ DOMAIN heapSizes \subseteq Buffers
      /\ Kept(pixelsOf, rawPixels, heapSizes) /\ Fits(pixelsOf, heapSizes)
  BY DEF Good, AllGood, Typed
<1>2. pixelsOf[i].width \in Sides /\ pixelsOf[i].height \in Sides
  BY <1>1 DEF PixelRecords
<1>3. /\ rawPixels' \in RawRecords /\ rawPixels'.data = rawPixels.data
      /\ rawPixels'.width * rawPixels'.height
            = rawPixels.width * rawPixels.height
      /\ pixelsOf' = pixelsOf /\ heapSizes' = heapSizes
  BY <1>1, <1>2 DEF CopyToRawImage, RawRecords
<1>4. Kept(pixelsOf, rawPixels', heapSizes)
  BY <1>1, <1>3 DEF Kept
<1> QED
  BY <1>1, <1>3, <1>4 DEF Good, AllGood, Typed

(* However images allocate, borrow from each other, copy and end, pixels   *)
(* are freed once, by the image that owns them, none is leaked, and no     *)
(* picture reaches past its buffer (image.h, rawimage.cpp).                *)
THEOREM PixelsStayOwned == MemorySpec => []PixelsAreOwned
<1>1. MemoryInit => Good
  <2> SUFFICES ASSUME MemoryInit PROVE Good
    OBVIOUS
  <2>1. /\ pixelsOf \in [ImageObjects -> PixelRecords]
        /\ \A i \in ImageObjects : pixelsOf[i].data = 0 /\ ~pixelsOf[i].external
    BY MemoryAssumption DEF MemoryInit, EmptyPixels, PixelRecords
  <2>2. rawPixels \in RawRecords /\ rawPixels.data = 0
    BY MemoryAssumption DEF MemoryInit, RawRecords
  <2>3. DOMAIN heapSizes = {}
    BY DEF MemoryInit
  <2> QED
    BY <2>1, <2>2, <2>3 DEF Good, AllGood, Typed, Kept, Fits, Owns
<1>2. Good /\ [MemoryNext]_memoryVars => Good'
  <2> SUFFICES ASSUME Good, [MemoryNext]_memoryVars PROVE Good'
    OBVIOUS
  <2>1. ASSUME NEW i \in ImageObjects, NEW w \in Sides, NEW v \in Sides,
               Allocate(i, w, v)
        PROVE  Good'
    BY <2>1, AllocateIsGood
  <2>2. ASSUME NEW i \in ImageObjects, FromRawImage(i)
        PROVE  Good'
    BY <2>2, BorrowIsGood DEF FromRawImage
  <2>3. ASSUME NEW i \in ImageObjects, CopyToRawImage(i)
        PROVE  Good'
    BY <2>3, CopyToRawImageIsGood
  <2>4. ASSUME NEW i \in ImageObjects, Destroy(i)
        PROVE  Good'
    BY <2>4, DestroyIsGood
  <2>5. ASSUME NEW i \in ImageObjects, NEW j \in ImageObjects, FromImage(i, j)
        PROVE  Good'
    BY <2>5, BorrowIsGood DEF FromImage
  <2>6. ASSUME NEW i \in ImageObjects, NEW j \in ImageObjects,
               NEW e \in BOOLEAN, Copy(i, j, e)
        PROVE  Good'
    <3>1. pixelsOf[j].width \in Sides /\ pixelsOf[j].height \in Sides
      BY DEF Good, AllGood, Typed, PixelRecords
    <3>2. \/ UNCHANGED memoryVars
          \/ Allocate(i, pixelsOf[j].width, pixelsOf[j].height)
      BY <2>6 DEF Copy
    <3> QED
      BY <3>1, <3>2, AllocateIsGood DEF memoryVars, Good
  <2>7. ASSUME NEW w \in Sides, NEW v \in Sides, RawAllocate(w, v)
        PROVE  Good'
    BY <2>7, RawAllocateIsGood
  <2>8. CASE UNCHANGED memoryVars
    BY <2>8 DEF memoryVars, Good
  <2> QED
    BY <2>1, <2>2, <2>3, <2>4, <2>5, <2>6, <2>7, <2>8 DEF MemoryNext
<1> QED
  BY <1>1, <1>2, GoodMeansOwned, PTL DEF MemorySpec
----------------------------------------------------------------------------
(***************************************************************************)
(* Dvr: a stream of frames f with its current place c, none of which is    *)
(* newer than the frame top of the camera.                                 *)
(***************************************************************************)
FrameNumbers == -LoadedFrames .. LiveFrames

StreamIsSound(f, c, top) ==
    /\ f \in Seq(FrameNumbers)
    /\ c \in Nat /\ (IF f = <<>> THEN c = 0 ELSE c <= Len(f) - 1)
    /\ \A i, j \in 1 .. Len(f) : i < j => f[i] < f[j]
    /\ \A i \in 1 .. Len(f) : f[i] <= top

(* appendFrame() keeps it, at the limit too.                               *)
LEMMA AppendKeepsStream ==
  ASSUME NEW f, NEW c, NEW top \in Nat, StreamIsSound(f, c, top),
         top + 1 <= LiveFrames, NEW limit \in Nat,
         NEW new, new = appendFrame([frames |-> f, current |-> c],
                                    top + 1, limit)
  PROVE  StreamIsSound(new.frames, new.current, top + 1)
<1>1. top + 1 \in FrameNumbers
  BY DvrAssumption DEF FrameNumbers
<1>2. /\ f \in Seq(FrameNumbers) /\ c \in Nat
      /\ \A i \in 1 .. Len(f) : f[i] \in Int /\ f[i] <= top
      /\ \A i, j \in 1 .. Len(f) : i < j => f[i] < f[j]
  BY DvrAssumption, SMTT(30) DEF StreamIsSound, FrameNumbers
<1>3. CASE new.frames = f /\ new.current = c
  BY <1>2, <1>3 DEF StreamIsSound
<1>4. CASE new.frames = Append(f, top + 1) /\ new.current = c
  <2> DEFINE g == Append(f, top + 1)
  <2>1. /\ g \in Seq(FrameNumbers) /\ Len(g) = Len(f) + 1
        /\ \A i \in 1 .. Len(f) : g[i] = f[i]
        /\ g[Len(f) + 1] = top + 1
        /\ Len(f) \in Nat /\ g # <<>>
    BY <1>1, <1>2
  <2> HIDE DEF g
  <2>2. \A i \in 1 .. Len(g) : i \in 1 .. Len(f) \/ i = Len(f) + 1
    BY <2>1
  <2>3. \A i \in 1 .. Len(f) : g[i] \in Int /\ g[i] <= top /\ g[i] < top + 1
    BY <1>2, <2>1
  <2>4. \A i \in 1 .. Len(g) : g[i] <= top + 1
    BY <2>1, <2>2, <2>3
  <2>5. ASSUME NEW i \in 1 .. Len(g), NEW j \in 1 .. Len(g), i < j
        PROVE  g[i] < g[j]
    <3>1. i \in 1 .. Len(f)
      BY <2>1, <2>5
    <3> QED
      BY <1>2, <2>1, <2>2, <2>3, <2>5, <3>1
  <2>6. IF f = <<>> THEN c = 0 ELSE c <= Len(f) - 1
    BY DEF StreamIsSound
  <2>7. c <= Len(g) - 1
    BY <1>2, <2>1, <2>6
  <2> QED
    BY <1>2, <1>4, <2>1, <2>4, <2>5, <2>7 DEF StreamIsSound, g
<1>5. CASE /\ f # <<>>
           /\ new.frames = Append(Tail(f), top + 1)
           /\ new.current = IF c > 0 THEN c - 1 ELSE c
  <2> DEFINE g == Append(Tail(f), top + 1)
  <2>1. /\ Len(f) \in Nat \ {0} /\ Tail(f) \in Seq(FrameNumbers)
        /\ Len(Tail(f)) = Len(f) - 1
        /\ \A i \in 1 .. Len(f) - 1 : Tail(f)[i] = f[i + 1]
    BY <1>2, <1>5
  <2>2. /\ g \in Seq(FrameNumbers) /\ Len(g) = Len(f)
        /\ \A i \in 1 .. Len(f) - 1 : g[i] = f[i + 1]
        /\ g[Len(f)] = top + 1
    BY <1>1, <2>1
  <2>3. g # <<>>
    BY <2>1, <1>1, SMTT(30)
  <2> HIDE DEF g
  <2>4. \A i \in 1 .. Len(g) : i \in 1 .. Len(f) - 1 \/ i = Len(f)
    <3>1. Len(g) = Len(f) /\ Len(f) \in Nat
      BY <2>1, <2>2
    <3> QED
      BY ONLY <3>1
  <2>5. \A i \in 1 .. Len(f) - 1 :
           g[i] \in Int /\ g[i] <= top /\ g[i] < top + 1
    BY <1>2, <2>1, <2>2
  <2>6. \A i \in 1 .. Len(g) : g[i] <= top + 1
    BY <2>2, <2>4, <2>5
  <2>7. ASSUME NEW i \in 1 .. Len(g), NEW j \in 1 .. Len(g), i < j
        PROVE  g[i] < g[j]
    <3>1. i \in 1 .. Len(f) - 1
      BY <2>1, <2>2, <2>7
    <3>2. CASE j = Len(f)
      BY <2>2, <2>5, <3>1, <3>2
    <3>3. CASE j \in 1 .. Len(f) - 1
      <4>1. /\ i + 1 \in 1 .. Len(f) /\ j + 1 \in 1 .. Len(f)
            /\ i + 1 < j + 1
        BY <2>1, <2>7, <3>1, <3>3
      <4>2. f[i + 1] < f[j + 1]
        BY <1>2, <4>1
      <4> QED
        BY <2>2, <3>1, <3>3, <4>2
    <3> QED
      BY <2>4, <3>2, <3>3
  <2>8. new.current \in Nat /\ new.current <= Len(g) - 1
    BY <1>2, <1>5, <2>1, <2>2 DEF StreamIsSound
  <2> QED
    BY <1>5, <2>2, <2>3, <2>6, <2>7, <2>8 DEF StreamIsSound, g
<1>6. \/ new.frames = f /\ new.current = c
      \/ new.frames = Append(f, top + 1) /\ new.current = c
      \/ /\ f # <<>>
         /\ new.frames = Append(Tail(f), top + 1)
         /\ new.current = IF c > 0 THEN c - 1 ELSE c
  BY <1>2 DEF appendFrame
<1> QED
  BY <1>3, <1>4, <1>5, <1>6

(* seek() and advance() keep it, wherever they are asked to go.            *)
LEMMA SeekKeepsStream ==
  ASSUME NEW f, NEW c, NEW top \in Nat, StreamIsSound(f, c, top),
         NEW n \in Int,
         NEW new, new = seek([frames |-> f, current |-> c], n)
  PROVE  StreamIsSound(new.frames, new.current, top)
<1>1. f \in Seq(FrameNumbers) /\ Len(f) \in Nat /\ (f = <<>> <=> Len(f) = 0)
  BY DEF StreamIsSound
<1>2. /\ new.frames = f
      /\ new.current \in Nat /\ (IF f = <<>> THEN new.current = 0
                                 ELSE new.current <= Len(f) - 1)
  BY <1>1 DEF seek
<1> QED
  BY <1>2 DEF StreamIsSound

(* However far the position is moved, it stays on a frame.                 *)
LEMMA AdvanceKeepsStream ==
  ASSUME NEW f, NEW c, NEW top \in Nat, StreamIsSound(f, c, top),
         NEW n \in Int,
         NEW new, new = advance([frames |-> f, current |-> c], n)
  PROVE  StreamIsSound(new.frames, new.current, top)
<1>1. /\ f \in Seq(FrameNumbers) /\ Len(f) \in Nat /\ (f = <<>> <=> Len(f) = 0)
      /\ c \in Nat /\ c + n \in Int
  BY DEF StreamIsSound
<1>2. CASE Len(f) = 0
  <2>1. new.frames = f /\ new.current = c
    BY <1>2 DEF advance
  <2> QED
    BY <2>1
<1>3. CASE Len(f) # 0
  <2>1. (c + n) % Len(f) \in 0 .. Len(f) - 1
    BY <1>1, <1>3
  <2>2. new.frames = f /\ new.current \in 0 .. Len(f) - 1
    BY <1>1, <1>3, <2>1 DEF advance
  <2> QED
    BY <1>1, <1>3, <2>2 DEF StreamIsSound
<1> QED
  BY <1>2, <1>3

(* Where the slot that runs leaves the modes behind their buttons.         *)
SlotsFollowModes ==
    /\ slot = "mode" => dvrMode # modeButton
    /\ slot # "mode" => dvrMode = modeButton
    /\ slot = "refresh" => dvrMode = "pause"
    /\ slot \notin {"none", "mode", "refresh"} => dvrMode = "record"
    /\ slot \notin {"seek", "stuck"} /\ ~posted => seekMode = seekButton

DvrModesOK ==
    /\ dvrMode \in Modes /\ modeButton \in Modes
    /\ seekMode \in Seeks /\ seekButton \in Seeks
    /\ wrap \in BOOLEAN /\ recording \in BOOLEAN /\ shift \in BOOLEAN
    /\ refresh \in BOOLEAN /\ posted \in BOOLEAN /\ slot \in Slots

DvrNumbersOK ==
    /\ maxFrames \in Limits /\ frameLimit \in Limits \cup {0}
    /\ liveFrame \in 0 .. LiveFrames /\ askedAt \in 0 .. LiveFrames
    /\ pauseFrame \in 0 .. LiveFrames /\ askedAt <= liveFrame

DvrInv == /\ DvrModesOK /\ DvrNumbersOK /\ SlotsFollowModes /\ PauseIsFresh
          /\ StreamIsSound(frames, current, liveFrame)

(* The invariant says more than is claimed of the recorder.                *)
LEMMA DvrInvIsSound == DvrInv => RecorderIsSound
<1> SUFFICES ASSUME DvrInv PROVE RecorderIsSound
  OBVIOUS
<1>1. /\ DvrModesOK /\ DvrNumbersOK /\ SlotsFollowModes /\ PauseIsFresh
      /\ frames \in Seq(FrameNumbers) /\ current \in Nat
      /\ IF frames = <<>> THEN current = 0 ELSE current <= Len(frames) - 1
      /\ \A i, j \in 1 .. Len(frames) : i < j => frames[i] < frames[j]
      /\ Len(frames) \in Nat
  BY DEF DvrInv, StreamIsSound
<1>2. ToSet(frames) \subseteq FrameNumbers
  BY <1>1 DEF ToSet
<1>3. pauseFrame \in FrameNumbers
  BY <1>1, DvrAssumption DEF DvrNumbersOK, FrameNumbers
<1>4. DvrTypeOK
  BY <1>1, <1>2, <1>3 DEF DvrTypeOK, DvrModesOK, DvrNumbersOK, FrameNumbers
<1>5. CurrentIsAFrame
  BY <1>1 DEF CurrentIsAFrame
<1>6. RecordingInOrder
  <2>1. \A i \in 1 .. Len(frames) - 1 :
           i \in 1 .. Len(frames) /\ i + 1 \in 1 .. Len(frames) /\ i < i + 1
    BY <1>1
  <2> QED
    BY <1>1, <2>1 DEF RecordingInOrder
<1>7. ModesFollowButtons
  BY <1>1 DEF ModesFollowButtons, SlotsFollowModes
<1> QED
  BY <1>1, <1>4, <1>5, <1>6, <1>7 DEF RecorderIsSound

(* process() keeps it: the frame is newer than all of the stream.          *)
LEMMA ProcessKeepsRecorder ==
  ASSUME DvrInv, NEW jog \in Jogs, ProcessDvr(jog)
  PROVE  DvrInv'
<1>1. /\ DvrModesOK /\ DvrNumbersOK /\ SlotsFollowModes /\ PauseIsFresh
      /\ StreamIsSound(frames, current, liveFrame)
      /\ liveFrame \in Nat /\ jog \in Int /\ maxFrames \in Nat
      /\ liveFrame' = liveFrame + 1 /\ liveFrame + 1 <= LiveFrames
  BY DvrAssumption DEF DvrInv, DvrNumbersOK, ProcessDvr
<1> DEFINE rec == Recorded(liveFrame + 1)
<1>2. StreamIsSound(rec.frames, rec.current, liveFrame + 1)
  <2>1. CASE dvrMode = "record" /\ recording
    BY <1>1, <2>1, AppendKeepsStream DEF Recorded, Recording
  <2>2. CASE ~(dvrMode = "record" /\ recording)
    <3>1. rec.frames = frames /\ rec.current = current
      BY <2>2 DEF Recorded, Recording
    <3>2. ASSUME NEW i \in 1 .. Len(frames)
          PROVE  frames[i] <= liveFrame + 1
      <4>1. frames[i] \in Int /\ frames[i] <= liveFrame
        BY <1>1, DvrAssumption DEF StreamIsSound, FrameNumbers
      <4> QED
        BY <1>1, <4>1
    <3>3. StreamIsSound(frames, current, liveFrame + 1)
      BY <1>1, <3>2 DEF StreamIsSound
    <3> QED
      BY <3>1, <3>3
  <2> QED
    BY <2>1, <2>2
<1>3. rec = [frames |-> rec.frames, current |-> rec.current]
  BY DEF Recorded, Recording, appendFrame
<1> HIDE DEF rec
<1> DEFINE new == Sought(rec, jog)
<1>4. StreamIsSound(new.frames, new.current, liveFrame + 1)
  <2>1. CASE new = rec
    BY <1>2, <2>1
  <2>2. ASSUME NEW n \in Int, new = advance(rec, n)
        PROVE  StreamIsSound(new.frames, new.current, liveFrame + 1)
    <3>1. new = advance([frames |-> rec.frames, current |-> rec.current], n)
      BY <1>3, <2>2
    <3> HIDE DEF new
    <3> QED
      BY <1>1, <1>2, <3>1, AdvanceKeepsStream
  <2>3. new = rec \/ new = advance(rec, jog) \/ new = advance(rec, 1)
    BY DEF Sought
  <2> QED
    BY <1>1, <2>1, <2>2, <2>3
<1>5. StreamIsSound(frames, current, liveFrame)'
  BY <1>1, <1>4 DEF ProcessDvr, SetRecording, rec
<1>6. DvrModesOK'
  BY <1>1 DEF ProcessDvr, DvrModesOK, Seeks
<1>7. DvrNumbersOK'
  BY <1>1, DvrAssumption DEF ProcessDvr, DvrNumbersOK
<1>8. SlotsFollowModes'
  BY <1>1 DEF ProcessDvr, SlotsFollowModes, DvrModesOK
<1>9. PauseIsFresh'
  <2>1. UNCHANGED <<dvrMode, slot, askedAt>>
    BY DEF ProcessDvr
  <2>2. CASE dvrMode = "pause" /\ refresh /\ slot = "none"
    BY <1>1, <2>1, <2>2 DEF ProcessDvr, PauseIsFresh, DvrNumbersOK
  <2>3. CASE ~(dvrMode = "pause" /\ refresh)
    BY <1>1, <2>1, <2>3 DEF ProcessDvr, PauseIsFresh
  <2> QED
    BY <2>1, <2>2, <2>3 DEF PauseIsFresh
<1> QED
  BY <1>5, <1>6, <1>7, <1>8, <1>9 DEF DvrInv

(* A slot that moves in the stream, or replaces it, keeps it.              *)
LEMMA SlotsKeepStream ==
  ASSUME DvrInv, SeekSlot \/ OpenDialog
  PROVE  StreamIsSound(frames, current, liveFrame)'
<1>1. /\ StreamIsSound(frames, current, liveFrame)
      /\ liveFrame \in Nat /\ frameLimit \in Nat /\ liveFrame' = liveFrame
      /\ frames \in Seq(FrameNumbers) /\ Len(frames) \in Nat
  BY DvrAssumption DEF DvrInv, DvrNumbersOK, SeekSlot, OpenDialog, StreamIsSound
<1>2. ASSUME NEW new, StreamIsSound(new.frames, new.current, liveFrame),
             SetRecording(new)
      PROVE  StreamIsSound(frames, current, liveFrame)'
  BY <1>1, <1>2 DEF SetRecording
<1>3. CASE SeekSlot
  <2>1. CASE slot = "first"
    <3>1. SetRecording(seek(Recording, 0))
      BY <1>3, <2>1 DEF SeekSlot
    <3> QED
      BY <1>1, <1>2, <3>1, SeekKeepsStream DEF Recording
  <2>2. CASE slot = "forward"
    <3>1. SetRecording(advance(Recording, 1))
      BY <1>3, <2>2 DEF SeekSlot
    <3> QED
      BY <1>1, <1>2, <3>1, AdvanceKeepsStream DEF Recording
  <2>3. CASE slot = "back"
    <3>1. SetRecording(advance(Recording, -1))
      BY <1>3, <2>3 DEF SeekSlot
    <3> QED
      BY <1>1, <1>2, <3>1, AdvanceKeepsStream DEF Recording
  <2>4. CASE slot = "last"
    <3>1. SetRecording(seek(Recording, Len(frames) - 1))
      BY <1>3, <2>4 DEF SeekSlot
    <3> QED
      BY <1>1, <1>2, <3>1, SeekKeepsStream DEF Recording
  <2>5. CASE slot = "new"
    <3>1. SetRecording([frames |-> <<>>, current |-> 0])
      BY <1>3, <2>5 DEF SeekSlot
    <3>2. frames' = <<>> /\ current' = 0
      BY <3>1 DEF SetRecording
    <3> QED
      BY <1>1, <3>2 DEF StreamIsSound
  <2> QED
    BY <1>3, <2>1, <2>2, <2>3, <2>4, <2>5 DEF SeekSlot
<1>4. CASE OpenDialog
  <2>1. CASE UNCHANGED <<frames, current>>
    BY <1>1, <2>1
  <2>2. ASSUME NEW n \in 0 .. LoadedFrames, frames' = Loaded(n), current' = 0
        PROVE  StreamIsSound(frames, current, liveFrame)'
    <3> DEFINE m == IF frameLimit # 0 /\ n > frameLimit THEN frameLimit ELSE n
    <3>1. m \in Nat /\ m <= LoadedFrames
      BY <1>1, <2>2, DvrAssumption
    <3>2. frames' = [i \in 1 .. m |-> i - LoadedFrames - 1]
      BY <2>2 DEF Loaded
    <3> HIDE DEF m
    <3>3. \A i \in 1 .. m : /\ i - LoadedFrames - 1 \in FrameNumbers
                            /\ i - LoadedFrames - 1 <= liveFrame
      BY <1>1, <3>1, DvrAssumption DEF FrameNumbers
    <3>4. frames' \in Seq(FrameNumbers) /\ Len(frames') = m
      BY <3>1, <3>2, <3>3
    <3>5. \A i, j \in 1 .. m : i < j => frames'[i] < frames'[j]
      BY <3>1, <3>2, DvrAssumption
    <3>6. \A i \in 1 .. m : frames'[i] <= liveFrame
      BY <3>2, <3>3
    <3>7. current' \in Nat /\ (IF frames' = <<>> THEN current' = 0
                               ELSE current' <= Len(frames') - 1)
      BY <2>2, <3>1, <3>4
    <3> QED
      BY <1>1, <3>4, <3>5, <3>6, <3>7 DEF StreamIsSound
  <2> QED
    BY <1>4, <2>1, <2>2 DEF OpenDialog
<1> QED
  BY <1>3, <1>4

(* What the GUI thread does keeps it.                                      *)
LEMMA GuiKeepsRecorder ==
  ASSUME DvrInv, DvrGui
  PROVE  DvrInv'
<1> USE DEF DvrModesOK, DvrNumbersOK, SlotsFollowModes, PauseIsFresh
<1> DEFINE Rest == /\ DvrModesOK /\ DvrNumbersOK
                   /\ SlotsFollowModes /\ PauseIsFresh
<1>1. Rest /\ StreamIsSound(frames, current, liveFrame)
  BY DEF DvrInv
<1>2. ASSUME NEW m \in Modes, PressMode(m)
      PROVE  Rest' /\ UNCHANGED streamVars /\ liveFrame' = liveFrame
  <2>1. DvrModesOK'
    BY <1>1, <1>2, DvrAssumption DEF PressMode, Enter, Slots, Modes, modeVars
  <2>2. DvrNumbersOK'
    BY <1>1, <1>2, DvrAssumption DEF streamVars,
       PressMode, Enter, Slots, Modes, modeVars
  <2>3. SlotsFollowModes'
    BY <1>1, <1>2, DvrAssumption DEF PressMode, Enter, Slots, Modes, modeVars
  <2>4. PauseIsFresh'
    BY <1>1, <1>2, DvrAssumption DEF PressMode, Enter, Slots, Modes, modeVars
  <2> QED
    BY <1>2, <2>1, <2>2, <2>3, <2>4 DEF PressMode, streamVars
<1>3. ASSUME NEW m \in Seeks, PressSeek(m)
      PROVE  Rest' /\ UNCHANGED streamVars /\ liveFrame' = liveFrame
  <2>1. DvrModesOK'
    BY <1>1, <1>3 DEF PressSeek, Enter, Slots, modeVars
  <2>2. DvrNumbersOK'
    BY <1>1, <1>3 DEF streamVars,
       PressSeek, Enter, Slots, modeVars
  <2>3. SlotsFollowModes'
    BY <1>1, <1>3 DEF PressSeek, Enter, Slots, modeVars
  <2>4. PauseIsFresh'
    BY <1>1, <1>3 DEF PressSeek, Enter, Slots, modeVars
  <2> QED
    BY <1>3, <2>1, <2>2, <2>3, <2>4 DEF PressSeek, streamVars
<1>4. ASSUME PressRefresh
      PROVE  Rest' /\ UNCHANGED streamVars /\ liveFrame' = liveFrame
  <2>1. DvrModesOK'
    BY <1>1, <1>4 DEF PressRefresh, Enter, Slots, modeVars, buttonVars
  <2>2. DvrNumbersOK'
    BY <1>1, <1>4 DEF streamVars,
       PressRefresh, Enter, Slots, modeVars, buttonVars
  <2>3. SlotsFollowModes'
    BY <1>1, <1>4 DEF PressRefresh, Enter, Slots, modeVars, buttonVars
  <2>4. PauseIsFresh'
    BY <1>1, <1>4 DEF PressRefresh, Enter, Slots, modeVars, buttonVars
  <2> QED
    BY <1>4, <2>1, <2>2, <2>3, <2>4 DEF PressRefresh, streamVars
<1>5. ASSUME PressMovie
      PROVE  Rest' /\ UNCHANGED streamVars /\ liveFrame' = liveFrame
  <2>1. DvrModesOK'
    BY <1>1, <1>5 DEF PressMovie, Enter, Slots, modeVars, buttonVars
  <2>2. DvrNumbersOK'
    BY <1>1, <1>5 DEF streamVars,
       PressMovie, Enter, Slots, modeVars, buttonVars
  <2>3. SlotsFollowModes'
    BY <1>1, <1>5 DEF PressMovie, Enter, Slots, modeVars, buttonVars
  <2>4. PauseIsFresh'
    BY <1>1, <1>5 DEF PressMovie, Enter, Slots, modeVars, buttonVars
  <2> QED
    BY <1>5, <2>1, <2>2, <2>3, <2>4 DEF PressMovie, streamVars
<1>6. ASSUME ToggleOption
      PROVE  Rest' /\ UNCHANGED streamVars /\ liveFrame' = liveFrame
  <2>1. DvrModesOK'
    BY <1>1, <1>6 DEF ToggleOption, modeVars
  <2>2. DvrNumbersOK'
    BY <1>1, <1>6 DEF streamVars,
       ToggleOption, modeVars
  <2>3. SlotsFollowModes'
    BY <1>1, <1>6 DEF ToggleOption, modeVars
  <2>4. PauseIsFresh'
    BY <1>1, <1>6 DEF ToggleOption, modeVars
  <2> QED
    BY <1>6, <2>1, <2>2, <2>3, <2>4 DEF ToggleOption, streamVars
<1>7. ASSUME ModeToggled
      PROVE  Rest' /\ UNCHANGED streamVars /\ liveFrame' = liveFrame
  <2>1. DvrModesOK'
    BY <1>1, <1>7 DEF ModeToggled, buttonVars, Slots
  <2>2. DvrNumbersOK'
    BY <1>1, <1>7 DEF streamVars,
       ModeToggled, buttonVars, Slots
  <2>3. SlotsFollowModes'
    BY <1>1, <1>7 DEF ModeToggled, buttonVars, Slots
  <2>4. PauseIsFresh'
    BY <1>1, <1>7 DEF ModeToggled, buttonVars, Slots
  <2> QED
    BY <1>7, <2>1, <2>2, <2>3, <2>4 DEF ModeToggled, streamVars
<1>8. ASSUME SeekToggled
      PROVE  Rest' /\ UNCHANGED streamVars /\ liveFrame' = liveFrame
  <2>1. DvrModesOK'
    BY <1>1, <1>8 DEF SeekToggled, buttonVars, Slots
  <2>2. DvrNumbersOK'
    BY <1>1, <1>8 DEF streamVars,
       SeekToggled, buttonVars, Slots
  <2>3. SlotsFollowModes'
    BY <1>1, <1>8 DEF SeekToggled, buttonVars, Slots
  <2>4. PauseIsFresh'
    BY <1>1, <1>8 DEF SeekToggled, buttonVars, Slots
  <2> QED
    BY <1>8, <2>1, <2>2, <2>3, <2>4 DEF SeekToggled, streamVars
<1>9. ASSUME PauseRefreshed
      PROVE  Rest' /\ UNCHANGED streamVars /\ liveFrame' = liveFrame
  <2>1. DvrModesOK'
    BY <1>1, <1>9 DEF PauseRefreshed, buttonVars, Slots
  <2>2. DvrNumbersOK'
    BY <1>1, <1>9 DEF streamVars,
       PauseRefreshed, buttonVars, Slots
  <2>3. SlotsFollowModes'
    BY <1>1, <1>9 DEF PauseRefreshed, buttonVars, Slots
  <2>4. PauseIsFresh'
    BY <1>1, <1>9 DEF PauseRefreshed, buttonVars, Slots
  <2> QED
    BY <1>9, <2>1, <2>2, <2>3, <2>4 DEF PauseRefreshed, streamVars
<1>10. ASSUME CloseDialog
       PROVE  Rest' /\ UNCHANGED streamVars /\ liveFrame' = liveFrame
  <2>1. DvrModesOK'
    BY <1>1, <1>10 DEF CloseDialog, buttonVars, modeVars, Slots
  <2>2. DvrNumbersOK'
    BY <1>1, <1>10 DEF streamVars,
       CloseDialog, buttonVars, modeVars, Slots
  <2>3. SlotsFollowModes'
    BY <1>1, <1>10 DEF CloseDialog, buttonVars, modeVars, Slots
  <2>4. PauseIsFresh'
    BY <1>1, <1>10 DEF CloseDialog, buttonVars, modeVars, Slots
  <2> QED
    BY <1>10, <2>1, <2>2, <2>3, <2>4 DEF CloseDialog, streamVars
<1>11. ASSUME PostedInDialog
       PROVE  Rest' /\ UNCHANGED streamVars /\ liveFrame' = liveFrame
  <2>1. DvrModesOK'
    BY <1>1, <1>11 DEF PostedInDialog, buttonVars, modeVars, Slots
  <2>2. DvrNumbersOK'
    BY <1>1, <1>11 DEF streamVars,
       PostedInDialog, buttonVars, modeVars, Slots
  <2>3. SlotsFollowModes'
    BY <1>1, <1>11 DEF PostedInDialog, buttonVars, modeVars, Slots
  <2>4. PauseIsFresh'
    BY <1>1, <1>11 DEF PostedInDialog, buttonVars, modeVars, Slots
  <2> QED
    BY <1>11, <2>1, <2>2, <2>3, <2>4 DEF PostedInDialog, streamVars
<1>12. ASSUME SeekSlot PROVE Rest'
  <2>1. DvrModesOK'
    BY <1>1, <1>12 DEF SeekSlot, buttonVars, modeVars, Slots
  <2>2. DvrNumbersOK'
    BY <1>1, <1>12 DEF streamVars,
       SeekSlot, buttonVars, modeVars, Slots
  <2>3. SlotsFollowModes'
    BY <1>1, <1>12 DEF SeekSlot, buttonVars, modeVars, Slots
  <2>4. PauseIsFresh'
    BY <1>1, <1>12 DEF SeekSlot, buttonVars, modeVars, Slots
  <2> QED
    BY <1>12, <2>1, <2>2, <2>3, <2>4 DEF SeekSlot, streamVars
<1>13. ASSUME OpenDialog PROVE Rest'
  <2>1. DvrModesOK'
    BY <1>1, <1>13 DEF OpenDialog, buttonVars, modeVars, Slots
  <2>2. DvrNumbersOK'
    BY <1>1, <1>13 DEF streamVars,
       OpenDialog, buttonVars, modeVars, Slots
  <2>3. SlotsFollowModes'
    BY <1>1, <1>13 DEF OpenDialog, buttonVars, modeVars, Slots
  <2>4. PauseIsFresh'
    BY <1>1, <1>13 DEF OpenDialog, buttonVars, modeVars, Slots
  <2> QED
    BY <1>13, <2>1, <2>2, <2>3, <2>4 DEF OpenDialog, streamVars
<1> HIDE DEF Rest
<1>14. ASSUME UNCHANGED streamVars, liveFrame' = liveFrame
       PROVE  StreamIsSound(frames, current, liveFrame)'
  BY <1>1, <1>14 DEF streamVars
<1>15. Rest' /\ StreamIsSound(frames, current, liveFrame)'
  BY <1>2, <1>3, <1>4, <1>5, <1>6, <1>7, <1>8, <1>9, <1>10, <1>11, <1>12,
     <1>13, <1>14, SlotsKeepStream DEF DvrGui
<1> QED
  BY <1>15 DEF DvrInv, Rest

(* The invariant holds.                                                    *)
LEMMA DvrInvariance == DvrSpec => []DvrInv
<1>1. DvrInit => DvrInv
  <2> SUFFICES ASSUME DvrInit PROVE DvrInv
    OBVIOUS
  <2>1. StreamIsSound(frames, current, liveFrame)
    BY DEF DvrInit, StreamIsSound
  <2>2. DvrModesOK
    BY DEF DvrInit, DvrModesOK, Modes, Seeks, Slots
  <2>3. DvrNumbersOK
    BY DvrAssumption DEF DvrInit, DvrNumbersOK
  <2>4. SlotsFollowModes /\ PauseIsFresh
    BY DEF DvrInit, SlotsFollowModes, PauseIsFresh
  <2> QED
    BY <2>1, <2>2, <2>3, <2>4 DEF DvrInv
<1>2. DvrInv /\ [DvrNext]_dvrVars => DvrInv'
  <2> SUFFICES ASSUME DvrInv, [DvrNext]_dvrVars PROVE DvrInv'
    OBVIOUS
  <2>1. CASE DvrNext
    BY <2>1, GuiKeepsRecorder, ProcessKeepsRecorder DEF DvrNext
  <2>2. CASE UNCHANGED dvrVars
    BY <2>2 DEF dvrVars, buttonVars, streamVars, modeVars, DvrInv, DvrModesOK,
       DvrNumbersOK, SlotsFollowModes, PauseIsFresh, StreamIsSound
  <2> QED
    BY <2>1, <2>2
<1> QED
  BY <1>1, <1>2, PTL DEF DvrSpec

(* The stream is in order and the current frame one of it, a pause is a    *)
(* frame taken after it was asked for, and the modes are those of the      *)
(* buttons, whatever is recorded, dropped, loaded and sought               *)
(* (plugin_dvr.cpp).                                                       *)
THEOREM RecorderSafety == DvrSpec => []RecorderIsSound
BY DvrInvariance, DvrInvIsSound, PTL

(* Recording on, at the limit too, does not move the frame at which the    *)
(* user paused the playback, unless that frame is dropped (plugin_dvr.cpp).*)
THEOREM PausedStays == DvrSpec => PausedPlaybackStays
<1> DEFINE here == frames[current + 1]
<1>1. ASSUME DvrInv, dvrMode = "record", seekMode = "pause", frames # <<>>,
             ProcessDvr(0), here \in ToSet(frames')
      PROVE  Shown' = here
  <2>1. /\ StreamIsSound(frames, current, liveFrame) /\ liveFrame \in Nat
        /\ maxFrames \in Nat
    BY <1>1, DvrAssumption DEF DvrInv, DvrNumbersOK
  <2>2. /\ frames \in Seq(FrameNumbers) /\ Len(frames) \in Nat \ {0}
        /\ current \in Nat /\ current + 1 <= Len(frames)
        /\ \A i, j \in 1 .. Len(frames) : i < j => frames[i] < frames[j]
        /\ \A i \in 1 .. Len(frames) : /\ frames[i] \in Int
                                       /\ frames[i] < liveFrame + 1
    <3>1. \A i \in 1 .. Len(frames) :
             frames[i] \in Int /\ frames[i] <= liveFrame
      BY <2>1, DvrAssumption DEF StreamIsSound, FrameNumbers
    <3> QED
      BY <1>1, <2>1, <3>1 DEF StreamIsSound
  <2>3. /\ dvrMode' = "record" /\ seekMode' = "pause"
        /\ frames' = Recorded(liveFrame + 1).frames
        /\ current' = Recorded(liveFrame + 1).current
    BY <1>1 DEF ProcessDvr, Sought, SetRecording
  <2>4. Shown' = IF current' < Len(frames') THEN frames'[current' + 1]
                                            ELSE liveFrame'
    BY <2>3 DEF Shown
  <2>5. \/ frames' = frames /\ current' = current
        \/ frames' = Append(frames, liveFrame + 1) /\ current' = current
        \/ /\ frames' = Append(Tail(frames), liveFrame + 1)
           /\ current' = IF current > 0 THEN current - 1 ELSE current
    BY <2>3 DEF Recorded, Recording, appendFrame
  <2>6. CASE frames' = frames /\ current' = current
    BY <2>2, <2>4, <2>6
  <2>7. CASE frames' = Append(frames, liveFrame + 1) /\ current' = current
    BY <2>2, <2>4, <2>7
  <2>8. CASE /\ frames' = Append(Tail(frames), liveFrame + 1)
             /\ current' = IF current > 0 THEN current - 1 ELSE current
    <3>1. /\ Len(frames') = Len(frames)
          /\ \A i \in 1 .. Len(frames) - 1 : frames'[i] = frames[i + 1]
          /\ frames'[Len(frames)] = liveFrame + 1
          /\ DOMAIN frames' = 1 .. Len(frames)
      BY <2>1, <2>2, <2>8
    <3>2. CASE current > 0
      <4>1. current' = current - 1 /\ current' < Len(frames')
        BY <2>2, <2>8, <3>1, <3>2
      <4>2. current \in 1 .. Len(frames) - 1 /\ current' + 1 = current
        BY <2>2, <3>2, <4>1
      <4> QED
        BY <2>4, <3>1, <4>1, <4>2
    <3>3. CASE current = 0
      <4>1. PICK k \in 1 .. Len(frames) : frames'[k] = frames[1]
        BY <1>1, <2>2, <3>1, <3>3 DEF ToSet
      <4>2. CASE k = Len(frames)
        BY <2>2, <3>1, <4>1, <4>2
      <4>3. CASE k \in 1 .. Len(frames) - 1
        <5>1. frames[k + 1] = frames[1] /\ k + 1 \in 1 .. Len(frames)
              /\ 1 \in 1 .. Len(frames) /\ 1 < k + 1
          BY <2>2, <3>1, <4>1, <4>3
        <5> QED
          BY <2>2, <5>1
      <4> QED
        BY <2>2, <4>2, <4>3
    <3> QED
      BY <2>2, <3>2, <3>3
  <2> QED
    BY <2>5, <2>6, <2>7, <2>8
<1>2. DvrInv =>
        [/\ dvrMode = "record" /\ seekMode = "pause" /\ frames # <<>>
         /\ ProcessDvr(0)
         /\ frames[current + 1] \in ToSet(frames')
         => Shown' = frames[current + 1]]_dvrVars
  BY <1>1
<1> QED
  BY <1>2, DvrInvariance, PTL DEF PausedPlaybackStays
----------------------------------------------------------------------------
(***************************************************************************)
(* CaptureDC1394: the tree of settings t, the register r of the camera.    *)
(***************************************************************************)
(* readParameterValues() and what it makes read-only.                      *)
LEMMA TreeReadIsTyped ==
  ASSUME NEW t \in Trees, NEW r \in Registers
  PROVE  TreeRead(t, r) \in Trees
<1>1. CASE ~caps.present
  BY <1>1 DEF TreeRead, Trees
<1>2. CASE caps.present
  BY <1>2 DEF TreeRead, Trees, Registers
<1> QED
  BY <1>1, <1>2

(* A present feature that can be read is in the tree as it is in the       *)
(* camera, and absolute values are used only where there are any.          *)
LEMMA TreeReadShows ==
  ASSUME NEW t \in Trees, NEW r \in Registers, t.useAbs => HasAbs,
         NEW u, u = TreeRead(t, r)
  PROVE  /\ caps.present /\ caps.readable =>
               u.wasRead /\ u.value = r.value /\ u.auto = r.auto
         /\ u.useAbs => HasAbs
<1>1. CASE ~caps.present
  BY <1>1 DEF TreeRead, Trees, HasAbs
<1>2. CASE caps.present
  BY <1>2 DEF TreeRead, Trees, Registers, HasAbs
<1> QED
  BY <1>1, <1>2

(* What readParameterValues() opens to editing has an effect.              *)
LEMMA EditableReadMatters ==
  ASSUME NEW t \in Trees, t.useAbs => HasAbs, NEW e \in SUBSET Fields,
         NEW f, f = EditableRead(t, e)
  PROVE  /\ f \subseteq Fields
         /\ "useAbs" \in f => HasAbs
         /\ "abs" \in f => t.useAbs /\ caps.absolute
         /\ "value" \in f => ~t.useAbs /\ ~t.auto
BY DEF EditableRead, FieldsIf, Fields, Trees, HasAbs

(* What readParameterProperty() opens are fields of the parameter.         *)
LEMMA EditablePropertyIsTyped ==
  ASSUME NEW e \in SUBSET Fields
  PROVE  EditableProperty(e) \subseteq Fields
BY DEF EditableProperty, FieldsIf, Fields

(* writeParameterValues().                                                 *)
LEMMA RegisterWrittenIsTyped ==
  ASSUME NEW t \in Trees, NEW r \in Registers, NEW pushed \in Values
  PROVE  RegisterWritten(t, r, pushed) \in Registers
BY DEF RegisterWritten, Registers, Trees

(* Neither a trigger nor a capability makes a feature absolute.            *)
LEMMA TreeChangesAreTyped ==
  ASSUME NEW t \in Trees
  PROVE  /\ TriggerReset(t) \in Trees /\ TriggerReset(t).useAbs = t.useAbs
         /\ EnabledProperty(t) \in Trees
         /\ EnabledProperty(t).useAbs = t.useAbs
BY DEF TriggerReset, EnabledProperty, Trees

(* The camera streams while the settings are locked and the parameters     *)
(* shown, an edit begins only then, and absolute values are used and       *)
(* offered only where the feature has them.                                *)
StreamIsLocked ==
    /\ camera = "streaming" <=> locked
    /\ locked <=> ~hidden
    /\ capturing => locked
    /\ gui # "idle" => locked /\ session = "running"
    /\ session = "ended" => ~locked

AbsoluteWhereAny ==
    /\ tree.useAbs \/ file.useAbs => HasAbs
    /\ "useAbs" \in editable => hidden \/ HasAbs

SettingsMatch == TreeShowsCamera /\ EditableMatters

CameraInv == /\ CameraTypeOK /\ StreamIsLocked /\ AbsoluteWhereAny
             /\ SettingsMatch

(* The invariant says more than is claimed of the camera.                  *)
LEMMA CameraInvFollows == CameraInv => CameraFollowsGui
BY DEF CameraInv, CameraFollowsGui, StreamIsLocked, ParameterAccessHasCamera,
   StreamCanBeStopped, SettingsMatch

(* When the parameters have been read the tree shows the camera, and what  *)
(* can be edited matters.                                                  *)
LEMMA ReadingSettles ==
  ASSUME NEW t \in Trees, t.useAbs => HasAbs, NEW e \in SUBSET Fields,
         register' \in Registers, caps' = caps,
         tree' = TreeRead(t, register'), editable' = EditableRead(tree', e)
  PROVE  /\ tree' \in Trees /\ editable' \subseteq Fields
         /\ tree'.useAbs => HasAbs'
         /\ "useAbs" \in editable' => HasAbs'
         /\ SettingsMatch'
<1>1. tree' \in Trees
  BY TreeReadIsTyped
<1>2. /\ caps.present /\ caps.readable =>
            /\ tree'.wasRead /\ tree'.value = register'.value
            /\ tree'.auto = register'.auto
      /\ tree'.useAbs => HasAbs
  BY TreeReadShows
<1>3. /\ editable' \subseteq Fields
      /\ "useAbs" \in editable' => HasAbs
      /\ "abs" \in editable' => tree'.useAbs /\ caps.absolute
      /\ "value" \in editable' => ~tree'.useAbs /\ ~tree'.auto
  BY <1>1, <1>2, EditableReadMatters
<1>4. HasAbs' <=> HasAbs
  BY DEF HasAbs
<1>5. TreeShowsCamera'
  BY <1>2 DEF TreeShowsCamera
<1>6. EditableMatters'
  BY <1>3 DEF EditableMatters
<1> QED
  BY <1>1, <1>2, <1>3, <1>4, <1>5, <1>6 DEF SettingsMatch

(* Steps that leave the tree and the register alone.                       *)
LEMMA OthersKeepSettings ==
  ASSUME CameraInv, UNCHANGED <<caps, register, tree, editable>>,
         capturing' => capturing, capturing' /\ gui' = "idle" => gui = "idle"
  PROVE  SettingsMatch'
BY DEF CameraInv, SettingsMatch, TreeShowsCamera, EditableMatters

(* startCapture() sets up the camera and shows what it can do.             *)
LEMMA StartKeepsCamera ==
  ASSUME CameraInv, StartCapture
  PROVE  CameraInv'
<1> DEFINE t == EnabledProperty(tree)
           u == TriggerReset(t)
           e == EditableProperty(editable)
<1>1. /\ tree \in Trees /\ register \in Registers /\ editable \in SUBSET Fields
      /\ tree.useAbs => HasAbs
  BY DEF CameraInv, CameraTypeOK, AbsoluteWhereAny
<1>2. t \in Trees /\ u \in Trees /\ (u.useAbs => HasAbs)
  BY <1>1, TreeChangesAreTyped
<1>3. e \in SUBSET Fields
  BY <1>1, EditablePropertyIsTyped
<1>4. /\ \E pushed \in Values :
            register' = RegisterWritten(t, register, pushed)
      /\ tree' = TreeRead(u, register')
      /\ editable' = EditableRead(tree', e)
  BY DEF StartCapture
<1> HIDE DEF t, u, e
<1>5. register' \in Registers
  <2>1. PICK pushed \in Values : register' = RegisterWritten(t, register, pushed)
    BY <1>4
  <2> QED
    BY <1>1, <1>2, <2>1, RegisterWrittenIsTyped
<1>6. caps' = caps
  BY DEF StartCapture, fixedVars
<1>7. /\ tree' \in Trees /\ editable' \subseteq Fields
      /\ tree'.useAbs => HasAbs'
      /\ "useAbs" \in editable' => HasAbs'
      /\ SettingsMatch'
  BY <1>2, <1>3, <1>4, <1>5, <1>6, ReadingSettles
<1>8. CameraTypeOK'
  BY <1>5, <1>7 DEF CameraInv, CameraTypeOK, StartCapture, OpenCamera, fixedVars
<1>9. StreamIsLocked'
  BY DEF CameraInv, StreamIsLocked, StartCapture, Idle, fixedVars
<1>10. AbsoluteWhereAny'
  <2>1. (HasAbs' <=> HasAbs) /\ file' = file
    BY <1>6 DEF HasAbs, StartCapture, fixedVars
  <2> QED
    BY <1>7, <2>1 DEF CameraInv, AbsoluteWhereAny
<1> QED
  BY <1>7, <1>8, <1>9, <1>10 DEF CameraInv

(* readParameterValues() shows what the camera has.                        *)
LEMMA ReadKeepsCamera ==
  ASSUME CameraInv, ReadParameter, gui' \in {"idle", gui}
  PROVE  CameraInv'
<1>1. /\ tree \in Trees /\ register \in Registers /\ editable \in SUBSET Fields
      /\ tree.useAbs => HasAbs
  BY DEF CameraInv, CameraTypeOK, AbsoluteWhereAny
<1>2. /\ caps' = caps /\ file' = file /\ register' = register
      /\ tree' = TreeRead(tree, register')
      /\ editable' = EditableRead(tree', editable)
  BY DEF ReadParameter, fixedVars
<1>3. /\ tree' \in Trees /\ editable' \subseteq Fields
      /\ tree'.useAbs => HasAbs'
      /\ "useAbs" \in editable' => HasAbs'
      /\ SettingsMatch'
  BY <1>1, <1>2, ReadingSettles
<1>4. CameraTypeOK'
  BY <1>3 DEF CameraInv, CameraTypeOK, ReadParameter, fixedVars
<1>5. StreamIsLocked'
  BY DEF CameraInv, StreamIsLocked, ReadParameter, fixedVars
<1>6. AbsoluteWhereAny'
  <2>1. HasAbs' <=> HasAbs
    BY <1>2 DEF HasAbs
  <2> QED
    BY <1>2, <1>3, <2>1 DEF CameraInv, AbsoluteWhereAny
<1> QED
  BY <1>3, <1>4, <1>5, <1>6 DEF CameraInv

(* Stopping reads the parameters once more.                                *)
LEMMA StopKeepsCamera ==
  ASSUME CameraInv, StopCapture, gui = "idle",
         session' \in {"running", "saved", "ended"}
  PROVE  CameraInv'
<1>1. /\ tree \in Trees /\ register \in Registers /\ editable \in SUBSET Fields
      /\ tree.useAbs \/ file.useAbs => HasAbs
  BY DEF CameraInv, CameraTypeOK, AbsoluteWhereAny
<1>2. /\ caps' = caps /\ file' = file /\ register' = register
      /\ ~capturing' /\ ~locked' /\ hidden' /\ camera' = "none"
      /\ UNCHANGED <<leaked, config, gui>> /\ held' = FALSE
      /\ capturing' = FALSE /\ locked' = FALSE /\ hidden' = TRUE
  BY DEF StopCapture
<1>3. tree' \in Trees /\ editable' \subseteq Fields /\ (tree'.useAbs => HasAbs)
  <2>1. CASE capturing
    <3>1. tree' = TreeRead(tree, register) /\ editable' = EditableRead(tree', editable)
      BY <2>1 DEF StopCapture
    <3>2. tree' \in Trees /\ (tree'.useAbs => HasAbs)
      BY <1>1, <3>1, TreeReadIsTyped, TreeReadShows
    <3> QED
      BY <1>1, <3>1, <3>2, EditableReadMatters
  <2>2. CASE ~capturing
    BY <1>1, <2>2 DEF StopCapture
  <2> QED
    BY <2>1, <2>2
<1>4. CameraTypeOK'
  BY <1>2, <1>3 DEF CameraInv, CameraTypeOK
<1>5. StreamIsLocked'
  BY <1>2 DEF CameraInv, StreamIsLocked
<1>6. AbsoluteWhereAny'
  <2>1. HasAbs' <=> HasAbs
    BY <1>2 DEF HasAbs
  <2> QED
    BY <1>1, <1>2, <1>3, <2>1 DEF AbsoluteWhereAny
<1>7. SettingsMatch'
  BY <1>2 DEF SettingsMatch, TreeShowsCamera, EditableMatters
<1> QED
  BY <1>4, <1>5, <1>6, <1>7 DEF CameraInv

(* An edit, which is not read back before it is written.                   *)
LEMMA EditKeepsCamera ==
  ASSUME CameraInv, NEW f \in Fields, EditParameter(f)
  PROVE  CameraInv'
<1>1. /\ tree \in Trees /\ editable \subseteq Fields
      /\ tree.useAbs \/ file.useAbs => HasAbs
      /\ "useAbs" \in editable => hidden \/ HasAbs
      /\ ~hidden /\ f \in editable
      /\ caps' = caps /\ file' = file /\ editable' = editable
      /\ hidden' = hidden /\ gui' = "edited"
  BY DEF CameraInv, CameraTypeOK, AbsoluteWhereAny, EditParameter, fixedVars
<1>2. tree' \in Trees /\ (tree'.useAbs => HasAbs)
  <2>1. CASE f = "useAbs"
    <3>1. tree' = [tree EXCEPT !.useAbs = ~@] /\ HasAbs
      BY <1>1, <2>1 DEF EditParameter
    <3> QED
      BY <1>1, <3>1 DEF Trees
  <2>2. CASE f # "useAbs"
    <3>1. \/ tree' = [tree EXCEPT !.enabled = ~@]
          \/ tree' = [tree EXCEPT !.auto = ~@]
          \/ tree' = [tree EXCEPT !.trigger = TRUE]
          \/ \E v \in Values : tree' = [tree EXCEPT !.value = v]
          \/ \E a \in Absolutes : tree' = [tree EXCEPT !.abs = a]
      BY <2>2 DEF EditParameter
    <3> QED
      BY <1>1, <3>1 DEF Trees
  <2> QED
    BY <2>1, <2>2
<1>3. CameraTypeOK'
  BY <1>1, <1>2 DEF CameraInv, CameraTypeOK, EditParameter, fixedVars
<1>4. StreamIsLocked'
  BY DEF CameraInv, StreamIsLocked, EditParameter, Idle, fixedVars
<1>5. AbsoluteWhereAny'
  <2>1. HasAbs' <=> HasAbs
    BY <1>1 DEF HasAbs
  <2> QED
    BY <1>1, <1>2, <2>1 DEF AbsoluteWhereAny
<1>6. SettingsMatch'
  BY <1>1 DEF SettingsMatch, TreeShowsCamera, EditableMatters
<1> QED
  BY <1>3, <1>4, <1>5, <1>6 DEF CameraInv

(* writeParameterValues() gives the camera what is shown.                  *)
LEMMA WriteKeepsCamera ==
  ASSUME CameraInv, WriteParameter
  PROVE  CameraInv'
<1>1. /\ tree \in Trees /\ register \in Registers
      /\ tree.useAbs \/ file.useAbs => HasAbs
      /\ caps' = caps /\ file' = file /\ editable' = editable
      /\ hidden' = hidden /\ gui' = "written"
      /\ tree' = TriggerReset(tree)
  BY DEF CameraInv, CameraTypeOK, AbsoluteWhereAny, WriteParameter, fixedVars
<1>2. tree' \in Trees /\ (tree'.useAbs => HasAbs)
  BY <1>1, TreeChangesAreTyped
<1>3. register' \in Registers
  BY <1>1, RegisterWrittenIsTyped DEF WriteParameter
<1>4. CameraTypeOK'
  BY <1>1, <1>2, <1>3 DEF CameraInv, CameraTypeOK, WriteParameter, fixedVars
<1>5. StreamIsLocked'
  BY DEF CameraInv, StreamIsLocked, WriteParameter, fixedVars
<1>6. AbsoluteWhereAny'
  <2>1. HasAbs' <=> HasAbs
    BY <1>1 DEF HasAbs
  <2> QED
    BY <1>1, <1>2, <2>1 DEF CameraInv, AbsoluteWhereAny
<1>7. SettingsMatch'
  BY <1>1 DEF SettingsMatch, TreeShowsCamera, EditableMatters
<1> QED
  BY <1>4, <1>5, <1>6, <1>7 DEF CameraInv

(* Steps that touch neither tree nor editable fields.                      *)
LEMMA OtherStepsKeepCamera ==
  ASSUME CameraInv,
         \/ ChangeConfig \/ StartFindsNoMode \/ StartFails \/ ResetBus
         \/ GetFrame \/ ReleaseFrame
  PROVE  CameraInv'
<1>1. /\ UNCHANGED <<caps, file, register, tree, editable, gui, hidden>>
      /\ capturing' => capturing
  <2>1. CASE ChangeConfig
    BY <2>1 DEF ChangeConfig, fixedVars
  <2>2. CASE StartFindsNoMode
    BY <2>2 DEF StartFindsNoMode, fixedVars
  <2>3. CASE StartFails
    BY <2>3 DEF StartFails, fixedVars
  <2>4. CASE ResetBus
    BY <2>4 DEF ResetBus, fixedVars
  <2>5. CASE GetFrame
    BY <2>5 DEF GetFrame, fixedVars
  <2>6. CASE ReleaseFrame
    BY <2>6 DEF ReleaseFrame, fixedVars
  <2> QED
    BY <2>1, <2>2, <2>3, <2>4, <2>5, <2>6
<1>2. CameraTypeOK'
  <2>1. CASE ChangeConfig
    BY <2>1 DEF CameraInv, CameraTypeOK, ChangeConfig, fixedVars
  <2>2. CASE StartFindsNoMode
    BY <2>2 DEF CameraInv, CameraTypeOK, StartFindsNoMode, fixedVars, OpenCamera
  <2>3. CASE StartFails
    BY <2>3 DEF CameraInv, CameraTypeOK, StartFails, fixedVars, OpenCamera
  <2>4. CASE ResetBus
    BY <2>4 DEF CameraInv, CameraTypeOK, ResetBus, fixedVars
  <2>5. CASE GetFrame
    BY <2>5 DEF CameraInv, CameraTypeOK, GetFrame, fixedVars
  <2>6. CASE ReleaseFrame
    BY <2>6 DEF CameraInv, CameraTypeOK, ReleaseFrame, fixedVars
  <2> QED
    BY <2>1, <2>2, <2>3, <2>4, <2>5, <2>6
<1>3. StreamIsLocked'
  <2>1. CASE ChangeConfig
    BY <2>1 DEF CameraInv, StreamIsLocked, ChangeConfig, fixedVars, Idle
  <2>2. CASE StartFindsNoMode
    BY <2>2 DEF CameraInv, StreamIsLocked, StartFindsNoMode, fixedVars, Idle
  <2>3. CASE StartFails
    BY <2>3 DEF CameraInv, StreamIsLocked, StartFails, fixedVars, Idle
  <2>4. CASE ResetBus
    BY <2>4 DEF CameraInv, StreamIsLocked, ResetBus, fixedVars, Idle
  <2>5. CASE GetFrame
    BY <2>5 DEF CameraInv, StreamIsLocked, GetFrame, fixedVars
  <2>6. CASE ReleaseFrame
    BY <2>6 DEF CameraInv, StreamIsLocked, ReleaseFrame, fixedVars
  <2> QED
    BY <2>1, <2>2, <2>3, <2>4, <2>5, <2>6
<1>4. AbsoluteWhereAny'
  BY <1>1 DEF CameraInv, AbsoluteWhereAny, HasAbs
<1>5. SettingsMatch'
  BY <1>1, OthersKeepSettings
<1> QED
  BY <1>2, <1>3, <1>4, <1>5 DEF CameraInv

(* A camera in automatic mode turns its own registers.                     *)
LEMMA AdjustingKeepsCamera ==
  ASSUME CameraInv, CameraAdjusts
  PROVE  CameraInv'
<1>1. /\ register \in Registers /\ register.auto
      /\ UNCHANGED <<caps, config, camera, leaked, tree, editable, file,
                     capturing, locked, hidden, held, gui, session>>
      /\ \E v \in Values, a \in Absolutes :
            register' = [register EXCEPT !.value = v, !.abs = a]
  BY DEF CameraInv, CameraTypeOK, CameraAdjusts, fixedVars
<1>2. register' \in Registers /\ register'.auto
  BY <1>1 DEF Registers
<1>3. CameraTypeOK'
  BY <1>1, <1>2 DEF CameraInv, CameraTypeOK
<1>4. StreamIsLocked' /\ AbsoluteWhereAny'
  BY <1>1 DEF CameraInv, StreamIsLocked, AbsoluteWhereAny, HasAbs
<1>5. TreeShowsCamera'
  BY <1>2 DEF TreeShowsCamera
<1>6. EditableMatters'
  BY <1>1 DEF CameraInv, SettingsMatch, EditableMatters
<1> QED
  BY <1>3, <1>4, <1>5, <1>6 DEF CameraInv, SettingsMatch

(* The end of the program and its next start.                              *)
LEMMA SessionsKeepCamera ==
  ASSUME CameraInv, SaveSettings \/ Restart
  PROVE  CameraInv'
<1>1. CASE SaveSettings
  <2>1. /\ UNCHANGED <<caps, config, camera, leaked, register, tree, editable,
                       capturing, locked, hidden, held, gui>>
        /\ file' = tree /\ session' = "saved" /\ gui = "idle"
    BY <1>1 DEF SaveSettings, Idle
  <2>2. CameraTypeOK'
    BY <2>1 DEF CameraInv, CameraTypeOK
  <2>3. StreamIsLocked' /\ AbsoluteWhereAny'
    BY <2>1 DEF CameraInv, StreamIsLocked, AbsoluteWhereAny, HasAbs
  <2>4. SettingsMatch'
    BY <2>1, OthersKeepSettings
  <2> QED
    BY <2>2, <2>3, <2>4 DEF CameraInv
<1>2. CASE Restart
  <2>1. /\ UNCHANGED <<caps, config, file, capturing, locked, hidden, held, gui>>
        /\ session = "ended" /\ session' = "running"
        /\ tree' = file /\ editable' = Fields
        /\ camera' = "none" /\ leaked' = FALSE
        /\ register' \in {register} \cup Registers
    BY <1>2 DEF Restart
  <2>2. ~locked /\ ~capturing /\ hidden
    BY <2>1 DEF CameraInv, StreamIsLocked, CameraTypeOK
  <2>3. CameraTypeOK'
    BY <2>1 DEF CameraInv, CameraTypeOK
  <2>4. StreamIsLocked'
    BY <2>1, <2>2 DEF CameraInv, StreamIsLocked
  <2>5. AbsoluteWhereAny'
    BY <2>1, <2>2 DEF CameraInv, AbsoluteWhereAny, HasAbs
  <2>6. SettingsMatch'
    BY <2>1, <2>2 DEF SettingsMatch, TreeShowsCamera, EditableMatters
  <2> QED
    BY <2>3, <2>4, <2>5, <2>6 DEF CameraInv
<1> QED
  BY <1>1, <1>2

(* Through every order of starts, failures, edits, refreshes by either     *)
(* thread and restarts of the program: with no edit under way the tree of  *)
(* settings shows the camera, a field that can be edited has an effect, a  *)
(* register is accessed only with a camera, and a stream can be stopped    *)
(* (capturedc1394v2.cpp).                                                  *)
THEOREM CameraSafety == CameraSpec => []CameraFollowsGui
<1>1. CameraInit => CameraInv
  <2> SUFFICES ASSUME CameraInit PROVE CameraInv
    OBVIOUS
  <2>1. CameraTypeOK
    BY DEF CameraInit, CameraTypeOK
  <2>2. StreamIsLocked
    BY DEF CameraInit, StreamIsLocked
  <2>3. AbsoluteWhereAny
    BY DEF CameraInit, AbsoluteWhereAny
  <2>4. SettingsMatch
    BY DEF CameraInit, SettingsMatch, TreeShowsCamera, EditableMatters
  <2> QED
    BY <2>1, <2>2, <2>3, <2>4 DEF CameraInv
<1>2. CameraInv /\ [CameraNext]_cameraVars => CameraInv'
  <2> SUFFICES ASSUME CameraInv, [CameraNext]_cameraVars PROVE CameraInv'
    OBVIOUS
  <2>1. CASE ChangeConfig \/ StartFindsNoMode \/ StartFails \/ ResetBus
             \/ GetFrame \/ ReleaseFrame
    BY <2>1, OtherStepsKeepCamera
  <2>2. CASE StartCapture
    BY <2>2, StartKeepsCamera
  <2>3. CASE StopButton \/ KillThread
    <3>1. /\ StopCapture /\ gui = "idle"
          /\ session' \in {"running", "saved", "ended"}
      BY <2>3 DEF StopButton, KillThread, Idle, CameraInv, CameraTypeOK,
         StreamIsLocked
    <3> QED
      BY <3>1, StopKeepsCamera
  <2>4. CASE WriteParameter
    BY <2>4, WriteKeepsCamera
  <2>5. CASE ReadBack \/ Refresh
    BY <2>5, ReadKeepsCamera DEF ReadBack, Refresh
  <2>6. CASE CameraAdjusts
    BY <2>6, AdjustingKeepsCamera
  <2>7. CASE SaveSettings \/ Restart
    BY <2>7, SessionsKeepCamera
  <2>8. ASSUME NEW f \in Fields, EditParameter(f)
        PROVE  CameraInv'
    BY <2>8, EditKeepsCamera
  <2>9. CASE UNCHANGED cameraVars
    BY <2>9 DEF cameraVars, CameraInv, CameraTypeOK, StreamIsLocked,
       AbsoluteWhereAny, SettingsMatch, TreeShowsCamera, EditableMatters, HasAbs
  <2> QED
    BY <2>1, <2>2, <2>3, <2>4, <2>5, <2>6, <2>7, <2>8, <2>9 DEF CameraNext
<1> QED
  BY <1>1, <1>2, CameraInvFollows, PTL DEF CameraSpec
----------------------------------------------------------------------------
(***************************************************************************)
(* LutEditor: what is stored is on top of the stack of undo.               *)
(***************************************************************************)
StrokeStored == undoStack # <<>> /\ Last(undoStack) = strokeBase

(* A stroke begins anew after each that ended over the editor.             *)
PensAreUp ==
    /\ continuing_undo => lutButtons # {} \/ releaseLost
    /\ lutStale = "stroke" => lutButtons # {} \/ releaseLost
    /\ pickContinues => picking
    /\ picking => lutButtons = {}

(* A stroke to which nothing else was done has stored the table before its *)
(* first change, and has only one button.                                  *)
StrokeIsOne ==
    strokeWhole =>
        /\ lutButtons # MouseButtons
        /\ lutTable # strokeBase => StrokeStored
        /\ lutStale = "stroke" => lutButtons # {}
        /\ lutButtons # {} =>
              /\ view_mode # "cube"
              /\ IF continuing_undo THEN StrokeStored
                 ELSE \/ lutTable = strokeBase
                      \/ "right" \in lutButtons /\ StrokeStored
        /\ picking => IF pickContinues THEN StrokeStored
                                       ELSE lutTable = strokeBase

EditorInv == /\ LutTypeOK /\ StacksAreBounded /\ PictureShowsTable
             /\ PensAreUp /\ StrokeIsOne

(* The invariant says more than is claimed of the editor.                  *)
LEMMA EditorInvIsSound == EditorInv => EditorIsSound
BY DEF EditorInv, EditorIsSound, StrokeIsOne, StrokeStored, UndoTakesBackStroke,
   StrokesReachDerived

(* editStore() puts the table on top of at most UNDO_SIZE others.          *)
StoresTable(goesOn) ==
    IF goesOn THEN UNCHANGED stackVars
    ELSE /\ redoStack' = <<>> /\ undoStack' \in Seq(Tables)
         /\ undoStack' # <<>> /\ Last(undoStack') = lutTable
         /\ Len(undoStack') <= UNDO_SIZE + 1

(* A stroke that begins stores the table, one that goes on stores nothing. *)
LEMMA EditStores ==
  ASSUME LutTypeOK, NEW goesOn, editStore(goesOn)
  PROVE  StoresTable(goesOn)
<1>1. CASE goesOn
  BY <1>1 DEF editStore, StoresTable
<1>2. CASE ~goesOn
  <2> DEFINE first == IF Len(undoStack) > UNDO_SIZE
                      THEN Len(undoStack) - UNDO_SIZE + 1 ELSE 1
             kept == SubSeq(undoStack, first, Len(undoStack))
  <2>1. /\ undoStack \in Seq(Tables) /\ lutTable \in Tables
        /\ Len(undoStack) \in Nat /\ UNDO_SIZE \in Nat
    BY LutAssumption DEF LutTypeOK
  <2>2. redoStack' = <<>> /\ undoStack' = Append(kept, lutTable)
    BY <1>2 DEF editStore
  <2>3. first \in Nat \ {0} /\ first >= Len(undoStack) - UNDO_SIZE + 1
    BY <2>1
  <2> HIDE DEF first
  <2>4. \A i \in first .. Len(undoStack) : undoStack[i] \in Tables
    BY <2>1, <2>3
  <2>5. /\ kept \in Seq(Tables)
        /\ Len(kept) = IF first <= Len(undoStack)
                       THEN Len(undoStack) - first + 1 ELSE 0
    BY <2>1, <2>3, <2>4, SubSeqProperties
  <2>6. Len(kept) \in Nat /\ Len(kept) <= UNDO_SIZE
    BY <2>1, <2>3, <2>5
  <2> HIDE DEF kept
  <2>7. /\ undoStack' \in Seq(Tables) /\ Len(undoStack') = Len(kept) + 1
        /\ undoStack'[Len(kept) + 1] = lutTable /\ undoStack' # <<>>
    BY <2>1, <2>2, <2>5
  <2> QED
    BY <1>2, <2>1, <2>2, <2>6, <2>7 DEF StoresTable, Last
<1> QED
  BY <1>1, <1>2

(* What is taken off a stack is a table.                                   *)
LEMMA TopOfStack ==
  ASSUME NEW s \in Seq(Tables), s # <<>>
  PROVE  /\ Last(s) \in Tables /\ Front(s) \in Seq(Tables)
         /\ Len(Front(s)) = Len(s) - 1
<1>1. Len(s) \in Nat /\ Len(s) >= 1
  BY EmptySeq, LenProperties
<1>2. \A i \in 1 .. Len(s) : s[i] \in Tables
  OBVIOUS
<1>3. \A i \in 1 .. Len(s) - 1 : s[i] \in Tables
  BY <1>1, <1>2
<1>4. /\ SubSeq(s, 1, Len(s) - 1) \in Seq(Tables)
      /\ Len(SubSeq(s, 1, Len(s) - 1))
            = IF 1 <= Len(s) - 1 THEN Len(s) - 1 - 1 + 1 ELSE 0
  BY <1>1, <1>3, SubSeqProperties
<1>5. Len(SubSeq(s, 1, Len(s) - 1)) = Len(s) - 1
  <2>1. \A n \in Nat : \A m :
           n >= 1 /\ m = (IF 1 <= n - 1 THEN n - 1 - 1 + 1 ELSE 0) => m = n - 1
    OBVIOUS
  <2> QED
    BY <1>1, <1>4, <2>1, Zenon
<1> QED
  BY <1>1, <1>2, <1>4, <1>5 DEF Last, Front

(* Drawing changes the texture as it changes the table.                    *)
LEMMA DrawKeepsPicture ==
  ASSUME LutTypeOK, PictureShowsTable,
         NEW cells, NEW slice, NEW modifier, NEW by,
         Draw(cells, slice, modifier, by)
  PROVE  lutTable' \in Tables /\ lutShown' = lutTable' /\ lutStale' = by
<1> DEFINE mask == IF modifier \in {"alt", "shift"} THEN 0 ELSE channel
<1>1. mask \in LutChannels /\ lutTable \in Tables
  BY LutAssumption DEF LutTypeOK
<1>2. /\ lutTable' = [at \in DOMAIN lutTable |->
                         IF at[1] = slice /\ at[2] \in cells
                         THEN mask ELSE lutTable[at]]
      /\ lutShown' = lutTable' /\ lutStale' = by
  BY DEF Draw, PictureShowsTable
<1> HIDE DEF mask
<1> QED
  BY <1>1, <1>2 DEF Tables

(* drawEvent(): it fills, it draws, or it leaves all but the pen alone.    *)
LEMMA DrawEvents ==
  ASSUME LutTypeOK, PictureShowsTable,
         NEW cell, NEW button, NEW pressed, NEW modifier, NEW dragging,
         drawEvent(cell, button, pressed, modifier, dragging)
  PROVE  /\ drag' \in {cell, dragging}
         /\ \/ /\ lutTable' \in Tables /\ lutShown' = lutTable'
               /\ lutStale' = "stroke" /\ StoresTable(continuing_undo)
               /\ \/ button = "right" /\ continuing_undo' = FALSE
                  \/ /\ button # "right" /\ "right" \notin pressed
                     /\ continuing_undo' = TRUE
            \/ /\ UNCHANGED <<lutTable, lutShown, lutStale, stackVars,
                              continuing_undo>>
               /\ button # "right" /\ "right" \in pressed
<1>1. CASE button = "right"
  <2>1. /\ editStore(continuing_undo)
        /\ Draw(Connected(cell), slice_idx, modifier, "stroke")
        /\ drag' = dragging /\ continuing_undo' = FALSE
    BY <1>1 DEF drawEvent
  <2> QED
    BY <1>1, <2>1, EditStores, DrawKeepsPicture
<1>2. CASE button # "right" /\ "right" \notin pressed
  <2> DEFINE cells == Touched(IF dragging = NoDrag THEN {cell}
                              ELSE Between(cell, dragging), modifier)
  <2>1. /\ editStore(continuing_undo)
        /\ Draw(cells, slice_idx, modifier, "stroke")
        /\ drag' = cell /\ continuing_undo' = TRUE
    BY <1>2 DEF drawEvent
  <2> HIDE DEF cells
  <2> QED
    BY <1>2, <2>1, EditStores, DrawKeepsPicture
<1>3. CASE button # "right" /\ "right" \in pressed
  BY <1>3 DEF drawEvent
<1> QED
  BY <1>1, <1>2, <1>3

(* PluginColorCalibration::mouseEvent(): a pick draws, or leaves all but   *)
(* its own pen alone.                                                      *)
LEMMA PickEvents ==
  ASSUME LutTypeOK, PictureShowsTable, NEW modifier \in Masks,
         Pick(modifier, pickContinues)
  PROVE  \/ /\ lutTable' \in Tables /\ lutShown' = lutTable'
            /\ lutStale' = "pick" /\ StoresTable(pickContinues)
            /\ slice_idx' \in LutSlices /\ pickContinues' = TRUE
         \/ /\ UNCHANGED <<lutTable, lutShown, lutStale, stackVars, slice_idx>>
            /\ pickContinues' = TRUE /\ modifier = "alt"
         \/ /\ UNCHANGED <<lutTable, lutShown, lutStale, stackVars, slice_idx,
                           pickContinues>>
<1>1. CASE modifier \in {"none", "alt"}
  BY <1>1 DEF Pick
<1>2. CASE modifier \in {"shift", "ctrl"}
  <2> DEFINE mask == IF modifier = "ctrl" THEN "none" ELSE "shift"
  <2>1. PICK at \in LutPoints : /\ slice_idx' = at[1]
                                /\ editStore(pickContinues)
                                /\ Draw({at[2]}, at[1], mask, "pick")
    BY <1>2 DEF Pick
  <2>2. pickContinues' = TRUE
    BY <1>2 DEF Pick
  <2> HIDE DEF mask
  <2>3. StoresTable(pickContinues)
    BY <2>1, EditStores
  <2>4. lutTable' \in Tables /\ lutShown' = lutTable' /\ lutStale' = "pick"
    BY <2>1, DrawKeepsPicture
  <2>5. slice_idx' \in LutSlices
    BY <2>1 DEF LutSlices
  <2> QED
    BY <2>2, <2>3, <2>4, <2>5
<1> QED
  BY <1>1, <1>2 DEF Masks

(***************************************************************************)
(* The handlers, one by one.                                               *)
(***************************************************************************)
(* Undo and redo move one table from stack to stack.                       *)
LEMMA UndoKeepsEditor ==
  ASSUME EditorInv, editUndo \/ editRedo
  PROVE  EditorInv'
<1>1. LutTypeOK /\ StacksAreBounded /\ PictureShowsTable /\ PensAreUp
  BY DEF EditorInv
<1>2. /\ lutStale' = "no" /\ strokeWhole' = FALSE
      /\ UNCHANGED <<slice_idx, channel, view_mode, drag, continuing_undo,
                     lutButtons, picking, pickContinues, strokeBase, releaseLost>>
  BY DEF editUndo, editRedo, penVars, pickVars
<1>3. PensAreUp' /\ StrokeIsOne'
  BY <1>1, <1>2 DEF PensAreUp, StrokeIsOne
<1>4. /\ lutTable' \in Tables /\ lutShown' = lutTable'
      /\ undoStack' \in Seq(Tables) /\ redoStack' \in Seq(Tables)
      /\ Len(undoStack') + Len(redoStack') = Len(undoStack) + Len(redoStack)
  <2>1. CASE UNCHANGED <<lutTable, lutShown, stackVars>>
    BY <1>1, <2>1 DEF LutTypeOK, PictureShowsTable, stackVars
  <2>2. CASE editUndo /\ undoStack # <<>>
    <3>1. /\ lutTable' = Last(undoStack) /\ lutShown' = lutTable'
          /\ undoStack' = Front(undoStack)
          /\ redoStack' = Append(redoStack, lutTable)
      BY <2>2 DEF editUndo
    <3>2. /\ lutTable \in Tables /\ undoStack \in Seq(Tables)
          /\ redoStack \in Seq(Tables)
      BY <1>1 DEF LutTypeOK
    <3>3. /\ lutTable' \in Tables /\ undoStack' \in Seq(Tables)
          /\ Len(undoStack') = Len(undoStack) - 1
      BY <2>2, <3>1, <3>2, TopOfStack
    <3>4. redoStack' \in Seq(Tables) /\ Len(redoStack') = Len(redoStack) + 1
      BY <3>1, <3>2
    <3>5. Len(undoStack) \in Nat /\ Len(redoStack) \in Nat
      BY <3>2
    <3> QED
      BY <3>1, <3>3, <3>4, <3>5
  <2>3. CASE editRedo /\ redoStack # <<>>
    <3>1. /\ lutTable' = Last(redoStack) /\ lutShown' = lutTable'
          /\ redoStack' = Front(redoStack)
          /\ undoStack' = Append(undoStack, lutTable)
      BY <2>3 DEF editRedo
    <3>2. /\ lutTable \in Tables /\ undoStack \in Seq(Tables)
          /\ redoStack \in Seq(Tables)
      BY <1>1 DEF LutTypeOK
    <3>3. /\ lutTable' \in Tables /\ redoStack' \in Seq(Tables)
          /\ Len(redoStack') = Len(redoStack) - 1
      BY <2>3, <3>1, <3>2, TopOfStack
    <3>4. undoStack' \in Seq(Tables) /\ Len(undoStack') = Len(undoStack) + 1
      BY <3>1, <3>2
    <3>5. Len(undoStack) \in Nat /\ Len(redoStack) \in Nat
      BY <3>2
    <3> QED
      BY <3>1, <3>3, <3>4, <3>5
  <2> QED
    BY <2>1, <2>2, <2>3 DEF editUndo, editRedo
<1>5. LutTypeOK'
  BY <1>1, <1>2, <1>4 DEF LutTypeOK
<1>6. StacksAreBounded' /\ PictureShowsTable'
  BY <1>1, <1>4 DEF StacksAreBounded, PictureShowsTable
<1> QED
  BY <1>3, <1>5, <1>6 DEF EditorInv

(* What is stored leaves the stacks within bounds and of tables.           *)
LEMMA StoresKeepStacks ==
  ASSUME LutTypeOK, StacksAreBounded, NEW goesOn, StoresTable(goesOn)
  PROVE  /\ undoStack' \in Seq(Tables) /\ redoStack' \in Seq(Tables)
         /\ StacksAreBounded'
<1>1. CASE goesOn
  BY <1>1 DEF StoresTable, LutTypeOK, StacksAreBounded, stackVars
<1>2. CASE ~goesOn
  <2>1. /\ redoStack' = <<>> /\ undoStack' \in Seq(Tables)
        /\ Len(undoStack') <= UNDO_SIZE + 1
    BY <1>2 DEF StoresTable
  <2>2. Len(redoStack') = 0 /\ Len(undoStack') \in Nat /\ UNDO_SIZE \in Nat
    BY <2>1, LutAssumption
  <2> QED
    BY <2>1, <2>2, EmptySeq DEF StacksAreBounded
<1> QED
  BY <1>1, <1>2

(* A press begins a stroke, with what was before it on top of the stack    *)
(* once it has drawn.                                                      *)
LEMMA PressKeepsEditor ==
  ASSUME EditorInv, mousePressEvent
  PROVE  EditorInv'
<1>1. LutTypeOK /\ StacksAreBounded /\ PictureShowsTable /\ PensAreUp
  BY DEF EditorInv
<1>2. PICK button \in MouseButtons \ lutButtons, modifier \in Masks :
        /\ lutButtons' = lutButtons \cup {button}
        /\ IF view_mode = "cube"
           THEN UNCHANGED <<lutTable, lutShown, lutStale, stackVars, penVars>>
           ELSE \/ \E cell \in CellsOf(slice_idx) :
                      drawEvent(cell, button, lutButtons', modifier, NoDrag)
                \/ /\ drag' = NoDrag
                   /\ UNCHANGED <<lutTable, lutShown, lutStale, stackVars,
                                  continuing_undo>>
  BY DEF mousePressEvent
<1>3. /\ ~picking /\ strokeBase' = lutTable
      /\ strokeWhole' \in BOOLEAN
      /\ strokeWhole' => /\ lutButtons = {} /\ ~releaseLost
                         /\ view_mode # "cube"
      /\ UNCHANGED <<slice_idx, channel, view_mode, picking, pickContinues,
                     releaseLost>>
  BY DEF mousePressEvent, pickVars
<1>4. /\ drag' \in LutCells \cup {NoDrag}
      /\ \/ /\ lutTable' \in Tables /\ lutShown' = lutTable'
            /\ lutStale' = "stroke" /\ StoresTable(continuing_undo)
            /\ \/ button = "right" /\ continuing_undo' = FALSE
               \/ continuing_undo' = TRUE
         \/ UNCHANGED <<lutTable, lutShown, lutStale, undoStack, redoStack,
                        continuing_undo>>
  <2>1. CASE view_mode = "cube"
    BY <1>1, <1>2, <2>1 DEF LutTypeOK, penVars, stackVars
  <2>2. CASE /\ drag' = NoDrag
             /\ UNCHANGED <<lutTable, lutShown, lutStale, stackVars,
                            continuing_undo>>
    BY <2>2 DEF stackVars
  <2>3. ASSUME NEW cell \in CellsOf(slice_idx),
               drawEvent(cell, button, lutButtons', modifier, NoDrag)
        PROVE  <1>4!:
    BY <1>1, <2>3, DrawEvents DEF CellsOf, stackVars
  <2> QED
    BY <1>2, <2>1, <2>2, <2>3
<1>5. LutTypeOK'
  <2>1. undoStack' \in Seq(Tables) /\ redoStack' \in Seq(Tables)
    BY <1>1, <1>4, StoresKeepStacks DEF LutTypeOK
  <2>2. /\ {lutTable', lutShown', strokeBase'} \subseteq Tables
        /\ lutStale' \in {"no", "stroke", "pick"}
    BY <1>1, <1>3, <1>4 DEF LutTypeOK
  <2>3. {continuing_undo', picking', pickContinues', releaseLost',
         strokeWhole'} \subseteq BOOLEAN
    BY <1>1, <1>3, <1>4 DEF LutTypeOK
  <2>4. /\ slice_idx' \in LutSlices /\ channel' \in LutChannels
        /\ view_mode' \in {"single", "grid", "cube"}
        /\ lutButtons' \subseteq MouseButtons
    BY <1>1, <1>2, <1>3 DEF LutTypeOK
  <2> QED
    BY <1>4, <2>1, <2>2, <2>3, <2>4 DEF LutTypeOK
<1>6. StacksAreBounded'
  BY <1>1, <1>4, StoresKeepStacks DEF StacksAreBounded
<1>7. PictureShowsTable'
  BY <1>1, <1>4 DEF PictureShowsTable
<1>8. PensAreUp'
  BY <1>1, <1>2, <1>3 DEF PensAreUp
<1>9. StrokeIsOne'
  <2> SUFFICES ASSUME strokeWhole'
               PROVE  StrokeIsOne'
    BY DEF StrokeIsOne
  <2>1. /\ lutButtons = {} /\ view_mode' # "cube" /\ ~picking'
        /\ ~continuing_undo /\ lutButtons' = {button}
    BY <1>1, <1>2, <1>3 DEF PensAreUp
  <2>2. lutButtons' # MouseButtons /\ lutButtons' # {}
    BY <2>1 DEF MouseButtons
  <2>3. CASE /\ StoresTable(continuing_undo)
             /\ \/ button = "right" /\ continuing_undo' = FALSE
                \/ continuing_undo' = TRUE
    <3>1. StrokeStored'
      BY <1>3, <2>1, <2>3 DEF StoresTable, StrokeStored
    <3> QED
      BY <2>1, <2>2, <2>3, <3>1 DEF StrokeIsOne
  <2>4. CASE UNCHANGED <<lutTable, continuing_undo>>
    BY <1>3, <2>1, <2>2, <2>4 DEF StrokeIsOne
  <2> QED
    BY <1>4, <2>3, <2>4
<1> QED
  BY <1>5, <1>6, <1>7, <1>8, <1>9 DEF EditorInv

(* A move goes on with the stroke, or begins to store it.                  *)
LEMMA MoveKeepsEditor ==
  ASSUME EditorInv, mouseMoveEvent
  PROVE  EditorInv'
<1>1. LutTypeOK /\ StacksAreBounded /\ PictureShowsTable /\ PensAreUp
  BY DEF EditorInv
<1>2. PICK cell \in CellsOf(slice_idx), modifier \in Masks :
        drawEvent(cell, "no", lutButtons, modifier, drag)
  BY DEF mouseMoveEvent
<1>3. /\ lutButtons # {} /\ view_mode # "cube"
      /\ UNCHANGED <<slice_idx, channel, view_mode, lutButtons, picking,
                     pickContinues, strokeBase, releaseLost, strokeWhole>>
  BY DEF mouseMoveEvent, pickVars, strokeVars
<1>4. /\ drag' \in LutCells \cup {NoDrag}
      /\ \/ /\ lutTable' \in Tables /\ lutShown' = lutTable'
            /\ lutStale' = "stroke" /\ StoresTable(continuing_undo)
            /\ "right" \notin lutButtons /\ continuing_undo' = TRUE
         \/ UNCHANGED <<lutTable, lutShown, lutStale, undoStack, redoStack,
                        continuing_undo>>
  <2>1. /\ drag' \in {cell, drag}
        /\ \/ /\ lutTable' \in Tables /\ lutShown' = lutTable'
              /\ lutStale' = "stroke" /\ StoresTable(continuing_undo)
              /\ "right" \notin lutButtons /\ continuing_undo' = TRUE
           \/ UNCHANGED <<lutTable, lutShown, lutStale, stackVars,
                          continuing_undo>>
    <3>1. /\ drag' \in {cell, drag}
          /\ \/ /\ lutTable' \in Tables /\ lutShown' = lutTable'
                /\ lutStale' = "stroke" /\ StoresTable(continuing_undo)
                /\ \/ "no" = "right" /\ continuing_undo' = FALSE
                   \/ /\ "no" # "right" /\ "right" \notin lutButtons
                      /\ continuing_undo' = TRUE
             \/ /\ UNCHANGED <<lutTable, lutShown, lutStale, stackVars,
                               continuing_undo>>
                /\ "no" # "right" /\ "right" \in lutButtons
      BY <1>1, <1>2, DrawEvents, Zenon
    <3> QED
      BY <3>1
  <2>2. cell \in LutCells /\ drag \in LutCells \cup {NoDrag}
    BY <1>1 DEF LutTypeOK, CellsOf
  <2> QED
    BY <2>1, <2>2 DEF stackVars
<1>5. LutTypeOK'
  <2>1. undoStack' \in Seq(Tables) /\ redoStack' \in Seq(Tables)
    BY <1>1, <1>4, StoresKeepStacks DEF LutTypeOK
  <2>2. /\ {lutTable', lutShown', strokeBase'} \subseteq Tables
        /\ lutStale' \in {"no", "stroke", "pick"}
    BY <1>1, <1>3, <1>4 DEF LutTypeOK
  <2>3. {continuing_undo', picking', pickContinues', releaseLost',
         strokeWhole'} \subseteq BOOLEAN
    BY <1>1, <1>3, <1>4 DEF LutTypeOK
  <2> QED
    BY <1>1, <1>3, <1>4, <2>1, <2>2, <2>3 DEF LutTypeOK
<1>6. StacksAreBounded'
  BY <1>1, <1>4, StoresKeepStacks DEF StacksAreBounded
<1>7. PictureShowsTable'
  BY <1>1, <1>4 DEF PictureShowsTable
<1>8. PensAreUp'
  BY <1>1, <1>3 DEF PensAreUp
<1>9. StrokeIsOne'
  <2> SUFFICES ASSUME strokeWhole'
               PROVE  StrokeIsOne'
    BY DEF StrokeIsOne
  <2>1. /\ lutButtons # MouseButtons /\ ~picking
        /\ IF continuing_undo THEN StrokeStored
           ELSE \/ lutTable = strokeBase
                \/ "right" \in lutButtons /\ StrokeStored
    BY <1>1, <1>3 DEF EditorInv, StrokeIsOne, PensAreUp
  <2>2. CASE /\ StoresTable(continuing_undo)
             /\ "right" \notin lutButtons /\ continuing_undo' = TRUE
    <3>1. StrokeStored'
      BY <1>3, <2>1, <2>2 DEF StoresTable, StrokeStored, stackVars
    <3> QED
      BY <1>3, <2>1, <2>2, <3>1 DEF StrokeIsOne
  <2>3. CASE UNCHANGED <<lutTable, lutStale, undoStack, continuing_undo>>
    BY <1>3, <2>3 DEF EditorInv, StrokeIsOne, StrokeStored
  <2> QED
    BY <1>4, <2>2, <2>3
<1> QED
  BY <1>5, <1>6, <1>7, <1>8, <1>9 DEF EditorInv

(* A release over the editor ends the stroke; one in the cube is lost, and *)
(* is remembered.                                                          *)
LEMMA ReleaseKeepsEditor ==
  ASSUME EditorInv, mouseReleaseEvent
  PROVE  EditorInv'
<1>1. LutTypeOK /\ StacksAreBounded /\ PictureShowsTable /\ PensAreUp
  BY DEF EditorInv
<1>2. PICK button \in lutButtons : lutButtons' = lutButtons \ {button}
  BY DEF mouseReleaseEvent, Released
<1>3. /\ releaseLost' = (view_mode = "cube" /\ (releaseLost \/ continuing_undo
                                               \/ lutStale = "stroke"))
      /\ UNCHANGED <<lutTable, lutShown, undoStack, redoStack, slice_idx,
                     channel, view_mode, picking, pickContinues, strokeBase,
                     strokeWhole>>
  BY DEF mouseReleaseEvent, Released, stackVars, pickVars
<1>4. IF view_mode = "cube" THEN UNCHANGED <<drag, continuing_undo, lutStale>>
      ELSE drag' = NoDrag /\ continuing_undo' = FALSE /\ lutStale' = "no"
  BY DEF mouseReleaseEvent, penVars
<1>5. LutTypeOK'
  BY <1>1, <1>2, <1>3, <1>4 DEF LutTypeOK
<1>6. StacksAreBounded' /\ PictureShowsTable'
  BY <1>1, <1>3 DEF StacksAreBounded, PictureShowsTable
<1>7. PensAreUp'
  BY <1>1, <1>2, <1>3, <1>4 DEF PensAreUp
<1>8. StrokeIsOne'
  <2> SUFFICES ASSUME strokeWhole'
               PROVE  StrokeIsOne'
    BY DEF StrokeIsOne
  <2>1. /\ lutButtons # MouseButtons /\ view_mode # "cube" /\ ~picking
        /\ lutTable # strokeBase => StrokeStored
    BY <1>1, <1>2, <1>3 DEF EditorInv, StrokeIsOne, PensAreUp
  <2>2. lutButtons' = {} /\ lutButtons' # MouseButtons
    BY <1>1, <1>2, <2>1 DEF LutTypeOK, MouseButtons
  <2> QED
    BY <1>3, <1>4, <2>1, <2>2 DEF StrokeIsOne, StrokeStored
<1> QED
  BY <1>5, <1>6, <1>7, <1>8 DEF EditorInv

(* A colour picked with the button just pressed begins a stroke.           *)
LEMMA PickPressKeepsEditor ==
  ASSUME EditorInv, PickPressed
  PROVE  EditorInv'
<1>1. LutTypeOK /\ StacksAreBounded /\ PictureShowsTable /\ PensAreUp
  BY DEF EditorInv
<1>2. PICK modifier \in Masks :
        /\ Pick(modifier, pickContinues)
        /\ strokeWhole' = (modifier # "alt" /\ ~releaseLost)
  BY DEF PickPressed
<1>3. /\ ~picking /\ lutButtons = {} /\ picking' = TRUE
      /\ strokeBase' = lutTable
      /\ UNCHANGED <<channel, view_mode, drag, continuing_undo, lutButtons,
                     releaseLost>>
  BY DEF PickPressed, penVars
<1>4. \/ /\ lutTable' \in Tables /\ lutShown' = lutTable'
         /\ lutStale' = "pick" /\ StoresTable(pickContinues)
         /\ slice_idx' \in LutSlices /\ pickContinues' = TRUE
      \/ /\ UNCHANGED <<lutTable, lutShown, lutStale, undoStack, redoStack,
                        slice_idx>>
         /\ pickContinues' = TRUE /\ modifier = "alt"
      \/ UNCHANGED <<lutTable, lutShown, lutStale, undoStack, redoStack,
                     slice_idx, pickContinues>>
  BY <1>1, <1>2, PickEvents DEF stackVars
<1>5. LutTypeOK'
  <2>1. undoStack' \in Seq(Tables) /\ redoStack' \in Seq(Tables)
    BY <1>1, <1>4, StoresKeepStacks DEF LutTypeOK
  <2>2. /\ {lutTable', lutShown', strokeBase'} \subseteq Tables
        /\ lutStale' \in {"no", "stroke", "pick"}
        /\ slice_idx' \in LutSlices
    BY <1>1, <1>3, <1>4 DEF LutTypeOK
  <2>3. {continuing_undo', picking', pickContinues', releaseLost',
         strokeWhole'} \subseteq BOOLEAN
    BY <1>1, <1>2, <1>3, <1>4 DEF LutTypeOK
  <2> QED
    BY <1>1, <1>3, <2>1, <2>2, <2>3 DEF LutTypeOK
<1>6. StacksAreBounded'
  BY <1>1, <1>4, StoresKeepStacks DEF StacksAreBounded
<1>7. PictureShowsTable'
  BY <1>1, <1>4 DEF PictureShowsTable
<1>8. PensAreUp'
  BY <1>1, <1>3, <1>4 DEF PensAreUp
<1>9. StrokeIsOne'
  <2> SUFFICES ASSUME strokeWhole'
               PROVE  StrokeIsOne'
    BY DEF StrokeIsOne
  <2>1. /\ ~pickContinues /\ lutStale # "stroke" /\ modifier # "alt"
        /\ lutButtons' = {} /\ lutButtons' # MouseButtons
    BY <1>1, <1>2, <1>3 DEF PensAreUp, MouseButtons
  <2>2. CASE lutStale' = "pick" /\ StoresTable(pickContinues)
             /\ pickContinues' = TRUE
    <3>1. StrokeStored'
      BY <1>3, <2>1, <2>2 DEF StoresTable, StrokeStored
    <3> QED
      BY <2>1, <2>2, <3>1 DEF StrokeIsOne
  <2>3. CASE UNCHANGED <<lutTable, lutStale, pickContinues>>
    BY <1>3, <2>1, <2>3 DEF StrokeIsOne
  <2> QED
    BY <1>4, <2>1, <2>2, <2>3
<1> QED
  BY <1>5, <1>6, <1>7, <1>8, <1>9 DEF EditorInv

(* Every other colour picked while it is held goes on with that stroke.    *)
LEMMA PickMoveKeepsEditor ==
  ASSUME EditorInv, PickMoved
  PROVE  EditorInv'
<1>1. LutTypeOK /\ StacksAreBounded /\ PictureShowsTable /\ PensAreUp
  BY DEF EditorInv
<1>2. PICK modifier \in Masks :
        /\ Pick(modifier, pickContinues)
        /\ strokeWhole' = (strokeWhole /\ modifier # "alt")
  BY DEF PickMoved
<1>3. /\ picking
      /\ UNCHANGED <<channel, view_mode, drag, continuing_undo, lutButtons,
                     picking, strokeBase, releaseLost>>
  BY DEF PickMoved, penVars
<1>4. \/ /\ lutTable' \in Tables /\ lutShown' = lutTable'
         /\ lutStale' = "pick" /\ StoresTable(pickContinues)
         /\ slice_idx' \in LutSlices /\ pickContinues' = TRUE
      \/ /\ UNCHANGED <<lutTable, lutShown, lutStale, undoStack, redoStack,
                        slice_idx>>
         /\ pickContinues' = TRUE /\ modifier = "alt"
      \/ UNCHANGED <<lutTable, lutShown, lutStale, undoStack, redoStack,
                     slice_idx, pickContinues>>
  BY <1>1, <1>2, PickEvents DEF stackVars
<1>5. LutTypeOK'
  <2>1. undoStack' \in Seq(Tables) /\ redoStack' \in Seq(Tables)
    BY <1>1, <1>4, StoresKeepStacks DEF LutTypeOK
  <2>2. /\ {lutTable', lutShown', strokeBase'} \subseteq Tables
        /\ lutStale' \in {"no", "stroke", "pick"}
        /\ slice_idx' \in LutSlices
    BY <1>1, <1>3, <1>4 DEF LutTypeOK
  <2>3. {continuing_undo', picking', pickContinues', releaseLost',
         strokeWhole'} \subseteq BOOLEAN
    BY <1>1, <1>2, <1>3, <1>4 DEF LutTypeOK
  <2> QED
    BY <1>1, <1>3, <2>1, <2>2, <2>3 DEF LutTypeOK
<1>6. StacksAreBounded'
  BY <1>1, <1>4, StoresKeepStacks DEF StacksAreBounded
<1>7. PictureShowsTable'
  BY <1>1, <1>4 DEF PictureShowsTable
<1>8. PensAreUp'
  BY <1>1, <1>3, <1>4 DEF PensAreUp
<1>9. StrokeIsOne'
  <2> SUFFICES ASSUME strokeWhole'
               PROVE  StrokeIsOne'
    BY DEF StrokeIsOne
  <2>1. strokeWhole /\ modifier # "alt"
    BY <1>2
  <2>2. /\ IF pickContinues THEN StrokeStored ELSE lutTable = strokeBase
        /\ lutButtons' = {} /\ lutButtons' # MouseButtons
        /\ lutStale # "stroke"
    BY <1>1, <1>3, <2>1 DEF EditorInv, StrokeIsOne, PensAreUp, MouseButtons
  <2>3. CASE lutStale' = "pick" /\ StoresTable(pickContinues)
             /\ pickContinues' = TRUE
    <3>1. StrokeStored'
      BY <1>3, <2>2, <2>3 DEF StoresTable, StrokeStored, stackVars
    <3> QED
      BY <2>2, <2>3, <3>1 DEF StrokeIsOne
  <2>4. CASE UNCHANGED <<lutTable, lutStale, undoStack, pickContinues>>
    BY <1>3, <2>2, <2>4 DEF StrokeIsOne, StrokeStored
  <2> QED
    BY <1>4, <2>1, <2>3, <2>4
<1> QED
  BY <1>5, <1>6, <1>7, <1>8, <1>9 DEF EditorInv

(* The last button's release over the picture, the keys, the view and the  *)
(* channel leave the table and its stacks alone.                           *)
LEMMA OthersKeepEditor ==
  ASSUME EditorInv, PickReleased \/ ChangeSlice \/ switchMode \/ setChannel
  PROVE  EditorInv'
<1>1. LutTypeOK /\ StacksAreBounded /\ PictureShowsTable /\ PensAreUp
      /\ StrokeIsOne
  BY DEF EditorInv
<1>2. UNCHANGED <<lutTable, lutShown, lutStale, undoStack, redoStack, drag,
                  continuing_undo, lutButtons, strokeBase, releaseLost>>
  BY DEF PickReleased, ChangeSlice, switchMode, setChannel, stackVars, penVars,
         strokeVars
<1>3. /\ \/ UNCHANGED <<picking, pickContinues>>
         \/ picking' = FALSE /\ pickContinues' = FALSE
      /\ slice_idx' \in LutSlices /\ channel' \in LutChannels
      /\ view_mode' \in {"single", "grid", "cube"}
      /\ strokeWhole' \in BOOLEAN /\ (strokeWhole' => strokeWhole)
      /\ view_mode' = view_mode \/ (strokeWhole' => lutButtons = {})
  <2>1. CASE PickReleased
    BY <1>1, <2>1 DEF PickReleased, LutTypeOK, strokeVars
  <2>2. CASE ChangeSlice
    BY <1>1, <2>2 DEF ChangeSlice, LutTypeOK, pickVars, strokeVars
  <2>3. CASE switchMode
    BY <1>1, <2>3 DEF switchMode, LutTypeOK, pickVars
  <2>4. CASE setChannel
    BY <1>1, <2>4 DEF setChannel, LutTypeOK, pickVars, strokeVars
  <2> QED
    BY <2>1, <2>2, <2>3, <2>4
<1>4. LutTypeOK'
  BY <1>1, <1>2, <1>3 DEF LutTypeOK
<1>5. StacksAreBounded' /\ PictureShowsTable' /\ PensAreUp'
  BY <1>1, <1>2, <1>3 DEF StacksAreBounded, PictureShowsTable, PensAreUp
<1>6. StrokeIsOne'
  BY <1>1, <1>2, <1>3 DEF StrokeIsOne, StrokeStored
<1> QED
  BY <1>4, <1>5, <1>6 DEF EditorInv

(* The editor begins sound, and every event leaves it so.                  *)
LEMMA EditorInvariance == LutSpec => []EditorInv
<1>1. LutInit => EditorInv
  <2> SUFFICES ASSUME LutInit
               PROVE  EditorInv
    OBVIOUS
  <2>1. lutTable \in Tables
    BY LutAssumption DEF LutInit, Tables
  <2>2. slice_idx \in LutSlices /\ channel \in LutChannels
    BY LutAssumption DEF LutInit, LutSlices
  <2>3. LutTypeOK
    <3>1. undoStack \in Seq(Tables) /\ redoStack \in Seq(Tables)
      BY EmptySeq DEF LutInit
    <3>2. {lutTable, lutShown, strokeBase} \subseteq Tables
      BY <2>1 DEF LutInit
    <3>3. {continuing_undo, picking, pickContinues, releaseLost, strokeWhole}
             \subseteq BOOLEAN
      BY DEF LutInit
    <3> QED
      BY <2>2, <3>1, <3>2, <3>3 DEF LutInit, LutTypeOK
  <2>4. StacksAreBounded
    BY LutAssumption, EmptySeq DEF LutInit, StacksAreBounded
  <2> QED
    BY <2>3, <2>4 DEF LutInit, EditorInv, PictureShowsTable, PensAreUp,
                      StrokeIsOne
<1>2. EditorInv /\ [LutNext]_lutVars => EditorInv'
  <2> SUFFICES ASSUME EditorInv, [LutNext]_lutVars
               PROVE  EditorInv'
    OBVIOUS
  <2>1. CASE UNCHANGED lutVars
    BY <2>1 DEF EditorInv, LutTypeOK, StacksAreBounded, PictureShowsTable,
                PensAreUp, StrokeIsOne, StrokeStored, lutVars
  <2> QED
    BY <2>1, UndoKeepsEditor, PressKeepsEditor, MoveKeepsEditor,
       ReleaseKeepsEditor, PickPressKeepsEditor, PickMoveKeepsEditor,
       OthersKeepEditor DEF LutNext
<1> QED
  BY <1>1, <1>2, PTL DEF LutSpec

(* However strokes, fills, picks, undo and redo follow each other, for any *)
(* table, any channels and any depth of the stacks (glLUTwidget.cpp).      *)
THEOREM EditorSafety == LutSpec => []EditorIsSound
  BY EditorInvariance, EditorInvIsSound, PTL

(***************************************************************************)
(* FieldConfig: measures m, what is derived of them d, and which half      *)
(* copies and lies where.                                                  *)
(***************************************************************************)
Measures == [DOMAIN RoboCup2009 -> Int]

SettingsAreSound(m, d, auto, pos) ==
    /\ m \in Measures /\ d = updateDerivedParameters(m)
    /\ auto \in [CameraIds -> BOOLEAN] /\ pos \in [CameraIds -> Positions]

HalvesAreCopies(m, d, auto, pos, hs) ==
    /\ hs = [c \in CameraIds |-> hs[c]]
    /\ \A c \in CameraIds :
          auto[c] => hs[c] = copyFromRoboCupField(m, d, pos[c])

FieldInv ==
    /\ SettingsAreSound(measures, derived, autoUpdate, cameraPos)
    /\ HalvesAreCopies(measures, derived, autoUpdate, cameraPos, halves)
    /\ fieldFile # NoFieldFile =>
          SettingsAreSound(fieldFile.measures, fieldFile.derived,
                           fieldFile.auto, fieldFile.pos)

(* What is derived of integers are integers.                               *)
LEMMA DerivedAreIntegers ==
  ASSUME NEW m \in Measures, NEW d, d = updateDerivedParameters(m)
  PROVE  /\ m.defense_radius \in Int /\ m.center_circle_radius \in Int
         /\ d.half_field_length \in Int /\ d.half_field_width \in Int
         /\ d.half_goal_width \in Int /\ d.half_defense_stretch \in Int
<1>1. \A x \in Int : HalfOf(x) \in Int
  BY DEF HalfOf
<1>2. /\ m.defense_radius \in Int /\ m.center_circle_radius \in Int
      /\ m.field_length \in Int /\ m.field_width \in Int
      /\ m.goal_width \in Int /\ m.defense_stretch \in Int
  BY DEF Measures, RoboCup2009
<1>3. /\ d.half_field_length = HalfOf(m.field_length)
      /\ d.half_field_width = HalfOf(m.field_width)
      /\ d.half_goal_width = HalfOf(m.goal_width)
      /\ d.half_defense_stretch = HalfOf(m.defense_stretch)
  BY DEF updateDerivedParameters
<1> QED
  BY <1>1, <1>2, <1>3

(* The points of a half on the other side are those of this one, turned.   *)
LEMMA SidesAreTurned ==
  ASSUME NEW m \in Measures, NEW d, d = updateDerivedParameters(m),
         NEW p \in DOMAIN copyFromRoboCupField(m, d, "negative").left
  PROVE  LET a == copyFromRoboCupField(m, d, "negative").left[p]
             b == copyFromRoboCupField(m, d, "positive").left[p]
         IN  a = <<-b[1], -b[2]>> /\ b = <<-a[1], -a[2]>>
<1> DEFINE x == d.half_field_length
           y == d.half_field_width
           g == d.half_goal_width
           s == m.defense_radius + d.half_defense_stretch
           r == m.center_circle_radius
           n == copyFromRoboCupField(m, d, "negative").left
           q == copyFromRoboCupField(m, d, "positive").left
<1>1. x \in Int /\ y \in Int /\ g \in Int /\ s \in Int /\ r \in Int
  BY DerivedAreIntegers
<1> DEFINE left(mult) ==
             [corner |-> <<mult * x, mult * y>>,
              goal_area |-> <<mult * x, mult * s>>,
              goal_post |-> <<mult * x, mult * g>>,
              centerline |-> <<0, mult * y>>,
              centercircle |-> <<0, mult * r>>]
<1>2. n = left(-1)
  <2>1. (IF "negative" = "negative" THEN -1 ELSE 1) = -1
    OBVIOUS
  <2> QED
    BY <2>1, Zenon DEF copyFromRoboCupField
<1>3. q = left(1)
  <2>1. (IF "positive" = "negative" THEN -1 ELSE 1) = 1
    OBVIOUS
  <2> QED
    BY <2>1, Zenon DEF copyFromRoboCupField
<1>4. p \in {"corner", "goal_area", "goal_post", "centerline", "centercircle"}
  BY <1>2
<1> HIDE DEF x, y, g, s, r, n, q
<1>5. n[p] = <<-q[p][1], -q[p][2]>> /\ q[p] = <<-n[p][1], -n[p][2]>>
  <2>1. CASE p = "corner"
    BY <1>1, <1>2, <1>3, <2>1
  <2>2. CASE p = "goal_area"
    BY <1>1, <1>2, <1>3, <2>2
  <2>3. CASE p = "goal_post"
    BY <1>1, <1>2, <1>3, <2>3
  <2>4. CASE p = "centerline"
    BY <1>1, <1>2, <1>3, <2>4
  <2>5. CASE p = "centercircle"
    BY <1>1, <1>2, <1>3, <2>5
  <2> QED
    BY <1>4, <2>1, <2>2, <2>3, <2>4, <2>5
<1> QED
  BY <1>5 DEF n, q

(* The invariant says more than is claimed of the field.                   *)
LEMMA FieldInvIsSound == FieldInv => FieldIsSound
<1> SUFFICES ASSUME FieldInv
             PROVE  FieldIsSound
  OBVIOUS
<1>1. CopiesFollowField
  BY DEF FieldInv, SettingsAreSound, HalvesAreCopies, CopiesFollowField
<1>2. HalvesAreTurned
  <2> SUFFICES ASSUME NEW c \in CameraIds, NEW d \in CameraIds,
                      autoUpdate[c], autoUpdate[d],
                      NEW p \in DOMAIN halves[c].left
               PROVE  IF cameraPos[c] = cameraPos[d]
                      THEN halves[c].left[p] = halves[d].left[p]
                      ELSE halves[c].left[p] = <<-halves[d].left[p][1],
                                                 -halves[d].left[p][2]>>
    BY DEF HalvesAreTurned
  <2>1. /\ halves[c] = copyFromRoboCupField(measures, derived, cameraPos[c])
        /\ halves[d] = copyFromRoboCupField(measures, derived, cameraPos[d])
    BY <1>1 DEF CopiesFollowField
  <2>2. CASE cameraPos[c] = cameraPos[d]
    BY <2>1, <2>2
  <2>3. CASE cameraPos[c] # cameraPos[d]
    <3>1. /\ measures \in Measures /\ derived = updateDerivedParameters(measures)
          /\ cameraPos[c] \in Positions /\ cameraPos[d] \in Positions
      BY DEF FieldInv, SettingsAreSound
    <3>2. DOMAIN copyFromRoboCupField(measures, derived, "negative").left
          = DOMAIN copyFromRoboCupField(measures, derived, "positive").left
      BY DEF copyFromRoboCupField
    <3>3. CASE cameraPos[c] = "negative" /\ cameraPos[d] = "positive"
      BY <2>1, <2>3, <3>1, <3>3, SidesAreTurned
    <3>4. CASE cameraPos[c] = "positive" /\ cameraPos[d] = "negative"
      BY <2>1, <2>3, <3>1, <3>2, <3>4, SidesAreTurned
    <3> QED
      BY <2>3, <3>1, <3>3, <3>4 DEF Positions
  <2> QED
    BY <2>2, <2>3
<1> QED
  BY <1>1, <1>2 DEF FieldIsSound

(* What the constructors leave is sound.                                   *)
LEMMA ConstructedIsSound ==
  /\ SettingsAreSound(Constructed.measures, Constructed.derived,
                      Constructed.auto, Constructed.pos)
  /\ HalvesAreCopies(Constructed.measures, Constructed.derived,
                     Constructed.auto, Constructed.pos, Constructed.halves)
<1>1. RoboCup2009 \in Measures
  BY DEF Measures, RoboCup2009
<1>2. \A c \in CameraIds : CameraNegX(c) \in Positions
  BY DEF CameraNegX, Positions
<1>3. /\ Constructed.measures = RoboCup2009
      /\ Constructed.derived = updateDerivedParameters(RoboCup2009)
      /\ Constructed.auto = [c \in CameraIds |-> TRUE]
      /\ Constructed.pos = [c \in CameraIds |-> CameraNegX(c)]
      /\ Constructed.halves = [c \in CameraIds |->
            copyFromRoboCupField(RoboCup2009,
                updateDerivedParameters(RoboCup2009), CameraNegX(c))]
  BY DEF Constructed
<1> QED
  BY <1>1, <1>2, <1>3 DEF SettingsAreSound, HalvesAreCopies

(* changed() brings every half that copies along.                          *)
LEMMA ChangedKeepsCopies ==
  ASSUME FieldInv, NEW m \in Measures, changed(m),
         UNCHANGED <<autoUpdate, cameraPos, fieldFile>>
  PROVE  FieldInv'
<1>1. /\ measures' = m /\ derived' = updateDerivedParameters(m)
      /\ halves' = [c \in CameraIds |->
             update(autoUpdate[c], m, updateDerivedParameters(m),
                    cameraPos[c], halves[c])]
  BY DEF changed
<1>2. SettingsAreSound(measures, derived, autoUpdate, cameraPos)'
  BY <1>1 DEF FieldInv, SettingsAreSound
<1>3. HalvesAreCopies(measures, derived, autoUpdate, cameraPos, halves)'
  BY <1>1 DEF HalvesAreCopies, update
<1> QED
  BY <1>2, <1>3 DEF FieldInv

(* A half that is edited copies, or is nobody's copy.                      *)
LEMMA EditedHalfKeepsCopies ==
  ASSUME FieldInv, NEW c \in CameraIds, NEW half,
         halves' = [halves EXCEPT ![c] = half],
         autoUpdate' \in [CameraIds -> BOOLEAN],
         cameraPos' \in [CameraIds -> Positions],
         \A e \in CameraIds \ {c} : /\ autoUpdate'[e] = autoUpdate[e]
                                   /\ cameraPos'[e] = cameraPos[e],
         autoUpdate'[c] =>
             half = copyFromRoboCupField(measures, derived, cameraPos'[c]),
         UNCHANGED <<measures, derived, fieldFile>>
  PROVE  FieldInv'
<1>1. SettingsAreSound(measures, derived, autoUpdate, cameraPos)'
  BY DEF FieldInv, SettingsAreSound
<1>2. HalvesAreCopies(measures, derived, autoUpdate, cameraPos, halves)'
  <2>1. HalvesAreCopies(measures, derived, autoUpdate, cameraPos, halves)
    BY DEF FieldInv
  <2>2. halves' = [e \in CameraIds |-> halves'[e]]
    BY <2>1 DEF HalvesAreCopies
  <2>3. halves'[c] = half /\ \A e \in CameraIds \ {c} : halves'[e] = halves[e]
    BY <2>1 DEF HalvesAreCopies
  <2>4. ASSUME NEW e \in CameraIds, autoUpdate'[e]
        PROVE  halves'[e] = copyFromRoboCupField(measures', derived',
                                                 cameraPos'[e])
    BY <2>1, <2>3, <2>4 DEF HalvesAreCopies
  <2> QED
    BY <2>2, <2>4 DEF HalvesAreCopies
<1> QED
  BY <1>1, <1>2 DEF FieldInv

(* What the user does to one half keeps the halves that copy copies.       *)
LEMMA EditsKeepField ==
  ASSUME FieldInv, NEW c \in CameraIds,
         \/ autoUpdateChanged(c)
         \/ \E pos \in Positions : EditPosition(c, pos)
         \/ \E x \in EnteredValues : EditPoint(c, x)
  PROVE  FieldInv'
<1>1. /\ autoUpdate \in [CameraIds -> BOOLEAN]
      /\ cameraPos \in [CameraIds -> Positions]
      /\ halves = [e \in CameraIds |-> halves[e]]
  BY DEF FieldInv, SettingsAreSound, HalvesAreCopies
<1>2. CASE autoUpdateChanged(c)
  <2>1. /\ autoUpdate' = [autoUpdate EXCEPT ![c] = ~autoUpdate[c]]
        /\ UNCHANGED <<measures, derived, cameraPos, fieldFile>>
    BY <1>2 DEF autoUpdateChanged
  <2>2. halves' = [halves EXCEPT ![c] =
             update(autoUpdate'[c], measures, derived, cameraPos[c], halves[c])]
    BY <1>2 DEF autoUpdateChanged
  <2>3. /\ autoUpdate' \in [CameraIds -> BOOLEAN]
        /\ \A e \in CameraIds \ {c} : autoUpdate'[e] = autoUpdate[e]
    BY <1>1, <2>1
  <2> DEFINE half == update(autoUpdate'[c], measures, derived, cameraPos[c],
                            halves[c])
  <2>4. autoUpdate'[c] =>
            half = copyFromRoboCupField(measures, derived, cameraPos'[c])
    BY <2>1 DEF update
  <2> HIDE DEF half
  <2> QED
    BY <1>1, <2>1, <2>2, <2>3, <2>4, EditedHalfKeepsCopies DEF half
<1>3. ASSUME NEW pos \in Positions, EditPosition(c, pos)
      PROVE  FieldInv'
  <2>1. /\ cameraPos' = [cameraPos EXCEPT ![c] = pos]
        /\ UNCHANGED <<measures, derived, autoUpdate, fieldFile>>
    BY <1>3 DEF EditPosition
  <2>2. halves' = [halves EXCEPT ![c] =
             update(autoUpdate[c], measures, derived, pos, halves[c])]
    BY <1>3 DEF EditPosition
  <2>3. /\ cameraPos' \in [CameraIds -> Positions] /\ cameraPos'[c] = pos
        /\ \A e \in CameraIds \ {c} : cameraPos'[e] = cameraPos[e]
    BY <1>1, <2>1
  <2> DEFINE half == update(autoUpdate[c], measures, derived, pos, halves[c])
  <2>4. autoUpdate[c] => half = copyFromRoboCupField(measures, derived, pos)
    BY DEF update
  <2> HIDE DEF half
  <2> QED
    BY <1>1, <2>1, <2>2, <2>3, <2>4, EditedHalfKeepsCopies DEF half
<1>4. ASSUME NEW x \in EnteredValues, EditPoint(c, x)
      PROVE  FieldInv'
  <2>1. /\ ~autoUpdate[c]
        /\ halves' = [halves EXCEPT ![c].left.corner[1] = x]
        /\ UNCHANGED <<measures, derived, autoUpdate, cameraPos, fieldFile>>
    BY <1>4 DEF EditPoint
  <2>2. \E half : halves' = [halves EXCEPT ![c] = half]
    BY <2>1
  <2> QED
    BY <1>1, <2>1, <2>2, EditedHalfKeepsCopies
<1> QED
  BY <1>2, <1>3, <1>4

(* A start leaves sound settings, whatever sound file there is.            *)
LEMMA StartIsSound ==
  ASSUME NEW kept, Becomes(Load(Constructed, kept)),
         kept # NoFieldFile => SettingsAreSound(kept.measures, kept.derived,
                                                kept.auto, kept.pos)
  PROVE  /\ SettingsAreSound(measures, derived, autoUpdate, cameraPos)'
         /\ HalvesAreCopies(measures, derived, autoUpdate, cameraPos, halves)'
<1> DEFINE s == Load(Constructed, kept)
<1>1. SettingsAreSound(s.measures, s.derived, s.auto, s.pos)
      /\ HalvesAreCopies(s.measures, s.derived, s.auto, s.pos, s.halves)
  <2>1. CASE kept = NoFieldFile
    <3>1. s = Constructed
      BY <2>1 DEF Load
    <3> HIDE DEF s
    <3> QED
      BY <3>1, ConstructedIsSound
  <2>2. CASE kept # NoFieldFile
    <3>1. /\ s.measures = kept.measures /\ s.derived = kept.derived
          /\ s.auto = kept.auto /\ s.pos = kept.pos
          /\ s.halves = [c \in CameraIds |-> HalfRead(Constructed, kept, c)]
      BY <2>2 DEF Load
    <3> HIDE DEF s
    <3> QED
      BY <2>2, <3>1 DEF HalvesAreCopies, HalfRead, update
  <2> QED
    BY <2>1, <2>2
<1>2. /\ measures' = s.measures /\ derived' = s.derived
      /\ autoUpdate' = s.auto /\ cameraPos' = s.pos /\ halves' = s.halves
  BY DEF Becomes
<1> HIDE DEF s
<1> QED
  BY <1>1, <1>2

(* Settings that were written are a file.                                  *)
LEMMA SettingsAreAFile == Settings # NoFieldFile
<1>1. "measures" \in DOMAIN Settings /\ "measures" \notin DOMAIN NoFieldFile
  BY DEF Settings, NoFieldFile
<1> QED
  BY <1>1

(* Both ways to stop and start again leave sound settings.                 *)
LEMMA StartsKeepField ==
  ASSUME FieldInv, RestartField \/ Killed
  PROVE  FieldInv'
<1>1. CASE RestartField
  <2>1. /\ fieldFile' = Settings
        /\ Becomes(Load(Constructed, Settings))
    BY <1>1 DEF RestartField
  <2>2. SettingsAreSound(Settings.measures, Settings.derived, Settings.auto,
                         Settings.pos)
    BY DEF FieldInv, Settings
  <2>3. SettingsAreSound(fieldFile'.measures, fieldFile'.derived,
                         fieldFile'.auto, fieldFile'.pos)
    BY <2>1, <2>2
  <2> QED
    BY <2>1, <2>2, <2>3, StartIsSound DEF FieldInv
<1>2. CASE Killed
  <2>1. Becomes(Load(Constructed, fieldFile)) /\ fieldFile' = fieldFile
    BY <1>2 DEF Killed
  <2>2. fieldFile # NoFieldFile =>
            SettingsAreSound(fieldFile.measures, fieldFile.derived,
                             fieldFile.auto, fieldFile.pos)
    BY DEF FieldInv
  <2>3. /\ SettingsAreSound(measures, derived, autoUpdate, cameraPos)'
        /\ HalvesAreCopies(measures, derived, autoUpdate, cameraPos, halves)'
    BY <2>1, <2>2, StartIsSound
  <2> QED
    BY <2>1, <2>2, <2>3 DEF FieldInv
<1> QED
  BY <1>1, <1>2

(* The invariant holds in every reachable state.                           *)
LEMMA FieldInvariance == FieldSpec => []FieldInv
<1>1. FieldInit => FieldInv
  BY ConstructedIsSound DEF FieldInit, FieldInv
<1>2. FieldInv /\ [FieldNext]_fieldVars => FieldInv'
  <2> SUFFICES ASSUME FieldInv, [FieldNext]_fieldVars
               PROVE  FieldInv'
    OBVIOUS
  <2>1. ASSUME NEW p \in EditedMeasures, NEW v \in EnteredValues,
               EditMeasure(p, v)
        PROVE  FieldInv'
    <3>1. [measures EXCEPT ![p] = v] \in Measures
      BY FieldAssumption DEF FieldInv, SettingsAreSound, Measures
    <3> QED
      BY <2>1, <3>1, ChangedKeepsCopies DEF EditMeasure
  <2>2. CASE restoreRoboCup
    <3>1. RoboCup2009 \in Measures
      BY DEF Measures, RoboCup2009
    <3> QED
      BY <2>2, <3>1, ChangedKeepsCopies DEF restoreRoboCup
  <2>3. CASE UNCHANGED fieldVars
    BY <2>3 DEF FieldInv, SettingsAreSound, HalvesAreCopies, fieldVars
  <2> QED
    BY <2>1, <2>2, <2>3, EditsKeepField, StartsKeepField DEF FieldNext
<1> QED
  BY <1>1, <1>2, PTL DEF FieldSpec

(* What follows from the measures follows them through every order of      *)
(* edits, restarts and kills, for any cameras and any values entered.      *)
THEOREM FieldSafety == FieldSpec => []FieldIsSound
  BY FieldInvariance, FieldInvIsSound, PTL

(* A regular end and a new start lose nothing: what is not loaded of a     *)
(* half that copies is what it copies again (field.h, VarXML.cpp).         *)
THEOREM RestartsKeepSettings == FieldSpec => RestartLosesNothing
<1>1. ASSUME FieldInv, RestartField
      PROVE  UNCHANGED settingsVars
  <2>1. /\ Becomes(Load(Constructed, Settings))
    BY <1>1 DEF RestartField
  <2>2. Load(Constructed, Settings) =
          [measures |-> measures, derived |-> derived, auto |-> autoUpdate,
           pos |-> cameraPos,
           halves |-> [c \in CameraIds |-> HalfRead(Constructed, Settings, c)]]
    BY SettingsAreAFile DEF Load, Settings
  <2>3. ASSUME NEW c \in CameraIds
        PROVE  HalfRead(Constructed, Settings, c) = halves[c]
    BY <1>1 DEF HalfRead, Settings, update, FieldInv, HalvesAreCopies
  <2>4. [c \in CameraIds |-> HalfRead(Constructed, Settings, c)] = halves
    BY <1>1, <2>3 DEF FieldInv, HalvesAreCopies
  <2> QED
    BY <2>1, <2>2, <2>4 DEF Becomes, settingsVars
<1>2. FieldInv /\ [FieldNext]_fieldVars
        => [RestartField => UNCHANGED settingsVars]_fieldVars
  BY <1>1
<1> QED
  BY <1>2, FieldInvariance, PTL DEF FieldSpec, RestartLosesNothing

(***************************************************************************)
(* Visualization: the picture a frame is shown as, and the edges kept from *)
(* one frame to the next.                                                  *)
(***************************************************************************)
(* What a pixel shows, what a bin holds, and the picture made of it.       *)
Shades == {"image", "black", "channel", "edge"}
VisVideos == [frame : 0 .. ShownFrames, size : Nat, format : Formats]
VisPictures == [valid : BOOLEAN, of : 0 .. ShownFrames, pixels : Seq(Shades)]

VisTypes ==
  /\ video \in [VisBins -> VisVideos]
  /\ visFrames \in [VisBins -> VisPictures]
  /\ edgeImage \in [size : Nat, of : 0 .. ShownFrames]

(* The bin whose frame was captured last.                                  *)
IsNewest(b) == \A c \in VisBins : video[c].frame <= video[b].frame
SomeIsNewest == \E b \in VisBins : IsNewest(b)

(* A picture in the size of its frame, and edges all over it from it only. *)
PictureFits(b) ==
  visFrames[b].valid => /\ visFrames[b].of = video[b].frame
                        /\ Len(visFrames[b].pixels) = video[b].size
EdgesFit(b) ==
  /\ visFrames[b].valid /\ IsNewest(b)
  /\ visFrames[b].pixels = Filled(edgeImage.size, "edge")
  => edgeImage.of = visFrames[b].of

VisInv ==
  /\ VisTypes /\ SomeIsNewest
  /\ \A b \in VisBins : PictureFits(b) /\ EdgesFit(b)

(* The operator finds the newest frame where there is a newest bin.        *)
LEMMA NewestIs ==
  ASSUME VisTypes, NEW b \in VisBins, IsNewest(b)
  PROVE  Newest = video[b].frame
<1> DEFINE P(n) == /\ \E c \in VisBins : video[c].frame = n
                   /\ \A c \in VisBins : video[c].frame <= n
<1>1. ASSUME NEW c \in VisBins
      PROVE  video[c].frame \in 0 .. ShownFrames /\ video[c].frame \in Nat
  BY VisAssumption DEF VisTypes, VisVideos
<1>2. P(video[b].frame) /\ video[b].frame \in 0 .. ShownFrames
  BY <1>1 DEF IsNewest
<1>3. ASSUME NEW n \in 0 .. ShownFrames, P(n) PROVE n = video[b].frame
  <2>1. PICK c \in VisBins : video[c].frame = n
    BY <1>3
  <2>2. video[b].frame <= n /\ n <= video[b].frame
    BY <1>3, <2>1 DEF IsNewest
  <2> QED BY <1>1, <2>1, <2>2
<1>4. Newest = CHOOSE n \in 0 .. ShownFrames : P(n)
  BY DEF Newest
<1> HIDE DEF P
<1>5. Newest \in 0 .. ShownFrames /\ P(Newest)
  BY <1>2, <1>4
<1> QED BY <1>3, <1>5

(* No picture is valid before the first frame.                             *)
LEMMA VisInitially == VisInit => VisInv
<1> SUFFICES ASSUME VisInit PROVE VisInv OBVIOUS
<1>1. 0 \in 0 .. ShownFrames /\ 0 \in Nat
  BY VisAssumption
<1>2. VisTypes
  <2>1. [frame |-> 0, size |-> 0, format |-> "rgb8"] \in VisVideos
    BY <1>1 DEF VisVideos, Formats
  <2>2. <<>> \in Seq(Shades)
    OBVIOUS
  <2>3. [valid |-> FALSE, of |-> 0, pixels |-> <<>>] \in VisPictures
    BY <1>1, <2>2 DEF VisPictures
  <2>4. edgeImage \in [size : Nat, of : 0 .. ShownFrames]
    BY <1>1 DEF VisInit, NoEdgeImage
  <2> QED BY <2>1, <2>3, <2>4 DEF VisInit, VisTypes
<1>3. PICK b \in VisBins : TRUE
  BY VisAssumption
<1>4. \A c \in VisBins : ~visFrames[c].valid
  BY DEF VisInit
<1>5. IsNewest(b)
  <2>1. \A c \in VisBins : video[c].frame = 0
    BY DEF VisInit
  <2>2. 0 <= 0
    OBVIOUS
  <2> QED BY <2>1, <2>2, Zenon DEF IsNewest
<1> QED BY <1>2, <1>3, <1>4, <1>5 DEF VisInv, SomeIsNewest, PictureFits,
       EdgesFit

(* A picture filled with one shade.                                        *)
LEMMA FilledIs ==
  ASSUME NEW n \in Nat, NEW what \in Shades
  PROVE  /\ Filled(n, what) \in Seq(Shades) /\ Len(Filled(n, what)) = n
         /\ \A i \in 1 .. n : Filled(n, what)[i] = what
BY DEF Filled

(* What is drawn before the edges: of the frame's size, without an edge.   *)
LEMMA DrawnIsFilled ==
  ASSUME NEW v \in VisVideos, NEW options \in SUBSET Options,
         NEW segmented
  PROVE  LET p == Thresholded(Base(v, options), options, segmented)
         IN  /\ p \in Seq(Shades) /\ Len(p) = v.size
             /\ \A i \in 1 .. v.size : p[i] # "edge"
<1> DEFINE base == Base(v, options)
           p == Thresholded(base, options, segmented)
           what == IF "image" \in options /\ v.format # "rgb16"
                   THEN "image" ELSE "black"
<1>1. v.size \in Nat
  BY DEF VisVideos
<1>2. what \in {"image", "black"} /\ what \in Shades /\ what # "edge"
  BY DEF Shades
<1>3. base = Filled(v.size, what)
  BY DEF Base
<1> HIDE DEF what
<1>4. /\ base \in Seq(Shades) /\ Len(base) = v.size
      /\ \A i \in 1 .. v.size : base[i] # "edge"
  BY <1>1, <1>2, <1>3, FilledIs
<1> HIDE DEF base
<1>5. CASE "thresholded" \in options /\ Len(segmented) = Len(base)
  <2>1. p = [i \in DOMAIN base |->
               IF segmented[i] # 0 THEN "channel" ELSE base[i]]
    BY <1>5 DEF Thresholded
  <2>2. DOMAIN base = 1 .. v.size
    BY <1>4
  <2>3. \A i \in 1 .. v.size : p[i] \in Shades /\ p[i] # "edge"
    BY <1>4, <2>1, <2>2 DEF Shades
  <2>4. p \in [1 .. v.size -> Shades]
    BY <2>1, <2>2, <2>3
  <2> HIDE DEF p
  <2>5. p \in Seq(Shades) /\ Len(p) = v.size
    BY <1>1, <2>4
  <2> QED BY <2>3, <2>5 DEF p, base
<1>6. CASE ~("thresholded" \in options /\ Len(segmented) = Len(base))
  <2>1. p = base
    BY <1>6 DEF Thresholded
  <2> QED BY <1>4, <2>1 DEF base
<1> QED BY <1>5, <1>6

(* The edges over it keep the size.                                        *)
LEMMA WithEdgesIs ==
  ASSUME NEW p \in Seq(Shades), NEW size \in Nat
  PROVE  WithEdges(p, size) \in Seq(Shades)
         /\ Len(WithEdges(p, size)) = Len(p)
<1> DEFINE q == WithEdges(p, size)
<1>1. q = [i \in DOMAIN p |-> IF i <= size THEN "edge" ELSE p[i]]
  BY DEF WithEdges
<1>2. DOMAIN p = 1 .. Len(p) /\ Len(p) \in Nat
  OBVIOUS
<1>3. \A i \in 1 .. Len(p) : q[i] \in Shades
  BY <1>1, <1>2 DEF Shades
<1>4. q \in [1 .. Len(p) -> Shades]
  BY <1>1, <1>2, <1>3
<1> HIDE DEF q
<1>5. q \in Seq(Shades) /\ Len(q) = Len(p)
  BY <1>2, <1>4
<1> QED BY <1>5 DEF q

(* What a processed frame leaves in its bin: a picture of the frame, with  *)
(* edges all over it only when they are the frame's.                       *)
PictureOf(b, v) ==
  /\ visFrames'[b].valid =>
       /\ visFrames'[b].of = v.frame /\ Len(visFrames'[b].pixels) = v.size
       /\ visFrames'[b].pixels = Filled(edgeImage'.size, "edge")
          => edgeImage'.of = v.frame

(* Drawing leaves such a picture, and the other bins alone.                *)
LEMMA DrawnKeeps ==
  ASSUME VisTypes, NEW b \in VisBins, NEW v \in VisVideos,
         NEW options \in SUBSET Options, NEW segmented,
         v.size # 0, Drawn(b, v, options, segmented)
  PROVE  /\ visFrames' \in [VisBins -> VisPictures]
         /\ edgeImage' \in [size : Nat, of : 0 .. ShownFrames]
         /\ \A c \in VisBins \ {b} : visFrames'[c] = visFrames[c]
         /\ PictureOf(b, v)
<1> DEFINE pixels == Thresholded(Base(v, options), options, segmented)
           sobel == "complete edge detection" \in options
           edged == IF sobel THEN WithEdges(pixels, edgeImage'.size)
                             ELSE pixels
<1>1. /\ edgeImage' = (IF sobel THEN Edges(v) ELSE edgeImage)
      /\ visFrames' = [visFrames EXCEPT ![b] =
            [valid |-> TRUE, of |-> v.frame, pixels |-> edged]]
  BY DEF Drawn
<1>2. /\ pixels \in Seq(Shades) /\ Len(pixels) = v.size
      /\ \A i \in 1 .. v.size : pixels[i] # "edge"
  BY DrawnIsFilled
<1> HIDE DEF pixels, sobel
<1>3. v.size \in Nat /\ v.frame \in 0 .. ShownFrames
  BY DEF VisVideos
<1>4. Edges(v) \in [size : Nat, of : 0 .. ShownFrames]
  BY <1>3 DEF Edges, VisTypes
<1>5. edgeImage' \in [size : Nat, of : 0 .. ShownFrames]
  BY <1>1, <1>4 DEF VisTypes
<1>6. edgeImage'.size \in Nat
  BY <1>5
<1>7. edged \in Seq(Shades) /\ Len(edged) = v.size
  BY <1>2, <1>6, WithEdgesIs
<1>8. edged = Filled(edgeImage'.size, "edge") => edgeImage'.of = v.frame
  <2> SUFFICES ASSUME edged = Filled(edgeImage'.size, "edge")
               PROVE  edgeImage'.of = v.frame
    OBVIOUS
  <2>1. "edge" \in Shades
    BY DEF Shades
  <2>2. edgeImage'.size = v.size /\ edged[1] = "edge"
    <3>1. Len(edged) = edgeImage'.size
      BY <1>6, <2>1, FilledIs
    <3>2. 1 \in 1 .. edgeImage'.size
      BY <1>3, <1>7, <3>1
    <3> QED BY <1>6, <1>7, <2>1, <3>1, <3>2, FilledIs
  <2>3. sobel
    <3>1. ~sobel => edged = pixels
      OBVIOUS
    <3>2. pixels[1] # "edge"
      BY <1>2, <1>3
    <3> QED BY <2>2, <3>1, <3>2
  <2>4. edgeImage' = Edges(v)
    BY <1>1, <2>3
  <2>5. CASE edgeImage = NoEdgeImage
    BY <2>4, <2>5 DEF Edges
  <2>6. CASE edgeImage # NoEdgeImage /\ edgeImage.size = v.size
    BY <2>4, <2>6 DEF Edges, VisTypes
  <2>7. CASE edgeImage # NoEdgeImage /\ edgeImage.size # v.size
    <3>1. edgeImage' = edgeImage
      BY <2>4, <2>7 DEF Edges
    <3> QED BY <2>2, <2>7, <3>1
  <2> QED BY <2>5, <2>6, <2>7
<1> HIDE DEF edged
<1> DEFINE made == [valid |-> TRUE, of |-> v.frame, pixels |-> edged]
<1>9. made \in VisPictures
  BY <1>3, <1>7 DEF VisPictures
<1>10. made.valid /\ made.of = v.frame /\ made.pixels = edged
  OBVIOUS
<1>11. visFrames' = [visFrames EXCEPT ![b] = made]
  BY <1>1
<1> HIDE DEF made
<1>12. /\ visFrames' \in [VisBins -> VisPictures] /\ visFrames'[b] = made
       /\ \A c \in VisBins \ {b} : visFrames'[c] = visFrames[c]
  BY <1>9, <1>11 DEF VisTypes
<1> QED BY <1>5, <1>7, <1>8, <1>10, <1>12 DEF PictureOf

(* A frame is newer than all that are in the bins.                         *)
LEMMA ProcessKeeps ==
  ASSUME VisInv, NEW b \in VisBins, NEW size \in PictureSizes,
         NEW format \in Formats, NEW options \in SUBSET Options,
         NEW segmented, Process(b, size, format, options, segmented)
  PROVE  VisInv'
<1> DEFINE v == [frame |-> Newest + 1, size |-> size, format |-> format]
<1>1. PICK n \in VisBins : IsNewest(n)
  BY DEF VisInv, SomeIsNewest
<1>2. /\ Newest = video[n].frame /\ Newest \in Nat
      /\ Newest + 1 \in 0 .. ShownFrames
  <2>1. Newest = video[n].frame
    BY <1>1, NewestIs DEF VisInv
  <2>2. video[n].frame \in 0 .. ShownFrames /\ Newest < ShownFrames
    BY DEF VisInv, VisTypes, VisVideos, Process
  <2> QED BY <2>1, <2>2, VisAssumption
<1>3. \A c \in VisBins : video[c].frame <= Newest
  BY <1>1, <1>2 DEF IsNewest
<1>4. v \in VisVideos /\ v.frame = Newest + 1 /\ v.size = size
  BY <1>2, VisAssumption DEF VisVideos
<1>5. /\ video' = [video EXCEPT ![b] = v]
      /\ IF "enable" \in options /\ size # 0
         THEN Drawn(b, v, options, segmented)
         ELSE Skip(b, v) /\ UNCHANGED <<edgeImage, pastEnd>>
  BY DEF Process
<1> HIDE DEF v
<1>6. /\ visFrames' \in [VisBins -> VisPictures]
      /\ edgeImage' \in [size : Nat, of : 0 .. ShownFrames]
      /\ \A c \in VisBins \ {b} : visFrames'[c] = visFrames[c]
      /\ PictureOf(b, v)
  <2>1. CASE "enable" \in options /\ size # 0
    BY <1>4, <1>5, <2>1, DrawnKeeps DEF VisInv
  <2>2. CASE ~("enable" \in options /\ size # 0)
    <3>1. visFrames' = [visFrames EXCEPT ![b].valid = FALSE]
          /\ edgeImage' = edgeImage
      BY <1>5, <2>2 DEF Skip
    <3>2. visFrames[b] \in VisPictures
      BY DEF VisInv, VisTypes
    <3>3. [visFrames[b] EXCEPT !.valid = FALSE] \in VisPictures
      BY <3>2 DEF VisPictures
    <3>4. ~[visFrames[b] EXCEPT !.valid = FALSE].valid
      BY <3>2 DEF VisPictures
    <3> DEFINE skipped == [visFrames[b] EXCEPT !.valid = FALSE]
    <3>5. visFrames' = [visFrames EXCEPT ![b] = skipped]
      BY <3>1
    <3> HIDE DEF skipped
    <3>6. /\ visFrames' \in [VisBins -> VisPictures]
          /\ visFrames'[b] = skipped
          /\ \A c \in VisBins \ {b} : visFrames'[c] = visFrames[c]
      BY <3>3, <3>5 DEF VisInv, VisTypes, skipped
    <3>7. ~visFrames'[b].valid
      BY <3>4, <3>6 DEF skipped
    <3> QED BY <3>1, <3>6, <3>7 DEF VisInv, VisTypes, PictureOf
  <2> QED BY <2>1, <2>2
<1>7. /\ video' \in [VisBins -> VisVideos] /\ video'[b] = v
      /\ \A c \in VisBins \ {b} : video'[c] = video[c]
  BY <1>4, <1>5 DEF VisInv, VisTypes
<1>8. ASSUME NEW c \in VisBins
      PROVE  /\ video'[c].frame <= video'[b].frame
             /\ c # b => video'[c].frame < video'[b].frame
  <2>1. video[c].frame \in Nat
    BY VisAssumption DEF VisInv, VisTypes, VisVideos
  <2>2. video'[b].frame = Newest + 1
    BY <1>4, <1>7
  <2>3. CASE c = b
    BY <1>2, <2>2, <2>3
  <2>4. CASE c # b
    BY <1>2, <1>3, <1>7, <2>1, <2>2, <2>4
  <2> QED BY <2>3, <2>4
<1>9. SomeIsNewest'
  BY <1>8 DEF SomeIsNewest, IsNewest
<1>10. ASSUME NEW c \in VisBins PROVE PictureFits(c)' /\ EdgesFit(c)'
  <2>1. CASE c = b
    BY <1>6, <1>7, <2>1 DEF PictureOf, PictureFits, EdgesFit
  <2>2. CASE c # b
    <3>1. visFrames'[c] = visFrames[c] /\ video'[c] = video[c]
      BY <1>6, <1>7, <2>2
    <3>2. PictureFits(c)'
      BY <3>1 DEF VisInv, PictureFits
    <3>3. ~IsNewest(c)'
      <4>1. video'[c].frame < video'[b].frame
        BY <1>8, <2>2
      <4>2. video'[c].frame \in Int /\ video'[b].frame \in Int
        BY <1>7, VisAssumption DEF VisVideos
      <4> QED BY <4>1, <4>2 DEF IsNewest
    <3> QED BY <3>2, <3>3 DEF EdgesFit
  <2> QED BY <2>1, <2>2
<1> QED BY <1>6, <1>7, <1>9, <1>10 DEF VisInv, VisTypes

(* A picture that is shown is of the frame in its bin, in its size, and    *)
(* edges all over the newest one are its own, with any bins and sizes.     *)
THEOREM VisualizationSafety == VisSpec => []VisualizationIsSound
<1>1. VisInv /\ [VisNext]_visVars => VisInv'
  <2> SUFFICES ASSUME VisInv, [VisNext]_visVars PROVE VisInv' OBVIOUS
  <2>1. CASE VisNext
    BY <2>1, ProcessKeeps DEF VisNext
  <2>2. CASE UNCHANGED visVars
    BY <2>2 DEF visVars, VisInv, VisTypes, SomeIsNewest, IsNewest,
       PictureFits, EdgesFit
  <2> QED BY <2>1, <2>2
<1>2. ASSUME VisInv PROVE VisualizationIsSound
  <2>1. ASSUME NEW b \in VisBins
        PROVE  /\ \A i \in DOMAIN visFrames[b].pixels :
                     visFrames[b].pixels[i] # "old"
    <3>1. visFrames[b].pixels \in Seq(Shades)
      BY <1>2 DEF VisInv, VisTypes, VisPictures
    <3>2. \A i \in DOMAIN visFrames[b].pixels :
            visFrames[b].pixels[i] \in Shades
      BY <3>1
    <3> QED BY <3>2 DEF Shades
  <2>2. ShowsItsFrame
    BY <1>2, <2>1 DEF ShowsItsFrame, VisInv, PictureFits
  <2>3. ASSUME NEW b \in VisBins, video[b].frame = Newest
        PROVE  IsNewest(b)
    <3>1. PICK n \in VisBins : IsNewest(n)
      BY <1>2 DEF VisInv, SomeIsNewest
    <3>2. Newest = video[n].frame
      BY <1>2, <3>1, NewestIs DEF VisInv
    <3> QED BY <2>3, <3>1, <3>2 DEF IsNewest
  <2>4. EdgesAreOfFrame
    BY <1>2, <2>3 DEF EdgesAreOfFrame, VisInv, EdgesFit
  <2> QED BY <2>2, <2>4 DEF VisualizationIsSound
<1> QED BY VisInitially, <1>1, <1>2, PTL DEF VisSpec

(***************************************************************************)
(* FieldView: the robots shown of each camera's teams.                     *)
(***************************************************************************)
(* The items there can be.                                                 *)
RobotItems == [key : ViewCameras, team : Teams,
               label : {Label(s) : s \in Sightings},
               conf : Nat, at : {s.at : s \in Sightings}]

(* The items of a camera's team follow a list: the first one shows its     *)
(* first sighting and so on, and what is left over is invisible.           *)
Count(rs, c, team) == Cardinality(Items(rs, c, team))
Follows(rs, c, team, list) ==
    /\ Len(list) <= Count(rs, c, team)
    /\ \A j \in Items(rs, c, team) :
          IF Place(rs, j) <= Len(list)
          THEN rs[j] = AddRobot(list[Place(rs, j)], c, team)
          ELSE rs[j].conf = 0
    /\ \A k \in 1 .. Count(rs, c, team) :
          \E j \in Items(rs, c, team) : Place(rs, j) = k

(* There are as many of them as some detection needs.                      *)
Needed(rs, c, team) ==
    \E d \in Detections : d.camera = c /\ Count(rs, c, team) <= Len(d[team])

ViewInv ==
    /\ robots \in Seq(RobotItems) /\ fieldLength \in Nat
    /\ DOMAIN received = ViewCameras
    /\ \A c \in ViewCameras, team \in Teams :
          /\ received[c][team] \in Seq(Sightings)
          /\ Follows(robots, c, team, received[c][team])
          /\ Needed(robots, c, team)

(* The items of a camera's team are places in the list.                    *)
LEMMA ItemsAreFinite ==
  ASSUME NEW rs \in Seq(RobotItems), NEW c, NEW team
  PROVE  /\ Items(rs, c, team) \subseteq 1 .. Len(rs) /\ Len(rs) \in Nat
         /\ IsFiniteSet(Items(rs, c, team)) /\ Count(rs, c, team) \in Nat
<1>1. Items(rs, c, team) \subseteq 1 .. Len(rs) /\ Len(rs) \in Nat
  BY DEF Items
<1>2. IsFiniteSet(1 .. Len(rs))
  BY <1>1, FS_Interval
<1>3. IsFiniteSet(Items(rs, c, team))
  BY <1>1, <1>2, FS_Subset
<1> QED BY <1>1, <1>3, FS_CardinalityType DEF Count

(* The places of a set up to one.                                          *)
UpTo(set, j) == {i \in set : i <= j}

(* A set of places and some behind from.                                   *)
AndBehind(set, from, m) == set \cup (from + 1 .. from + m)

ArePlaces(set, n) == set \subseteq 1 .. n
AreCounted(old, new, from, m) ==
    /\ Cardinality(new) = Cardinality(old) + m
    /\ \A j \in old : UpTo(new, j) = UpTo(old, j)
    /\ \A k \in 1 .. m : Cardinality(UpTo(new, from + k))
                           = Cardinality(old) + k

(* Places behind those of a set are counted behind them.                   *)
LEMMA CountedBehind ==
  ASSUME NEW n \in Nat, NEW old, ArePlaces(old, n),
         NEW from \in Nat, n <= from, NEW m \in Nat,
         NEW new, new = AndBehind(old, from, m)
  PROVE  AreCounted(old, new, from, m)
<1>0. new = old \cup (from + 1 .. from + m) /\ old \subseteq 1 .. n
  BY DEF AndBehind, ArePlaces
<1>1. IsFiniteSet(old) /\ Cardinality(old) \in Nat
  <2>1. IsFiniteSet(1 .. n)
    BY FS_Interval
  <2> QED BY <1>0, <2>1, FS_Subset, FS_CardinalityType
<1>2. ASSUME NEW k \in 0 .. m
      PROVE  Cardinality(old \cup (from + 1 .. from + k)) = Cardinality(old) + k
  <2> DEFINE add == from + 1 .. from + k
  <2>1. from + 1 \in Int /\ from + k \in Int
    OBVIOUS
  <2>2. IsFiniteSet(add)
        /\ Cardinality(add) = IF from + 1 > from + k THEN 0
                              ELSE (from + k) - (from + 1) + 1
    BY <2>1, FS_Interval, Zenon
  <2>3. Cardinality(add) = k
    BY <2>2
  <2>4. old \cap add = {}
    BY <1>0
  <2>5. Cardinality(old \cap add) = 0
    BY <2>4, FS_EmptySet
  <2> HIDE DEF add
  <2>6. Cardinality(old \cup add)
          = Cardinality(old) + Cardinality(add) - Cardinality(old \cap add)
    BY <1>1, <2>2, FS_Union
  <2> QED BY <1>1, <2>3, <2>5, <2>6 DEF add
<1>3. Cardinality(new) = Cardinality(old) + m
  BY <1>0, <1>2
<1>4. ASSUME NEW j \in old
      PROVE  UpTo(new, j) = UpTo(old, j)
  BY <1>0 DEF UpTo
<1>5. ASSUME NEW k \in 1 .. m
      PROVE  Cardinality(UpTo(new, from + k)) = Cardinality(old) + k
  <2>1. UpTo(new, from + k) = old \cup (from + 1 .. from + k)
    <3>1. ASSUME NEW i \in old PROVE i <= from + k
      BY <1>0
    <3>2. ASSUME NEW i \in from + 1 .. from + m, i <= from + k
          PROVE  i \in from + 1 .. from + k
      BY <3>2
    <3>3. ASSUME NEW i \in from + 1 .. from + k
          PROVE  i \in from + 1 .. from + m /\ i <= from + k
      OBVIOUS
    <3> QED BY <1>0, <3>1, <3>2, <3>3, Zenon DEF UpTo
  <2>2. k \in 0 .. m
    OBVIOUS
  <2> QED BY <1>2, <2>1, <2>2, Zenon
<1> QED BY <1>3, <1>4, <1>5 DEF AreCounted

(* What is added for a team.                                               *)
LEMMA AddedItems ==
  ASSUME NEW rs \in Seq(RobotItems), NEW d \in Detections, NEW team \in Teams
  PROVE  LET have == Count(rs, d.camera, team)
             a == Added(rs, d, team)
         IN  /\ a \in Seq(RobotItems) /\ Len(a) \in Nat
             /\ Len(a) = IF have < Len(d[team]) THEN Len(d[team]) - have ELSE 0
             /\ \A k \in 1 .. Len(a) :
                   /\ have + k \in 1 .. Len(d[team])
                   /\ a[k] = AddRobot(d[team][have + k], d.camera, team)
                   /\ a[k].key = d.camera /\ a[k].team = team
<1> DEFINE have == Count(rs, d.camera, team)
           list == d[team]
           a == Added(rs, d, team)
           m == IF have < Len(list) THEN Len(list) - have ELSE 0
<1>1. have \in Nat /\ list \in Seq(Sightings) /\ Len(list) \in Nat
  BY ItemsAreFinite, ViewAssumption
<1>2. d.camera \in ViewCameras
  BY DEF ViewCameras
<1>3. a = [k \in 1 .. Len(list) - have |->
             AddRobot(list[have + k], d.camera, team)]
  BY DEF Added, Count
<1> HIDE DEF have, list, a
<1>4. m \in Nat /\ 1 .. Len(list) - have = 1 .. m
  BY <1>1
<1>5. ASSUME NEW k \in 1 .. m
      PROVE  /\ have + k \in 1 .. Len(list)
             /\ a[k] = AddRobot(list[have + k], d.camera, team)
             /\ a[k] \in RobotItems
             /\ a[k].key = d.camera /\ a[k].team = team
  <2>1. have + k \in 1 .. Len(list)
    BY <1>1
  <2>2. a[k] = AddRobot(list[have + k], d.camera, team)
    BY <1>3, <1>4
  <2>3. list[have + k] \in Sightings
    BY <1>1, <2>1
  <2>4. list[have + k].conf \in Nat
    BY <2>3, ViewAssumption
  <2> QED BY <1>2, <2>1, <2>2, <2>3, <2>4 DEF AddRobot, RobotItems
<1>6. a \in [1 .. m -> RobotItems]
  BY <1>3, <1>4, <1>5
<1> HIDE DEF m
<1>7. a \in Seq(RobotItems) /\ Len(a) = m
  BY <1>4, <1>6
<1> QED BY <1>4, <1>5, <1>7 DEF have, list, a, m

(* One item in the new list.                                               *)
RecordsMoved(rs, d, j) ==
    IF rs[j].key # d.camera THEN rs[j]
    ELSE IF Place(rs, j) <= Len(d[rs[j].team])
    THEN SetPose(rs[j], d[rs[j].team][Place(rs, j)])
    ELSE [rs[j] EXCEPT !.conf = 0]

(* The places added for a team, behind the items there were.               *)
First(rs, d, team) ==
    IF team = "blue" THEN Len(rs) ELSE Len(rs) + Len(Added(rs, d, "blue"))

(* Two lists one behind the other.                                         *)
LEMMA Behind ==
  ASSUME NEW S, NEW s \in Seq(S), NEW t \in Seq(S)
  PROVE  /\ s \o t \in Seq(S) /\ Len(s \o t) = Len(s) + Len(t)
         /\ \A j \in 1 .. Len(s) : (s \o t)[j] = s[j]
         /\ \A k \in 1 .. Len(t) : (s \o t)[Len(s) + k] = t[k]
<1> DEFINE n == Len(s)
           m == Len(t)
<1>1. n \in Nat /\ m \in Nat
  BY LenProperties
<1>2. /\ s \o t \in Seq(S) /\ Len(s \o t) = n + m
      /\ \A i \in 1 .. n + m : (s \o t)[i] = IF i <= n THEN s[i] ELSE t[i - n]
  BY ConcatProperties
<1> HIDE DEF n, m
<1>3. ASSUME NEW k \in 1 .. m
      PROVE  (s \o t)[n + k] = t[k]
  <2>1. n + k \in 1 .. n + m /\ ~(n + k <= n) /\ (n + k) - n = k
    BY <1>1
  <2> QED BY <1>2, <2>1
<1>4. ASSUME NEW j \in 1 .. n
      PROVE  (s \o t)[j] = s[j]
  <2>1. j \in 1 .. n + m /\ j <= n
    BY <1>1
  <2> QED BY <1>2, <2>1
<1> QED BY <1>2, <1>3, <1>4 DEF n, m

(* The new list: the items moved, and behind them those added.             *)
LEMMA ListUpdated ==
  ASSUME NEW rs \in Seq(RobotItems), NEW d \in Detections
  PROVE  LET new == UpdateRobots(rs, d)
         IN  /\ new \in Seq(RobotItems)
             /\ \A j \in 1 .. Len(rs) :
                   /\ new[j] = RecordsMoved(rs, d, j)
                   /\ new[j].key = rs[j].key /\ new[j].team = rs[j].team
             /\ \A team \in Teams :
                   /\ First(rs, d, team) \in Nat /\ Len(rs) <= First(rs, d, team)
                   /\ \A k \in 1 .. Len(Added(rs, d, team)) :
                         new[First(rs, d, team) + k] = Added(rs, d, team)[k]
             /\ DOMAIN new =
                   1 .. Len(rs) + Len(Added(rs, d, "blue"))
                                + Len(Added(rs, d, "yellow"))
<1> DEFINE n == Len(rs)
           b == Added(rs, d, "blue")
           y == Added(rs, d, "yellow")
           f == [j \in DOMAIN rs |-> RecordsMoved(rs, d, j)]
           new == UpdateRobots(rs, d)
<1>1. n \in Nat /\ DOMAIN rs = 1 .. n
  OBVIOUS
<1>2. /\ b \in Seq(RobotItems) /\ Len(b) \in Nat
      /\ y \in Seq(RobotItems) /\ Len(y) \in Nat
  BY AddedItems DEF Teams
<1>3. new = (f \o b) \o y
  BY DEF UpdateRobots, RecordsMoved
<1>4. ASSUME NEW j \in 1 .. n
      PROVE  /\ RecordsMoved(rs, d, j) \in RobotItems
             /\ RecordsMoved(rs, d, j).key = rs[j].key
             /\ RecordsMoved(rs, d, j).team = rs[j].team
  <2>1. rs[j] \in RobotItems
    BY <1>1
  <2> DEFINE r == rs[j]
             list == d[r.team]
             k == Place(rs, j)
  <2>2. r.team \in Teams /\ r.key \in ViewCameras
    BY <2>1 DEF RobotItems
  <2>3. CASE r.key # d.camera
    BY <2>1, <2>3 DEF RecordsMoved
  <2>4. CASE r.key = d.camera /\ k <= Len(list)
    <3>1. RecordsMoved(rs, d, j) = AddRobot(list[k], r.key, r.team)
      BY <2>4 DEF RecordsMoved, SetPose
    <3>2. k \in 1 .. Len(list)
      <4>1. /\ Items(rs, r.key, r.team) \subseteq 1 .. n
            /\ IsFiniteSet(Items(rs, r.key, r.team))
        BY ItemsAreFinite
      <4> DEFINE upto == {i \in Items(rs, r.key, r.team) : i <= j}
      <4>2. j \in upto /\ upto \subseteq Items(rs, r.key, r.team)
        BY <1>1 DEF Items, IsFor
      <4>3. IsFiniteSet(upto) /\ Cardinality(upto) \in Nat
        BY <4>1, <4>2, FS_Subset, FS_CardinalityType
      <4>4. Cardinality(upto) # 0
        BY <4>2, <4>3, FS_EmptySet
      <4>5. k = Cardinality(upto)
        BY DEF Place, Rank
      <4>6. Len(list) \in Nat
        BY <2>2, ViewAssumption
      <4> HIDE DEF k, list, upto
      <4> QED BY <2>4, <4>3, <4>4, <4>5, <4>6
    <3>3. list[k] \in Sightings
      <4>1. list \in Seq(Sightings)
        BY <2>2, ViewAssumption
      <4> HIDE DEF list, k
      <4> QED BY <3>2, <4>1
    <3>4. list[k].conf \in Nat
      BY <3>3, ViewAssumption
    <3> HIDE DEF list, k, r
    <3> QED BY <2>2, <3>1, <3>3, <3>4 DEF AddRobot, RobotItems, r
  <2>5. CASE r.key = d.camera /\ ~(k <= Len(list))
    <3>1. RecordsMoved(rs, d, j) = [r EXCEPT !.conf = 0]
      BY <2>5 DEF RecordsMoved
    <3> HIDE DEF r
    <3> QED BY <2>1, <3>1 DEF RobotItems, r
  <2> QED BY <2>3, <2>4, <2>5
<1>5. f \in [1 .. n -> RobotItems]
  BY <1>1, <1>4
<1>6. \A j \in 1 .. n : f[j] = RecordsMoved(rs, d, j)
  BY <1>1
<1> HIDE DEF f, b, y, n
<1>7. f \in Seq(RobotItems) /\ Len(f) = n
  BY <1>1, <1>5
<1>8. /\ f \o b \in Seq(RobotItems) /\ Len(f \o b) = n + Len(b)
      /\ \A j \in 1 .. n : (f \o b)[j] = f[j]
      /\ \A k \in 1 .. Len(b) : (f \o b)[n + k] = b[k]
  <2>0. f \in Seq(RobotItems) /\ b \in Seq(RobotItems)
    BY <1>2, <1>7
  <2>1. /\ f \o b \in Seq(RobotItems) /\ Len(f \o b) = Len(f) + Len(b)
        /\ \A j \in 1 .. Len(f) : (f \o b)[j] = f[j]
        /\ \A k \in 1 .. Len(b) : (f \o b)[Len(f) + k] = b[k]
    BY <2>0, Behind
  <2> QED BY <1>7, <2>1, Zenon
<1> DEFINE g == f \o b
<1> HIDE DEF g
<1>9. /\ g \o y \in Seq(RobotItems) /\ Len(g \o y) = Len(g) + Len(y)
      /\ \A j \in 1 .. Len(g) : (g \o y)[j] = g[j]
      /\ \A k \in 1 .. Len(y) : (g \o y)[Len(g) + k] = y[k]
  <2>1. g \in Seq(RobotItems)
    BY <1>8 DEF g
  <2> QED BY <1>2, <2>1, Behind
<1>10. new = g \o y
  BY <1>3 DEF g
<1> HIDE DEF new
<1>11. new \in Seq(RobotItems) /\ DOMAIN new = 1 .. n + Len(b) + Len(y)
  BY <1>1, <1>2, <1>8, <1>9, <1>10 DEF g
<1>12. ASSUME NEW j \in 1 .. n
       PROVE  new[j] = RecordsMoved(rs, d, j)
  <2>1. j \in 1 .. Len(g)
    BY <1>1, <1>2, <1>8 DEF g
  <2>2. new[j] = g[j] /\ g[j] = f[j]
    BY <1>8, <1>9, <1>10, <2>1 DEF g
  <2> QED BY <1>6, <2>2
<1>13. ASSUME NEW k \in 1 .. Len(b)
       PROVE  new[n + k] = b[k]
  <2>1. n + k \in 1 .. Len(g)
    BY <1>1, <1>2, <1>8 DEF g
  <2> QED BY <1>8, <1>9, <1>10, <2>1 DEF g
<1>14. ASSUME NEW k \in 1 .. Len(y)
       PROVE  new[n + Len(b) + k] = y[k]
  BY <1>8, <1>9, <1>10 DEF g
<1>15. ASSUME NEW team \in Teams
       PROVE  /\ First(rs, d, team) \in Nat /\ n <= First(rs, d, team)
              /\ \A k \in 1 .. Len(Added(rs, d, team)) :
                    new[First(rs, d, team) + k] = Added(rs, d, team)[k]
  <2>1. CASE team = "blue"
    <3>1. First(rs, d, team) = n /\ Added(rs, d, team) = b
      BY <2>1 DEF First, n, b
    <3> QED BY <1>1, <1>13, <3>1
  <2>2. CASE team = "yellow"
    <3>1. First(rs, d, team) = n + Len(b) /\ Added(rs, d, team) = y
      BY <2>2 DEF First, n, b, y
    <3> QED BY <1>1, <1>2, <1>14, <3>1
  <2> QED BY <2>1, <2>2 DEF Teams
<1> QED BY <1>4, <1>11, <1>12, <1>15 DEF n, b, y, new

(* Every team of every camera follows its list after a detection d, which  *)
(* changes the lists of d's camera only.                                   *)
After(c, team, d, list) == IF c = d.camera THEN d[team] ELSE list

LEMMA DetectionFollowed ==
  ASSUME NEW rs \in Seq(RobotItems), NEW d \in Detections,
         NEW c \in ViewCameras, NEW team \in Teams, NEW list,
         Follows(rs, c, team, list), Needed(rs, c, team)
  PROVE  /\ Follows(UpdateRobots(rs, d), c, team, After(c, team, d, list))
         /\ Needed(UpdateRobots(rs, d), c, team)
<1> DEFINE new == UpdateRobots(rs, d)
           n == Len(rs)
           old == Items(rs, c, team)
           have == Count(rs, c, team)
           from == First(rs, d, team)
           a == Added(rs, d, team)
           m == IF c = d.camera THEN Len(a) ELSE 0
           next == After(c, team, d, list)
<1>1. /\ old \subseteq 1 .. n /\ n \in Nat /\ have \in Nat
  BY ItemsAreFinite
<1>2. /\ new \in Seq(RobotItems) /\ from \in Nat /\ n <= from
      /\ \A j \in 1 .. n : /\ new[j] = RecordsMoved(rs, d, j)
                           /\ new[j].key = rs[j].key /\ new[j].team = rs[j].team
      /\ \A k \in 1 .. Len(a) : new[from + k] = a[k]
  BY ListUpdated
<1>3. DOMAIN new = 1 .. n + Len(Added(rs, d, "blue"))
                         + Len(Added(rs, d, "yellow"))
  BY ListUpdated
<1>4. /\ Len(a) \in Nat /\ m \in Nat
      /\ \A k \in 1 .. Len(a) : a[k].key = d.camera /\ a[k].team = team
  BY AddedItems
<1>5. c = d.camera =>
        /\ m = IF have < Len(d[team]) THEN Len(d[team]) - have ELSE 0
        /\ \A k \in 1 .. m :
              /\ have + k \in 1 .. Len(d[team])
              /\ a[k] = AddRobot(d[team][have + k], c, team)
  BY AddedItems
(* The items are those there were and those added.                         *)
<1>6. Items(new, c, team) = old \cup (from + 1 .. from + m)
  <2>1. ASSUME NEW j \in 1 .. n
        PROVE  j \in Items(new, c, team) <=> j \in old
    <3>1. j \in DOMAIN new /\ j \in DOMAIN rs
      <4>1. /\ Len(Added(rs, d, "blue")) \in Nat
            /\ Len(Added(rs, d, "yellow")) \in Nat
        BY AddedItems DEF Teams
      <4>2. j \in DOMAIN new
        BY <1>1, <1>3, <4>1
      <4>3. j \in DOMAIN rs
        OBVIOUS
      <4> QED BY <4>2, <4>3
    <3> QED BY <1>2, <3>1 DEF Items, IsFor
  <2> DEFINE b == Len(Added(rs, d, "blue"))
             y == Len(Added(rs, d, "yellow"))
  <2>2. /\ b \in Nat /\ y \in Nat
        /\ First(rs, d, "blue") = n /\ First(rs, d, "yellow") = n + b
    BY AddedItems DEF Teams, First
  <2>3. ASSUME NEW t \in Teams, NEW k \in 1 .. Len(Added(rs, d, t))
        PROVE  /\ new[First(rs, d, t) + k].key = d.camera
               /\ new[First(rs, d, t) + k].team = t
    <3>1. new[First(rs, d, t) + k] = Added(rs, d, t)[k]
      BY ListUpdated
    <3>2. Added(rs, d, t)[k].key = d.camera /\ Added(rs, d, t)[k].team = t
      BY AddedItems
    <3> QED BY <3>1, <3>2
  <2>4. ASSUME NEW j \in n + 1 .. n + b
        PROVE  new[j].key = d.camera /\ new[j].team = "blue"
    <3>1. j - n \in 1 .. b /\ n + (j - n) = j
      BY <1>1, <2>2
    <3> QED BY <2>2, <2>3, <3>1 DEF Teams
  <2>5. ASSUME NEW j \in n + b + 1 .. n + b + y
        PROVE  new[j].key = d.camera /\ new[j].team = "yellow"
    <3>1. j - (n + b) \in 1 .. y /\ (n + b) + (j - (n + b)) = j
      BY <1>1, <2>2
    <3> QED BY <2>2, <2>3, <3>1 DEF Teams
  <2>6. DOMAIN new = (1 .. n) \cup (n + 1 .. n + b)
                       \cup (n + b + 1 .. n + b + y)
    <3>1. DOMAIN new = 1 .. n + b + y
      BY <1>3
    <3> HIDE DEF b, y, new, n
    <3> QED BY <1>1, <2>2, <3>1
  <2>7. ASSUME c # d.camera
        PROVE  Items(new, c, team) = old /\ m = 0
    BY <1>1, <2>1, <2>4, <2>5, <2>6, <2>7 DEF Items, IsFor
  <2>8. ASSUME c = d.camera, team = "blue"
        PROVE  Items(new, c, team) = old \cup (n + 1 .. n + b)
    BY <1>1, <2>1, <2>4, <2>5, <2>6, <2>8 DEF Items, IsFor
  <2>9. ASSUME c = d.camera, team = "yellow"
        PROVE  Items(new, c, team) = old \cup (n + b + 1 .. n + b + y)
    BY <1>1, <2>1, <2>4, <2>5, <2>6, <2>9 DEF Items, IsFor
  <2>10. CASE c # d.camera
    <3>1. from + 1 .. from + m = {}
      BY <1>2, <2>7, <2>10
    <3> QED BY <2>7, <2>10, <3>1
  <2>11. CASE c = d.camera
    BY <2>2, <2>8, <2>9, <2>11 DEF Teams
  <2> QED BY <2>10, <2>11
(* So many, and numbered in that order.                                    *)
<1> DEFINE all == Items(new, c, team)
<1>7. /\ Count(new, c, team) = have + m
      /\ \A j \in old : UpTo(all, j) = UpTo(old, j)
      /\ \A k \in 1 .. m : Cardinality(UpTo(all, from + k)) = have + k
  <2> HIDE DEF new, n, old, from, m, a
  <2> HIDE DEF all, have, next
  <2>1. /\ n \in Nat /\ ArePlaces(old, n)
        /\ from \in Nat /\ n <= from /\ m \in Nat
        /\ all = AndBehind(old, from, m)
    BY <1>1, <1>2, <1>4, <1>6 DEF all, AndBehind, ArePlaces
  <2>4. /\ Cardinality(all) = Cardinality(old) + m
        /\ \A j \in old : UpTo(all, j) = UpTo(old, j)
        /\ \A k \in 1 .. m : Cardinality(UpTo(all, from + k))
                               = Cardinality(old) + k
    <3>1. AreCounted(old, all, from, m)
      BY <2>1, CountedBehind
    <3> QED BY <3>1 DEF AreCounted
  <2>2. have = Cardinality(old)
    BY DEF Count, old, have
  <2>3. Count(new, c, team) = Cardinality(all)
    BY DEF Count, all
  <2> QED BY <2>2, <2>3, <2>4
<1>8. ASSUME NEW j \in all
      PROVE  Place(new, j) = Cardinality(UpTo(all, j))
  BY DEF Items, IsFor, Place, Rank, UpTo
<1>9. ASSUME NEW j \in old
      PROVE  Place(rs, j) = Cardinality(UpTo(old, j))
  BY DEF Items, IsFor, Place, Rank, UpTo
<1>10. ASSUME NEW j \in old
       PROVE  j \in all /\ Place(new, j) = Place(rs, j)
  BY <1>6, <1>7, <1>8, <1>9
<1>11. ASSUME NEW k \in 1 .. m
       PROVE  from + k \in all /\ Place(new, from + k) = have + k
  <2>1. from + k \in from + 1 .. from + m
    BY <1>2, <1>4
  <2> QED BY <1>6, <1>7, <1>8, <2>1
<1>12. ASSUME NEW j \in old
       PROVE  IF Place(new, j) <= Len(next)
              THEN new[j] = AddRobot(next[Place(new, j)], c, team)
              ELSE new[j].conf = 0
  <2>1. /\ rs[j].key = c /\ rs[j].team = team /\ j \in 1 .. n
        /\ rs[j] \in RobotItems
    BY <1>1 DEF Items, IsFor
  <2>2. new[j] = RecordsMoved(rs, d, j) /\ Place(new, j) = Place(rs, j)
    BY <1>2, <1>10, <2>1
  <2>3. CASE c # d.camera
    BY <2>1, <2>2, <2>3 DEF RecordsMoved, After, Follows
  <2>4. CASE c = d.camera
    <3>1. next = d[team]
      BY <2>4 DEF After
    <3>2. CASE Place(rs, j) <= Len(next)
      BY <2>1, <2>2, <2>4, <3>1, <3>2 DEF RecordsMoved, SetPose
    <3>3. CASE ~(Place(rs, j) <= Len(next))
      BY <2>1, <2>2, <2>4, <3>1, <3>3 DEF RecordsMoved, RobotItems
    <3> QED BY <2>2, <3>2, <3>3
  <2> QED BY <2>3, <2>4
<1>13. ASSUME NEW k \in 1 .. m
       PROVE  /\ Place(new, from + k) <= Len(next)
              /\ new[from + k] = AddRobot(next[Place(new, from + k)], c, team)
  <2>1. c = d.camera
    BY <1>4
  <2>2. next = d[team] /\ k \in 1 .. Len(a)
    BY <2>1 DEF After
  <2>3. new[from + k] = a[k]
    BY <1>2, <2>2
  <2>4. have + k \in 1 .. Len(next) /\ Len(next) \in Nat
        /\ a[k] = AddRobot(next[have + k], c, team)
    BY <1>5, <2>1, <2>2, ViewAssumption
  <2> HIDE DEF next
  <2>5. have + k <= Len(next)
    BY <2>4
  <2> QED BY <1>11, <2>3, <2>4, <2>5
<1>14. ASSUME NEW j \in all
       PROVE  IF Place(new, j) <= Len(next)
              THEN new[j] = AddRobot(next[Place(new, j)], c, team)
              ELSE new[j].conf = 0
  <2>1. CASE j \in old
    BY <1>12, <2>1
  <2>2. CASE j \in from + 1 .. from + m
    <3>1. PICK k \in 1 .. m : j = from + k
      <4>1. j - from \in 1 .. m /\ j = from + (j - from)
        BY <1>2, <1>4, <2>2
      <4> QED BY <4>1
    <3> QED BY <1>13, <3>1
  <2> QED BY <1>6, <2>1, <2>2
<1>15. ASSUME NEW k \in 1 .. have + m
       PROVE  \E j \in all : Place(new, j) = k
  <2>1. CASE k \in 1 .. have
    <3>1. PICK j \in old : Place(rs, j) = k
      BY <2>1 DEF Follows
    <3> QED BY <1>10, <3>1
  <2>2. CASE k \notin 1 .. have
    <3>1. k - have \in 1 .. m /\ have + (k - have) = k
      BY <1>1, <1>4, <2>2
    <3> QED BY <1>11, <3>1
  <2> QED BY <2>1, <2>2
<1>16. Len(next) <= have + m
  <2>1. CASE c = d.camera
    <3>1. Len(d[team]) \in Nat /\ next = d[team]
      BY <2>1, ViewAssumption DEF After
    <3> QED BY <1>1, <1>5, <2>1, <3>1
  <2>2. CASE c # d.camera
    <3>1. next = list /\ m = 0 /\ Len(list) <= have
      BY <2>2 DEF After, Follows
    <3> QED BY <1>1, <3>1
  <2> QED BY <2>1, <2>2
<1>17. Needed(new, c, team)
  <2>1. CASE m = 0
    BY <1>1, <1>7, <2>1 DEF Needed
  <2>2. CASE m # 0
    <3>1. c = d.camera /\ have + m = Len(d[team])
      <4>1. c = d.camera
        BY <2>2
      <4>2. Len(d[team]) \in Nat
        BY ViewAssumption
      <4> QED BY <1>1, <1>5, <2>2, <4>1, <4>2
    <3>2. Count(new, c, team) <= Len(d[team])
      BY <1>7, <3>1, ViewAssumption
    <3> QED BY <3>1, <3>2 DEF Needed
  <2> QED BY <2>1, <2>2
<1>18. Follows(new, c, team, next)
  BY <1>7, <1>14, <1>15, <1>16 DEF Follows
<1> QED BY <1>17, <1>18

(* A list without sightings is followed by no items.                       *)
LEMMA ViewInitially == ViewInit => ViewInv
<1> SUFFICES ASSUME ViewInit PROVE ViewInv OBVIOUS
<1>1. robots = <<>> /\ received = [c \in ViewCameras |-> NothingSeen(c)]
      /\ fieldLength = 6050
  BY DEF ViewInit
<1>2. ASSUME NEW c \in ViewCameras, NEW team \in Teams
      PROVE  /\ received[c][team] = <<>>
             /\ Follows(robots, c, team, <<>>) /\ Needed(robots, c, team)
  <2>1. received[c][team] = <<>>
    BY <1>1 DEF NothingSeen, Teams
  <2>2. Items(robots, c, team) = {}
    BY <1>1 DEF Items
  <2>3. Count(robots, c, team) = 0
    BY <2>2, FS_EmptySet DEF Count
  <2>4. PICK d \in Detections : d.camera = c
    BY DEF ViewCameras
  <2>5. Len(d[team]) \in Nat
    BY ViewAssumption
  <2>6. Needed(robots, c, team)
    BY <2>3, <2>4, <2>5 DEF Needed
  <2>7. Follows(robots, c, team, <<>>)
    BY <2>2, <2>3 DEF Follows
  <2> QED BY <2>1, <2>6, <2>7
<1>3. robots \in Seq(RobotItems) /\ <<>> \in Seq(Sightings)
  BY <1>1
<1>4. DOMAIN received = ViewCameras /\ fieldLength \in Nat
  BY <1>1
<1>5. ASSUME NEW c \in ViewCameras, NEW team \in Teams
      PROVE  /\ received[c][team] \in Seq(Sightings)
             /\ Follows(robots, c, team, received[c][team])
             /\ Needed(robots, c, team)
  BY <1>2, <1>3
<1> QED BY <1>3, <1>4, <1>5 DEF ViewInv

(* Showing a detection.                                                    *)
LEMMA ShowKeeps ==
  ASSUME ViewInv, NEW d \in Detections, Show(d), fieldLength' \in Nat
  PROVE  ViewInv'
<1>1. /\ robots \in Seq(RobotItems) /\ DOMAIN received = ViewCameras
      /\ \A c \in ViewCameras, team \in Teams :
            /\ received[c][team] \in Seq(Sightings)
            /\ Follows(robots, c, team, received[c][team])
            /\ Needed(robots, c, team)
  BY DEF ViewInv
<1>2. /\ robots' = UpdateRobots(robots, d)
      /\ received' = [received EXCEPT ![d.camera] = d]
  BY DEF Show
<1>3. robots' \in Seq(RobotItems)
  BY <1>1, <1>2, ListUpdated
<1>4. DOMAIN received' = ViewCameras /\ d.camera \in ViewCameras
  BY <1>1, <1>2 DEF ViewCameras
<1>5. ASSUME NEW c \in ViewCameras, NEW team \in Teams
      PROVE  /\ received'[c][team] \in Seq(Sightings)
             /\ Follows(robots', c, team, received'[c][team])
             /\ Needed(robots', c, team)
  <2>1. received'[c][team] = After(c, team, d, received[c][team])
    BY <1>1, <1>2, <1>4 DEF After
  <2>2. received'[c][team] \in Seq(Sightings)
    BY <1>1, <2>1, ViewAssumption DEF After
  <2>3. /\ Follows(robots, c, team, received[c][team])
        /\ Needed(robots, c, team)
    BY <1>1
  <2> QED BY <1>1, <1>2, <2>1, <2>2, <2>3, DetectionFollowed
<1> QED BY <1>3, <1>4, <1>5 DEF ViewInv, Follows, Needed, Count, Items, Place,
       Rank, IsFor

(* The invariant of the view holds whatever packets come.                  *)
LEMMA ViewStep == ViewInv /\ [ViewNext]_viewVars => ViewInv'
<1> SUFFICES ASSUME ViewInv, [ViewNext]_viewVars PROVE ViewInv' OBVIOUS
<1>1. ASSUME UNCHANGED <<robots, received>>, fieldLength' \in Nat
      PROVE  ViewInv'
  <2>1. robots' = robots /\ received' = received
    BY <1>1
  <2>2. ASSUME NEW c \in ViewCameras, NEW team \in Teams
        PROVE  /\ received'[c][team] \in Seq(Sightings)
               /\ Follows(robots', c, team, received'[c][team])
               /\ Needed(robots', c, team)
    BY <2>1 DEF ViewInv
  <2>3. robots' \in Seq(RobotItems) /\ DOMAIN received' = ViewCameras
    BY <2>1 DEF ViewInv
  <2> QED BY <1>1, <2>2, <2>3 DEF ViewInv, Follows, Needed, Count, Items,
         Place, Rank, IsFor
<1>2. ASSUME NEW p \in Packets \ {NoPacket}, Receive(p) PROVE ViewInv'
  <2>1. fieldLength' \in Nat
    <3>1. p.length = 0 \/ p.length \in Nat
      BY ViewAssumption DEF Packets
    <3> QED BY <1>2, <3>1 DEF Receive, LoadFieldGeometry, ViewInv
  <2>2. CASE p.detection = NoDetection
    BY <1>1, <1>2, <2>1, <2>2 DEF Receive
  <2>3. CASE p.detection # NoDetection
    <3>1. p.detection \in Detections /\ Show(p.detection)
      BY <1>2, <2>3 DEF Receive, Packets
    <3> QED BY <2>1, <3>1, ShowKeeps
  <2> QED BY <2>2, <2>3
<1>3. ASSUME NEW d \in Detections, PlayFrame(d) PROVE ViewInv'
  <2>1. Show(d) /\ fieldLength' = fieldLength
    BY <1>3 DEF PlayFrame
  <2> QED BY <2>1, ShowKeeps DEF ViewInv
<1>4. CASE OpenClient \/ PlayToggled \/ UNCHANGED viewVars
  <2>1. UNCHANGED <<robots, received, fieldLength>>
    BY <1>4 DEF OpenClient, PlayToggled, viewVars
  <2> QED BY <1>1, <2>1 DEF ViewInv
<1> QED BY <1>2, <1>3, <1>4 DEF ViewNext

(* Places of a set are counted from one on, in their order and without     *)
(* gaps.                                                                   *)
LEMMA RanksCount ==
  ASSUME NEW S, IsFiniteSet(S), S \subseteq Int
  PROVE  /\ Cardinality(S) \in Nat
         /\ \A i \in S : Rank(S, i) \in 1 .. Cardinality(S)
         /\ \A i, j \in S : i < j => Rank(S, i) < Rank(S, j)
         /\ \A k \in 1 .. Cardinality(S) : \E i \in S : Rank(S, i) = k
<1> DEFINE upto(i) == {j \in S : j <= i}
           size == Cardinality(S)
<1>0. S \subseteq Int
  OBVIOUS
<1>1. IsFiniteSet(S) /\ size \in Nat
  BY FS_CardinalityType
<1>2. ASSUME NEW i \in S
      PROVE  /\ IsFiniteSet(upto(i)) /\ Cardinality(upto(i)) \in 1 .. size
             /\ Rank(S, i) = Cardinality(upto(i))
  <2>1. upto(i) \in SUBSET S /\ i \in upto(i)
    OBVIOUS
  <2>2. /\ IsFiniteSet(upto(i)) /\ Cardinality(upto(i)) \in Nat
        /\ Cardinality(upto(i)) <= size
    BY <1>1, <2>1, FS_Subset, FS_CardinalityType
  <2>3. Cardinality(upto(i)) # 0
    BY <2>1, <2>2, FS_EmptySet
  <2>4. Rank(S, i) = Cardinality(upto(i))
    BY DEF Rank
  <2> HIDE DEF upto, size
  <2> QED BY <1>1, <2>2, <2>3, <2>4
<1>3. ASSUME NEW i \in S, NEW j \in S, i < j
      PROVE  Rank(S, i) < Rank(S, j)
  <2>0. i \in Int /\ j \in Int /\ i < j
    BY <1>0, <1>3
  <2>1. \A u \in S : u <= i => u <= j
    BY <1>0, <2>0
  <2>2. upto(i) \in SUBSET upto(j) /\ j \in upto(j) /\ j \notin upto(i)
    <3>1. upto(i) \in SUBSET upto(j)
      BY <2>1, Zenon
    <3> QED BY <2>0, <3>1
  <2>3. Cardinality(upto(i)) # Cardinality(upto(j))
        /\ Cardinality(upto(i)) <= Cardinality(upto(j))
    BY <1>2, <2>2, FS_Subset
  <2> HIDE DEF upto, size
  <2> QED BY <1>1, <1>2, <2>3
<1>4. ASSUME NEW k \in 1 .. size
      PROVE  \E i \in S : Rank(S, i) = k
  <2> DEFINE rank == [i \in S |-> Rank(S, i)]
  <2>1. rank \in [S -> 1 .. size]
    BY <1>2
  <2>2. ASSUME NEW i \in S, NEW j \in S, rank[i] = rank[j]
        PROVE  i = j
    <3>1. i \in Int /\ j \in Int
      BY <1>0
    <3>2. Rank(S, i) = Rank(S, j) /\ Rank(S, i) \in Int
      <4>1. Rank(S, i) \in 1 .. size
        BY <1>2
      <4> HIDE DEF size
      <4> QED BY <1>1, <2>2, <4>1
    <3>3. ~(i < j) /\ ~(j < i)
      BY <1>3, <3>2
    <3> QED BY <3>1, <3>3
  <2>3. rank \in Injection(S, 1 .. size)
    BY <2>1, <2>2 DEF Injection, IsInjective
  <2>4. IsFiniteSet(1 .. size) /\ Cardinality(1 .. size) = size
    <3> HIDE DEF size
    <3> QED BY <1>1, FS_Interval
  <2>5. rank \in Surjection(S, 1 .. size)
    BY <2>3, <2>4, FS_Injection
  <2> QED BY <2>5 DEF Surjection
<1> QED BY <1>1, <1>2, <1>3, <1>4

KeepsOrder(p, S, T) ==
    /\ IsFiniteSet(S) /\ S \subseteq Int /\ T \subseteq Int
    /\ p \in [S -> T]
    /\ \A i, j \in S : i < j => p[i] < p[j]
    /\ \A t \in T : \E i \in S : p[i] = t

(* A map that keeps the order takes the members of one set to those at the *)
(* same places of the other.                                               *)
LEMMA SamePlaces ==
  ASSUME NEW S, NEW T, NEW p, KeepsOrder(p, S, T)
  PROVE  /\ Cardinality(T) = Cardinality(S)
         /\ \A k \in 1 .. Cardinality(S) :
               NthOf(S, k) \in S /\ NthOf(T, k) = p[NthOf(S, k)]
<1> DEFINE upto(i) == {j \in S : j <= i}
           beyond(t) == {u \in T : u <= t}
<1>0. S \subseteq Int /\ T \subseteq Int /\ \A i \in S : p[i] \in T
  BY DEF KeepsOrder
<1> USE DEF KeepsOrder
<1>1. /\ IsFiniteSet(S) /\ Cardinality(S) \in Nat
      /\ \A k \in 1 .. Cardinality(S) : \E i \in S : Rank(S, i) = k
  BY <1>0, RanksCount
<1>2. \A i, j \in S : p[i] <= p[j] <=> i <= j
  <2> SUFFICES ASSUME NEW i \in S, NEW j \in S PROVE p[i] <= p[j] <=> i <= j
    OBVIOUS
  <2>1. i \in Int /\ j \in Int /\ p[i] \in Int /\ p[j] \in Int
    BY <1>0
  <2>2. (i < j => p[i] < p[j]) /\ (j < i => p[j] < p[i])
    OBVIOUS
  <2>3. i = j => p[i] = p[j]
    OBVIOUS
  <2> QED BY <2>1, <2>2, <2>3
<1>3. \A i, j \in S : p[i] = p[j] => i = j
  <2> SUFFICES ASSUME NEW i \in S, NEW j \in S, p[i] = p[j] PROVE i = j
    OBVIOUS
  <2>1. i \in Int /\ j \in Int /\ p[i] \in Int /\ p[j] \in Int
    BY <1>0
  <2>2. i <= j /\ j <= i
    BY <1>2, <2>1
  <2> QED BY <2>1, <2>2
<1>4. IsFiniteSet(T) /\ Cardinality(T) = Cardinality(S)
  <2>1. p \in Bijection(S, T)
    BY <1>3 DEF Bijection, Injection, Surjection, IsInjective
  <2> QED BY <1>1, <2>1, FS_Bijection DEF ExistsBijection
<1>5. ASSUME NEW i \in S
      PROVE  Rank(T, p[i]) = Rank(S, i)
  <2> DEFINE q == [j \in upto(i) |-> p[j]]
  <2>1. upto(i) \in SUBSET S
    OBVIOUS
  <2>2. IsFiniteSet(upto(i))
    BY <1>1, <2>1, FS_Subset
  <2>3. q \in [upto(i) -> beyond(p[i])]
    BY <1>2
  <2>4. \A j, h \in upto(i) : q[j] = q[h] => j = h
    BY <1>3
  <2>5. \A t \in beyond(p[i]) : \E j \in upto(i) : q[j] = t
    <3> SUFFICES ASSUME NEW t \in beyond(p[i])
                 PROVE  \E j \in upto(i) : q[j] = t
      OBVIOUS
    <3>1. PICK j \in S : p[j] = t
      OBVIOUS
    <3>2. j \in upto(i)
      BY <1>2, <3>1
    <3> QED BY <3>1, <3>2
  <2>6. q \in Bijection(upto(i), beyond(p[i]))
    <3> HIDE DEF q, upto, beyond
    <3> QED BY <2>3, <2>4, <2>5 DEF Bijection, Injection, Surjection, IsInjective
  <2>7. Cardinality(beyond(p[i])) = Cardinality(upto(i))
    <3> HIDE DEF q, upto, beyond
    <3> QED BY <2>2, <2>6, FS_Bijection DEF ExistsBijection
  <2> QED BY <2>7 DEF Rank
<1>6. ASSUME NEW k \in 1 .. Cardinality(S)
      PROVE  NthOf(S, k) \in S /\ NthOf(T, k) = p[NthOf(S, k)]
  <2> DEFINE i == NthOf(S, k)
             t == NthOf(T, k)
  <2>1. i \in S /\ Rank(S, i) = k
    BY <1>1 DEF NthOf
  <2>2. p[i] \in T /\ Rank(T, p[i]) = k
    BY <1>5, <2>1
  <2>3. t \in T /\ Rank(T, t) = k
    BY <2>2 DEF NthOf
  <2> HIDE DEF i, t
  <2>4. /\ t \in Int /\ p[i] \in Int /\ Rank(T, t) \in Int
        /\ \A u, v \in T : u < v => Rank(T, u) < Rank(T, v)
    <3>1. /\ Cardinality(T) \in Nat
          /\ \A u \in T : Rank(T, u) \in 1 .. Cardinality(T)
          /\ \A u, v \in T : u < v => Rank(T, u) < Rank(T, v)
      BY <1>0, <1>4, RanksCount
    <3>2. Rank(T, t) \in Int
      BY <2>3, <3>1
    <3> QED BY <1>0, <2>2, <2>3, <3>1, <3>2, Zenon
  <2>5. ~(t < p[i]) /\ ~(p[i] < t)
    <3>1. Rank(T, t) = Rank(T, p[i])
      BY <2>2, <2>3
    <3> QED BY <2>2, <2>3, <2>4, <3>1
  <2>6. t = p[i]
    BY <2>4, <2>5
  <2> QED BY <2>1, <2>6 DEF i, t
<1> QED BY <1>4, <1>6

(* The balls shown are those of the last detection, whatever comes.        *)
BallsFollow ==
    /\ DOMAIN received = ViewCameras
    /\ ballItems = [c \in ViewCameras |-> Places(Sure(received[c].balls))]

LEMMA BallsAreReported == ViewSpec => []BallsFollow
<1>1. ViewInit => BallsFollow
  <2> SUFFICES ASSUME ViewInit PROVE BallsFollow OBVIOUS
  <2>1. /\ received = [c \in ViewCameras |-> NothingSeen(c)]
        /\ ballItems = [c \in ViewCameras |-> <<>>]
    BY DEF ViewInit
  <2>2. Places(Sure(<<>>)) = <<>>
    <3>1. {k \in DOMAIN <<>> : <<>>[k].conf > 0} = {}
      OBVIOUS
    <3>2. Sure(<<>>) = [k \in 1 .. 0 |-> <<>>[NthOf({}, k)]]
      BY <3>1, FS_EmptySet DEF Sure, Among
    <3>3. DOMAIN Sure(<<>>) = {}
      BY <3>2
    <3> QED BY <3>3 DEF Places
  <2>3. \A c \in ViewCameras : received[c].balls = <<>>
    BY <2>1 DEF NothingSeen
  <2> QED BY <2>1, <2>2, <2>3 DEF BallsFollow
<1>2. ASSUME BallsFollow, NEW d \in Detections, Show(d)
      PROVE  BallsFollow'
  <2>1. /\ ballItems' = [ballItems EXCEPT ![d.camera] = Places(Sure(d.balls))]
        /\ received' = [received EXCEPT ![d.camera] = d]
    BY <1>2 DEF Show, UpdateBalls
  <2>2. /\ DOMAIN received' = ViewCameras
        /\ DOMAIN ballItems' = ViewCameras
        /\ ballItems' = [c \in ViewCameras |-> ballItems'[c]]
    BY <1>2, <2>1 DEF BallsFollow
  <2>3. ASSUME NEW c \in ViewCameras
        PROVE  ballItems'[c] = Places(Sure(received'[c].balls))
    <3>1. CASE c = d.camera
      BY <1>2, <2>1, <3>1 DEF BallsFollow
    <3>2. CASE c # d.camera
      BY <1>2, <2>1, <3>2 DEF BallsFollow
    <3> QED BY <3>1, <3>2
  <2> QED BY <2>2, <2>3 DEF BallsFollow, Places, Sure, Among, NthOf, Rank
<1>3. ASSUME BallsFollow, UNCHANGED <<received, ballItems>>
      PROVE  BallsFollow'
  <2>1. received' = received /\ ballItems' = ballItems
    BY <1>3
  <2>2. ASSUME NEW c \in ViewCameras
        PROVE  ballItems'[c] = Places(Sure(received'[c].balls))
    BY <1>3, <2>1 DEF BallsFollow
  <2>3. /\ DOMAIN received' = ViewCameras
        /\ ballItems' = [c \in ViewCameras |-> ballItems'[c]]
    BY <1>3, <2>1 DEF BallsFollow
  <2> QED BY <2>2, <2>3 DEF BallsFollow, Places, Sure, Among, NthOf, Rank
<1>4. BallsFollow /\ [ViewNext]_viewVars => BallsFollow'
  <2> SUFFICES ASSUME BallsFollow, [ViewNext]_viewVars PROVE BallsFollow'
    OBVIOUS
  <2>1. ASSUME NEW p \in Packets \ {NoPacket}, Receive(p) PROVE BallsFollow'
    <3>1. CASE p.detection # NoDetection
      <4>1. p.detection \in Detections /\ Show(p.detection)
        BY <2>1, <3>1 DEF Receive, Packets
      <4> QED BY <1>2, <4>1
    <3>2. CASE p.detection = NoDetection
      <4>1. UNCHANGED <<received, ballItems>>
        BY <2>1, <3>2 DEF Receive
      <4> QED BY <1>3, <4>1
    <3> QED BY <3>1, <3>2
  <2>2. ASSUME NEW d \in Detections, PlayFrame(d) PROVE BallsFollow'
    BY <1>2, <2>2 DEF PlayFrame
  <2>3. CASE OpenClient \/ PlayToggled \/ UNCHANGED viewVars
    BY <1>3, <2>3 DEF OpenClient, PlayToggled, viewVars
  <2> QED BY <2>1, <2>2, <2>3 DEF ViewNext
<1> QED BY <1>1, <1>4, PTL DEF ViewSpec

(* The robots visible of a camera's team are those reported last, in the   *)
(* order of the report: their items are in the order of the sightings.     *)
LEMMA RobotsAreReported ==
  ASSUME ViewInv, NEW c \in ViewCameras, NEW team \in Teams
  PROVE  Visible(c, team) = Reported(c, team)
<1> DEFINE list == received[c][team]
           its == Items(robots, c, team)
<1>1. /\ list \in Seq(Sightings) /\ Len(list) \in Nat
      /\ Follows(robots, c, team, list) /\ robots \in Seq(RobotItems)
  BY DEF ViewInv
<1>2. ASSUME NEW j \in its
      PROVE  Place(robots, j) \in 1 .. Count(robots, c, team)
             /\ Count(robots, c, team) \in Nat
  <2> DEFINE upto == {i \in its : i <= j}
  <2>1. /\ its \subseteq 1 .. Len(robots) /\ IsFiniteSet(its)
        /\ Count(robots, c, team) \in Nat
    BY <1>1, ItemsAreFinite
  <2>2. j \in upto /\ upto \subseteq its
    BY <2>1
  <2>3. IsFiniteSet(upto) /\ Cardinality(upto) \in Nat
        /\ Cardinality(upto) <= Cardinality(its)
    BY <2>1, <2>2, FS_Subset, FS_CardinalityType
  <2>4. Cardinality(upto) # 0
    BY <2>2, <2>3, FS_EmptySet
  <2>5. Place(robots, j) = Cardinality(upto)
    BY DEF Place, Rank, Items, IsFor
  <2>6. Count(robots, c, team) = Cardinality(its)
    BY DEF Count
  <2> HIDE DEF upto, its
  <2> QED BY <2>1, <2>3, <2>4, <2>5, <2>6
<1>3. ASSUME NEW j \in its, robots[j].conf > 0
      PROVE  /\ Place(robots, j) \in DOMAIN list
             /\ robots[j] = AddRobot(list[Place(robots, j)], c, team)
  <2>1. Place(robots, j) <= Len(list)
    BY <1>1, <1>3 DEF Follows
  <2>2. robots[j] = AddRobot(list[Place(robots, j)], c, team)
    BY <1>1, <2>1 DEF Follows
  <2>3. Place(robots, j) \in 1 .. Len(list)
    BY <1>1, <1>2, <2>1
  <2> QED BY <1>1, <2>2, <2>3
<1>4. ASSUME NEW k \in DOMAIN list
      PROVE  \E j \in its : /\ Place(robots, j) = k
                           /\ robots[j] = AddRobot(list[k], c, team)
  <2>1. k \in 1 .. Count(robots, c, team) /\ k <= Len(list)
    <3>1. /\ its \subseteq 1 .. Len(robots)
          /\ Count(robots, c, team) \in Nat
      BY <1>1, ItemsAreFinite
    <3>2. k \in 1 .. Len(list) /\ Len(list) <= Count(robots, c, team)
      BY <1>1 DEF Follows
    <3> HIDE DEF list
    <3> QED BY <1>1, <3>1, <3>2
  <2>2. PICK j \in its : Place(robots, j) = k
    BY <1>1, <2>1 DEF Follows
  <2> QED BY <1>1, <2>1, <2>2 DEF Follows
<1> DEFINE S == {j \in its : robots[j].conf > 0}
           T == {k \in DOMAIN list : list[k].conf > 0}
           p == [j \in S |-> Place(robots, j)]
           mine == Among(robots, S)
           sure == Among(list, T)
<1>5. /\ its \subseteq Int /\ IsFiniteSet(its)
      /\ S \subseteq Int /\ IsFiniteSet(S) /\ T \subseteq Int
  <2>1. its \subseteq 1 .. Len(robots) /\ IsFiniteSet(its)
    BY <1>1, ItemsAreFinite
  <2>2. S \in SUBSET its /\ T \subseteq 1 .. Len(list)
    BY <1>1
  <2>3. IsFiniteSet(S)
    BY <2>1, <2>2, FS_Subset
  <2> HIDE DEF its, S, T
  <2> QED BY <2>1, <2>2, <2>3
<1>6. p \in [S -> T]
  <2>1. ASSUME NEW j \in S PROVE Place(robots, j) \in T
    <3> DEFINE k == Place(robots, j)
    <3>1. k \in DOMAIN list /\ robots[j] = AddRobot(list[k], c, team)
      BY <1>3
    <3>2. robots[j].conf > 0
      OBVIOUS
    <3> HIDE DEF k, list
    <3>3. list[k].conf > 0
      BY <3>1, <3>2 DEF AddRobot
    <3> QED BY <3>1, <3>3 DEF k
  <2> QED BY <2>1
<1>7. \A i, j \in S : i < j => p[i] < p[j]
  <2>1. \A j \in its : Place(robots, j) = Rank(its, j)
    BY DEF Place, Items, IsFor
  <2>2. \A i, j \in its : i < j => Rank(its, i) < Rank(its, j)
    <3> HIDE DEF its
    <3> QED BY <1>5, RanksCount
  <2> HIDE DEF its
  <2> QED BY <2>1, <2>2
<1>8. \A t \in T : \E i \in S : p[i] = t
  <2> SUFFICES ASSUME NEW t \in T PROVE \E i \in S : p[i] = t
    OBVIOUS
  <2>1. PICK j \in its : /\ Place(robots, j) = t
                        /\ robots[j] = AddRobot(list[t], c, team)
    BY <1>4
  <2>2. j \in S
    BY <2>1 DEF AddRobot
  <2> QED BY <2>1, <2>2
<1>9. /\ Cardinality(T) = Cardinality(S)
      /\ \A k \in 1 .. Cardinality(S) :
            NthOf(S, k) \in S /\ NthOf(T, k) = p[NthOf(S, k)]
  <2> HIDE DEF S, T, p, mine, sure
  <2>1. KeepsOrder(p, S, T)
    BY <1>5, <1>6, <1>7, <1>8 DEF KeepsOrder
  <2> QED BY <2>1, SamePlaces
<1>10. ASSUME NEW k \in 1 .. Cardinality(S)
       PROVE  <<mine[k].label, mine[k].at>> = <<Label(sure[k]), sure[k].at>>
  <2>1. mine[k] = robots[NthOf(S, k)] /\ sure[k] = list[p[NthOf(S, k)]]
    <3> HIDE DEF S, T, p
    <3> QED BY <1>9 DEF Among
  <2>2. NthOf(S, k) \in S
    BY <1>9
  <2> HIDE DEF mine, sure
  <2>3. robots[NthOf(S, k)] = AddRobot(list[Place(robots, NthOf(S, k))], c, team)
    BY <1>3, <2>2
  <2>4. sure[k] = list[Place(robots, NthOf(S, k))]
    BY <2>1, <2>2
  <2>5. mine[k] = AddRobot(sure[k], c, team)
    BY <2>1, <2>3, <2>4
  <2> QED BY <2>5 DEF AddRobot
<1>11. DOMAIN mine = 1 .. Cardinality(S) /\ DOMAIN sure = 1 .. Cardinality(S)
  BY <1>9 DEF Among
<1>12. Visible(c, team) = [k \in DOMAIN mine |-> <<mine[k].label, mine[k].at>>]
  BY DEF Visible
<1>13. Reported(c, team) = [k \in DOMAIN sure |-> <<Label(sure[k]), sure[k].at>>]
  BY DEF Reported, Sure
<1> HIDE DEF mine, sure, S
<1> QED BY <1>10, <1>11, <1>12, <1>13

(* However packets are lost, repeated and reordered, for any cameras and   *)
(* detections: the robots and balls on the scene are those of the last     *)
(* detection of each camera, in its order, the items stay as few as one    *)
(* detection needs, and the field's lines join, for any length.            *)
THEOREM ViewSafety == ViewSpec => []ViewFollowsDetections
<1>1. ViewInv => ItemsAreBounded
  BY DEF ViewInv, Needed, Count, ItemsAreBounded
<1>2. ASSUME ViewInv PROVE FieldIsClosed
  <2>1. fieldLength \in Nat
    BY <1>2 DEF ViewInv
  <2> DEFINE l == fieldLength
             marks == ConstructField(l)
  <2> HIDE DEF l
  <2>2. ASSUME NEW s \in FieldSides, NEW t \in FieldSides
        PROVE  LET arc == DefenseArc(l, s, t)
               IN  /\ OnArc(arc, arc.start) = arc.from
                   /\ arc.from = <<s * (l - 1000), t * 350>>
                   /\ OnArc(arc, arc.start + arc.sweep)[1] \in {-l, l}
    <3> DEFINE arc == DefenseArc(l, s, t)
    <3>1. l \in Nat
      BY <2>1 DEF l
    <3>2. CASE s = 1 /\ t = 1
      <4>1. arc = [from |-> <<l - 1000, 350>>, x |-> l - 1000, y |-> -650,
                   size |-> 2000, start |-> 180, sweep |-> 90]
        BY <3>1, <3>2 DEF DefenseArc, defense_radius, defense_stretch
      <4> QED BY <3>1, <3>2, <4>1 DEF OnArc
    <3>3. CASE s = 1 /\ t = -1
      <4>1. arc = [from |-> <<l - 1000, -350>>, x |-> l - 1000, y |-> -1350,
                   size |-> 2000, start |-> 180, sweep |-> -90]
        BY <3>1, <3>3 DEF DefenseArc, defense_radius, defense_stretch
      <4> QED BY <3>1, <3>3, <4>1 DEF OnArc
    <3>4. CASE s = -1 /\ t = 1
      <4>1. arc = [from |-> <<-(l - 1000), 350>>, x |-> -(l + 1000),
                   y |-> -650, size |-> 2000, start |-> 0, sweep |-> -90]
        BY <3>1, <3>4 DEF DefenseArc, defense_radius, defense_stretch
      <4> QED BY <3>1, <3>4, <4>1 DEF OnArc
    <3>5. CASE s = -1 /\ t = -1
      <4>1. arc = [from |-> <<-(l - 1000), -350>>, x |-> -(l + 1000),
                   y |-> -1350, size |-> 2000, start |-> 0, sweep |-> 90]
        BY <3>1, <3>5 DEF DefenseArc, defense_radius, defense_stretch
      <4> QED BY <3>1, <3>5, <4>1 DEF OnArc
    <3> QED BY <3>2, <3>3, <3>4, <3>5 DEF FieldSides
  <2>3. ASSUME NEW s \in FieldSides, NEW t \in FieldSides
        PROVE  \E line \in marks.lines : <<s * (l - 1000), t * 350>> \in line
    <3> DEFINE line == {<<s * (l - 1000), -350>>, <<s * (l - 1000), 350>>}
    <3>1. line \in marks.lines
      BY DEF ConstructField, defense_radius, defense_stretch
    <3>2. t * 350 \in {-350, 350}
      BY DEF FieldSides
    <3>3. <<s * (l - 1000), t * 350>> \in line
      BY <3>2
    <3> QED BY <3>1, <3>3
  <2>4. marks.arcs = {DefenseArc(l, s, t) : s \in FieldSides, t \in FieldSides}
    BY DEF ConstructField
  <2> HIDE DEF marks
  <2> DEFINE Closed(arc) ==
               /\ OnArc(arc, arc.start) = arc.from
               /\ \E line \in marks.lines : arc.from \in line
               /\ OnArc(arc, arc.start + arc.sweep)[1] \in {-l, l}
  <2>5. ASSUME NEW s \in FieldSides, NEW t \in FieldSides
        PROVE  Closed(DefenseArc(l, s, t))
    <3> DEFINE arc == DefenseArc(l, s, t)
    <3>1. /\ OnArc(arc, arc.start) = arc.from
          /\ arc.from = <<s * (l - 1000), t * 350>>
          /\ OnArc(arc, arc.start + arc.sweep)[1] \in {-l, l}
      BY <2>2
    <3>2. \E line \in marks.lines : <<s * (l - 1000), t * 350>> \in line
      BY <2>3
    <3>3. \E line \in marks.lines : arc.from \in line
      BY <3>1, <3>2
    <3> HIDE DEF arc
    <3> QED BY <3>1, <3>3 DEF arc
  <2> HIDE DEF Closed
  <2>6. \A arc \in marks.arcs : Closed(arc)
    BY <2>4, <2>5
  <2> QED BY <2>6 DEF FieldIsClosed, Closed, marks, l
<1>3. ViewInv /\ BallsFollow => ShowsLastDetection
  BY RobotsAreReported DEF BallsFollow, ShowsLastDetection
<1>4. ViewInv /\ BallsFollow => ViewFollowsDetections
  BY <1>1, <1>2, <1>3 DEF ViewFollowsDetections
<1> QED BY <1>4, BallsAreReported, ViewInitially, ViewStep, PTL DEF ViewSpec

(***************************************************************************)
(* XmlNodes: nodes of the XML parser and the handles of them.  The places  *)
(* of a node are an order of its contents; the children of a node are      *)
(* those whose parent it is, each once; a count is that of the handles and *)
(* of the parent.                                                          *)
(***************************************************************************)
(* InsertAt and RemoveAt, element by element.                              *)
IsInserted(w, s, q, e) ==
    /\ Len(w) = Len(s) + 1
    /\ \A k \in 1..(Len(s) + 1) :
          w[k] = IF k < q THEN s[k] ELSE IF k = q THEN e ELSE s[k - 1]
IsRemoved(w, s, r) ==
    /\ Len(w) = Len(s) - 1
    /\ \A k \in 1..(Len(s) - 1) : w[k] = IF k < r THEN s[k] ELSE s[k + 1]

(* What InsertAt() makes of a sequence, element by element.                 *)
LEMMA InsertedIs ==
  ASSUME NEW S, NEW s \in Seq(S), NEW e \in S, NEW q \in 1..(Len(s) + 1)
  PROVE  /\ InsertAt(s, q, e) \in Seq(S)
         /\ IsInserted(InsertAt(s, q, e), s, q, e)
<1> DEFINE a == SubSeq(s, 1, q - 1)
           b == SubSeq(s, q, Len(s))
<1>1. Len(s) \in Nat /\ q \in Nat
  BY LenProperties
<1>2. /\ a \in Seq(S) /\ Len(a) = q - 1
      /\ \A k \in 1..(q - 1) : a[k] = s[k]
  BY <1>1, SubSeqProperties
<1>3. /\ b \in Seq(S) /\ Len(b) = Len(s) - q + 1
      /\ \A k \in 1..(Len(s) - q + 1) : b[k] = s[q + k - 1]
  BY <1>1, SubSeqProperties
<1>4. InsertAt(s, q, e) = a \o <<e>> \o b
  BY DEF InsertAt
<1> HIDE DEF a, b
<1>5. <<e>> \in Seq(S) /\ Len(<<e>>) = 1 /\ <<e>>[1] = e
  OBVIOUS
<1>6. /\ a \o <<e>> \in Seq(S) /\ Len(a \o <<e>>) = q
      /\ \A k \in 1..q : (a \o <<e>>)[k] = IF k < q THEN s[k] ELSE e
  BY <1>1, <1>2, <1>5
<1> DEFINE c == a \o <<e>>
<1> HIDE DEF c
<1>7. /\ c \in Seq(S) /\ Len(c) = q
      /\ \A k \in 1..q : c[k] = IF k < q THEN s[k] ELSE e
  BY <1>6 DEF c
<1>8. InsertAt(s, q, e) = c \o b
  BY <1>4 DEF c
<1>9. /\ c \o b \in Seq(S) /\ Len(c \o b) = Len(c) + Len(b)
      /\ \A k \in 1..(Len(c) + Len(b)) : (c \o b)[k] =
            IF k <= Len(c) THEN c[k] ELSE b[k - Len(c)]
  BY <1>3, <1>7, ConcatProperties
<1> DEFINE w == c \o b
<1> HIDE DEF w
<1>0. /\ w \in Seq(S) /\ Len(w) = Len(s) + 1 /\ InsertAt(s, q, e) = w
      /\ \A k \in 1..(Len(s) + 1) : w[k] =
            IF k <= q THEN c[k] ELSE b[k - q]
  <2>1. Len(c) + Len(b) = Len(s) + 1
    BY <1>1, <1>3, <1>7
  <2> QED
    BY <1>7, <1>8, <1>9, <2>1 DEF w
<1>10. ASSUME NEW k \in 1..(Len(s) + 1), k > q
       PROVE  b[k - q] = s[k - 1]
  <2>1. k - q \in 1..(Len(s) - q + 1) /\ q + (k - q) - 1 = k - 1
    BY <1>1, <1>10
  <2> QED
    BY <1>3, <2>1
<1>11. ASSUME NEW k \in 1..(Len(s) + 1)
       PROVE  w[k] =
                 IF k < q THEN s[k] ELSE IF k = q THEN e ELSE s[k - 1]
  <2>1. CASE k <= q
    <3>1. k \in 1..q /\ w[k] = c[k]
      BY <1>0, <1>1, <2>1
    <3>2. c[k] = IF k < q THEN s[k] ELSE e
      BY <1>7, <3>1
    <3> QED
      BY <1>1, <2>1, <3>1, <3>2
  <2>2. CASE k > q
    BY <1>0, <1>1, <1>10, <2>2
  <2> QED
    BY <1>1, <2>1, <2>2
<1> QED
  BY <1>0, <1>11 DEF IsInserted

(* What RemoveAt() makes of a sequence, element by element.                 *)
LEMMA RemovedIs ==
  ASSUME NEW S, NEW s \in Seq(S), NEW r \in 1..Len(s)
  PROVE  /\ RemoveAt(s, r) \in Seq(S)
         /\ IsRemoved(RemoveAt(s, r), s, r)
<1> DEFINE a == SubSeq(s, 1, r - 1)
           b == SubSeq(s, r + 1, Len(s))
<1>1. Len(s) \in Nat /\ r \in Nat
  BY LenProperties
<1>2. /\ a \in Seq(S) /\ Len(a) = r - 1
      /\ \A k \in 1..(r - 1) : a[k] = s[k]
  BY <1>1, SubSeqProperties
<1>3. /\ b \in Seq(S) /\ Len(b) = Len(s) - r
      /\ \A k \in 1..(Len(s) - r) : b[k] = s[r + k]
  <2>1. r + 1 \in 1..(Len(s) + 1)
    BY <1>1
  <2>2. /\ b \in Seq(S)
        /\ Len(b) = IF r + 1 <= Len(s) THEN Len(s) - (r + 1) + 1 ELSE 0
        /\ \A k \in 1..(Len(s) - (r + 1) + 1) : b[k] = s[(r + 1) + k - 1]
    BY <1>1, <2>1, SubSeqProperties
  <2> HIDE DEF b
  <2>3. Len(b) = Len(s) - r
    <3>1. r < Len(s) \/ r = Len(s)
      BY ONLY <1>1, r \in 1..Len(s)
    <3> QED
      BY ONLY <1>1, <2>2, <3>1
  <2>4. ASSUME NEW k \in 1..(Len(s) - r) PROVE b[k] = s[r + k]
    <3>1. k \in 1..(Len(s) - (r + 1) + 1) /\ (r + 1) + k - 1 = r + k
      BY <1>1
    <3> QED
      BY <2>2, <3>1
  <2> QED
    BY <2>2, <2>3, <2>4
<1>4. RemoveAt(s, r) = a \o b
  BY DEF RemoveAt
<1> HIDE DEF a, b
<1>5. /\ a \o b \in Seq(S) /\ Len(a \o b) = Len(a) + Len(b)
      /\ \A k \in 1..(Len(a) + Len(b)) : (a \o b)[k] =
            IF k <= Len(a) THEN a[k] ELSE b[k - Len(a)]
  BY <1>2, <1>3, ConcatProperties
<1> DEFINE w == a \o b
<1> HIDE DEF w
<1>0. /\ w \in Seq(S) /\ Len(w) = Len(s) - 1 /\ RemoveAt(s, r) = w
      /\ \A k \in 1..(Len(s) - 1) : w[k] =
            IF k <= r - 1 THEN a[k] ELSE b[k - (r - 1)]
  <2>1. Len(a) + Len(b) = Len(s) - 1
    BY <1>1, <1>2, <1>3
  <2> QED
    BY <1>2, <1>4, <1>5, <2>1 DEF w
<1>6. ASSUME NEW k \in 1..(Len(s) - 1), k >= r
      PROVE  b[k - (r - 1)] = s[k + 1]
  <2>1. k - (r - 1) \in 1..(Len(s) - r) /\ r + (k - (r - 1)) = k + 1
    BY <1>1, <1>6
  <2> QED
    BY <1>3, <2>1
<1>7. ASSUME NEW k \in 1..(Len(s) - 1)
      PROVE  w[k] = IF k < r THEN s[k] ELSE s[k + 1]
  <2>1. CASE k < r
    <3>1. k \in 1..(r - 1) /\ w[k] = a[k]
      BY <1>0, <1>1, <2>1
    <3> QED
      BY <1>2, <2>1, <3>1
  <2>2. CASE k >= r
    BY <1>0, <1>1, <1>6, <2>2
  <2> QED
    BY <1>1, <2>1, <2>2
<1> QED
  BY <1>0, <1>7 DEF IsRemoved

NodePlaces == [kind : NodeKinds, index : Nat]
Contents == Nodes \cup Strings
NodeItems == [NodeKinds -> Seq(Contents)]

(* An order o of the contents in the arrays t: every place is filled, those *)
(* of a kind ascend, and there is one for everything in the array.          *)
Reaches(o, t) == \A k \in 1..Len(o) : o[k].index < Len(t[o[k].kind])
Ascends(o) == \A j, k \in 1..Len(o) :
                 j < k /\ o[j].kind = o[k].kind => o[j].index < o[k].index
Covers(o, t) == \A kind \in NodeKinds : \A i \in 0..(Len(t[kind]) - 1) :
                   \E k \in 1..Len(o) : o[k].kind = kind /\ o[k].index = i
Ordered(o, t) == Reaches(o, t) /\ Ascends(o) /\ Covers(o, t)

ContentShown(o, t) ==
    [k \in 1..Len(o) |-> Item(o[k].kind, t[o[k].kind][o[k].index + 1])]
ItemsShown == [kind : NodeKinds, what : Contents]

(* What is shown in an order is one content for each of its places.         *)
LEMMA ShownIs ==
  ASSUME NEW o \in Seq(NodePlaces), NEW t \in NodeItems, Ordered(o, t)
  PROVE  /\ ContentShown(o, t) \in Seq(ItemsShown)
         /\ Len(ContentShown(o, t)) = Len(o)
         /\ \A k \in 1..Len(o) :
               /\ ContentShown(o, t)[k].kind = o[k].kind
               /\ ContentShown(o, t)[k] =
                     Item(o[k].kind, t[o[k].kind][o[k].index + 1])
<1>1. ASSUME NEW k \in 1..Len(o)
      PROVE  Item(o[k].kind, t[o[k].kind][o[k].index + 1]) \in ItemsShown
  <2>0. o[k] \in NodePlaces
    BY LenProperties
  <2>1. o[k].kind \in NodeKinds /\ o[k].index \in Nat
    BY <2>0 DEF NodePlaces
  <2>2. t[o[k].kind] \in Seq(Contents)
    BY <2>1 DEF NodeItems
  <2>3. o[k].index + 1 \in 1..Len(t[o[k].kind])
    BY <2>1, <2>2 DEF Ordered, Reaches
  <2>4. t[o[k].kind][o[k].index + 1] \in Contents
    BY <2>2, <2>3, LenProperties
  <2> QED
    BY <2>1, <2>4 DEF Item, ItemsShown
<1>2. Len(o) \in Nat
  BY LenProperties
<1>3. ContentShown(o, t) \in [1..Len(o) -> ItemsShown]
  BY <1>1 DEF ContentShown
<1>4. ContentShown(o, t) \in Seq(ItemsShown) /\ Len(ContentShown(o, t)) = Len(o)
  BY <1>2, <1>3
<1>5. \A k \in 1..Len(o) : ContentShown(o, t)[k] =
         Item(o[k].kind, t[o[k].kind][o[k].index + 1])
  BY DEF ContentShown
<1> QED
  BY <1>4, <1>5 DEF Item

(* Something of a kind put in at q, the at-th of its kind: the later ones   *)
(* of the kind count one more.                                              *)
Later(place, kind) == IF place.kind = kind THEN PlaceOf(kind, place.index + 1)
                      ELSE place
IsPutIn(o, p, kind, q, at) ==
    /\ Len(p) = Len(o) + 1
    /\ \A k \in 1..(Len(o) + 1) : p[k] =
          IF k < q THEN o[k] ELSE IF k = q THEN PlaceOf(kind, at)
          ELSE Later(o[k - 1], kind)
FitsAt(o, kind, q, at) ==
    \A k \in 1..Len(o) : o[k].kind = kind => (k < q <=> o[k].index < at)

PutItem(t, kind, at, item) == [t EXCEPT ![kind] = InsertAt(@, at + 1, item)]

(* A content put into its array and given the right place in the order is   *)
(* put into what is shown, and nothing else moves.                          *)
LEMMA PutIn ==
  ASSUME NEW o \in Seq(NodePlaces), NEW t \in NodeItems, Ordered(o, t),
         NEW kind \in NodeKinds, NEW item \in Contents,
         NEW q \in 1..(Len(o) + 1), NEW at \in 0..Len(t[kind]),
         FitsAt(o, kind, q, at), NEW p, IsPutIn(o, p, kind, q, at),
         p \in Seq(NodePlaces),
         NEW u, u = PutItem(t, kind, at, item)
  PROVE  /\ u \in NodeItems
         /\ Ordered(p, u)
         /\ ContentShown(p, u) = InsertAt(ContentShown(o, t), q, Item(kind, item))
<1> DEFINE n == Len(o)
           count == Len(t[kind])
           Old(k) == IF k > q THEN k - 1 ELSE k
<1>1. /\ n \in Nat /\ q \in Nat /\ q >= 1 /\ q <= n + 1 /\ t[kind] \in Seq(Contents)
      /\ count \in Nat /\ at \in Nat /\ at <= count
  BY LenProperties DEF NodeItems
<1> DEFINE more == InsertAt(t[kind], at + 1, item)
<1>2. more \in Seq(Contents) /\ IsInserted(more, t[kind], at + 1, item)
  <2>1. at + 1 \in 1..(Len(t[kind]) + 1)
    BY <1>1
  <2> QED
    BY <1>1, <2>1, InsertedIs
<1>3. u = [t EXCEPT ![kind] = more]
  BY DEF PutItem
<1> HIDE DEF more
<1>4. /\ more \in Seq(Contents) /\ Len(more) = count + 1
      /\ \A k \in 1..(count + 1) : more[k] =
            IF k < at + 1 THEN t[kind][k] ELSE IF k = at + 1 THEN item
            ELSE t[kind][k - 1]
  BY <1>2 DEF IsInserted
<1>5. /\ u \in NodeItems /\ u[kind] = more
      /\ \A other \in NodeKinds : other # kind => u[other] = t[other]
  BY <1>3, <1>4 DEF NodeItems
<1>6. Len(p) = n + 1 /\ p[q].kind = kind /\ p[q].index = at
  BY <1>1 DEF IsPutIn, PlaceOf
<1> DEFINE Was(k) == o[Old(k)].index
           WasKind(k) == o[Old(k)].kind
           Is(k) == p[k].index
           IsKind(k) == p[k].kind
<1>7. ASSUME NEW k \in 1..(n + 1), k # q
      PROVE  /\ Old(k) \in 1..n
             /\ WasKind(k) \in NodeKinds /\ IsKind(k) = WasKind(k)
             /\ Was(k) \in Nat
             /\ IsKind(k) # kind => Is(k) = Was(k)
             /\ IsKind(k) = kind /\ k < q => Is(k) = Was(k) /\ Was(k) < at
             /\ IsKind(k) = kind /\ k > q => Is(k) = Was(k) + 1 /\ Was(k) >= at
  <2>1. Old(k) \in 1..n /\ (k < q => Old(k) < q) /\ (k > q => Old(k) >= q)
    BY <1>1, <1>7
  <2>2. p[k] = IF k < q THEN o[Old(k)] ELSE Later(o[Old(k)], kind)
    BY <1>1, <1>7 DEF IsPutIn
  <2> DEFINE m == Old(k)
  <2> HIDE DEF Old
  <2>3. o[m] \in NodePlaces
    BY <2>1
  <2>4. o[m].kind \in NodeKinds /\ o[m].index \in Nat
    BY <2>3 DEF NodePlaces
  <2>5. p[k].kind = o[m].kind
    BY <2>2 DEF Later, PlaceOf
  <2>6. CASE p[k].kind # kind
    BY <2>1, <2>2, <2>4, <2>5, <2>6 DEF Later
  <2>7. CASE p[k].kind = kind /\ k < q
    <3>1. p[k] = o[m]
      BY <2>2, <2>7
    <3>2. m < q /\ m \in 1..n /\ o[m].kind = kind
      BY <2>1, <2>5, <2>7
    <3> HIDE DEF m
    <3>3. o[m].index < at
      BY <3>2 DEF FitsAt
    <3>4. ~(k > q)
      BY <1>1, <2>7
    <3> QED
      BY <2>1, <2>4, <2>5, <2>7, <3>1, <3>3, <3>4 DEF m
  <2>8. CASE p[k].kind = kind /\ k > q
    <3>1. p[k] = PlaceOf(kind, o[m].index + 1)
      BY <1>1, <2>2, <2>5, <2>8 DEF Later
    <3>2. m >= q /\ m \in 1..n /\ o[m].kind = kind
      BY <2>1, <2>5, <2>8
    <3> HIDE DEF m
    <3>3. ~(m < q)
      BY <1>1, <3>2
    <3>4. ~(o[m].index < at)
      BY <3>2, <3>3 DEF FitsAt
    <3>5. o[m].index >= at
      BY <1>1, <2>4, <3>4 DEF m
    <3>6. ~(k < q) /\ p[k].index = o[m].index + 1
      BY <1>1, <2>8, <3>1 DEF PlaceOf
    <3> QED
      BY <2>1, <2>4, <2>5, <2>8, <3>5, <3>6 DEF m
  <2> QED
    BY <1>1, <1>7, <2>6, <2>7, <2>8
<1>20. ASSUME NEW m \in 1..n
      PROVE  \E k \in 1..(n + 1) : k # q /\ Old(k) = m
  <2>1. CASE m < q
    BY <1>1, <2>1
  <2>2. CASE m >= q
    <3>1. m + 1 \in 1..(n + 1) /\ m + 1 # q /\ Old(m + 1) = m
      BY <1>1, <2>2
    <3> QED
      BY <3>1
  <2> QED
    BY <1>1, <2>1, <2>2
<1>21. \A j, k \in 1..(n + 1) : j < k /\ j # q /\ k # q => Old(j) < Old(k)
  BY <1>1
<1>22. \A m \in 1..n : /\ o[m].kind \in NodeKinds /\ o[m].index \in Nat
                       /\ o[m].index < Len(t[o[m].kind])
  <2> TAKE m \in 1..n
  <2>1. o[m] \in NodePlaces
    BY LenProperties
  <2> QED
    BY <2>1 DEF NodePlaces, Ordered, Reaches
<1>23. \A k \in 1..(n + 1) : k # q => Was(k) < Len(t[WasKind(k)])
  BY <1>7, <1>22
<1>24. \A j, k \in 1..(n + 1) :
         j < k /\ j # q /\ k # q /\ WasKind(j) = WasKind(k) => Was(j) < Was(k)
  <2> TAKE j, k \in 1..(n + 1)
  <2> HAVE j < k /\ j # q /\ k # q /\ WasKind(j) = WasKind(k)
  <2>1. Old(j) < Old(k) /\ Old(j) \in 1..n /\ Old(k) \in 1..n
    BY <1>7, <1>21
  <2> QED
    BY <2>1 DEF Ordered, Ascends
<1>25. ASSUME NEW other \in NodeKinds, NEW i \in 0..(Len(t[other]) - 1)
      PROVE  \E k \in 1..(n + 1) : k # q /\ WasKind(k) = other /\ Was(k) = i
  <2>1. PICK m \in 1..n : o[m].kind = other /\ o[m].index = i
    BY DEF Ordered, Covers
  <2> QED
    BY <1>20, <2>1
<1>26. Is(q) = at /\ IsKind(q) = kind /\ q \in 1..(n + 1)
  BY <1>1, <1>6
<1>27. /\ Len(u[kind]) = count + 1
       /\ \A other \in NodeKinds : Len(t[other]) \in Nat
       /\ \A other \in NodeKinds : other # kind => Len(u[other]) = Len(t[other])
  BY <1>4, <1>5, LenProperties DEF NodeItems
<1>28. \A k \in 1..(n + 1) : Is(k) < Len(u[IsKind(k)])
  <2> TAKE k \in 1..(n + 1)
  <2> HIDE DEF Is, IsKind, Was, WasKind, Old
  <2>1. CASE k = q
    BY <1>1, <1>26, <1>27, <2>1
  <2>2. CASE k # q /\ IsKind(k) # kind
    BY <1>7, <1>23, <1>27, <2>2
  <2>3. CASE k # q /\ IsKind(k) = kind
    <3>1. Was(k) < count /\ (Is(k) = Was(k) \/ Is(k) = Was(k) + 1) /\ Was(k) \in Nat
      BY <1>1, <1>7, <1>23, <2>3
    <3> HIDE DEF count
    <3> QED
      BY <1>1, <1>27, <2>3, <3>1
  <2> QED
    BY <2>1, <2>2, <2>3
<1>29. \A j, k \in 1..(n + 1) : j < k /\ IsKind(j) = IsKind(k) => Is(j) < Is(k)
  <2> TAKE j, k \in 1..(n + 1)
  <2> HAVE j < k /\ IsKind(j) = IsKind(k)
  <2> HIDE DEF Is, IsKind, Was, WasKind, Old
  <2>1. CASE j = q
    <3>1. k # q /\ k > q /\ IsKind(k) = kind
      BY <1>1, <1>26, <2>1
    <3> QED
      BY <1>1, <1>7, <1>26, <2>1, <3>1
  <2>2. CASE k = q
    <3>1. j # q /\ j < q /\ IsKind(j) = kind
      BY <1>1, <1>26, <2>2
    <3> QED
      BY <1>1, <1>7, <1>26, <2>2, <3>1
  <2>3. CASE j # q /\ k # q /\ IsKind(k) # kind
    BY <1>7, <1>24, <2>3
  <2>4. CASE j # q /\ k # q /\ IsKind(k) = kind
    <3>1. Was(j) < Was(k) /\ Was(j) \in Nat /\ Was(k) \in Nat
      BY <1>7, <1>24, <2>4
    <3>2. CASE k < q
      <4>1. j < q
        BY <1>1, <3>2
      <4> QED
        BY <1>7, <2>4, <3>1, <3>2, <4>1
    <3>3. CASE k > q
      <4>1. Is(k) = Was(k) + 1
        BY <1>7, <2>4, <3>3
      <4>2. Is(j) = Was(j) \/ Is(j) = Was(j) + 1
        BY <1>1, <1>7, <2>4
      <4> QED
        BY <3>1, <4>1, <4>2
    <3> QED
      BY <1>1, <2>4, <3>2, <3>3
  <2> QED
    BY <2>1, <2>2, <2>3, <2>4
<1>30. ASSUME NEW other \in NodeKinds, NEW i \in 0..(Len(u[other]) - 1)
      PROVE  \E k \in 1..(n + 1) : IsKind(k) = other /\ Is(k) = i
  <2> HIDE DEF Is, IsKind, Was, WasKind, Old
  <2>1. CASE other # kind
    <3>1. PICK k \in 1..(n + 1) : k # q /\ WasKind(k) = other /\ Was(k) = i
      BY <1>25, <1>27, <2>1
    <3> QED
      BY <1>7, <2>1, <3>1
  <2>2. CASE other = kind /\ i < at
    <3>0. i \in 0..(Len(t[kind]) - 1)
      BY <1>1, <2>2
    <3>1. PICK k \in 1..(n + 1) : k # q /\ WasKind(k) = kind /\ Was(k) = i
      BY <1>25, <3>0
    <3>2. IsKind(k) = kind /\ ~(k > q)
      BY <1>1, <1>7, <2>2, <3>1
    <3> QED
      BY <1>1, <1>7, <2>2, <3>1, <3>2
  <2>3. CASE other = kind /\ i = at
    BY <1>26, <2>3
  <2>4. CASE other = kind /\ i > at
    <3>0. i - 1 \in 0..(Len(t[kind]) - 1) /\ i - 1 >= at
      BY <1>1, <1>27, <2>4
    <3>1. PICK k \in 1..(n + 1) : k # q /\ WasKind(k) = kind /\ Was(k) = i - 1
      BY <1>25, <3>0
    <3>2. IsKind(k) = kind /\ ~(k < q)
      BY <1>1, <1>7, <3>0, <3>1
    <3>3. Is(k) = (i - 1) + 1
      BY <1>1, <1>7, <3>1, <3>2
    <3> QED
      BY <2>4, <3>2, <3>3
  <2> QED
    BY <1>1, <2>1, <2>2, <2>3, <2>4
<1>8. Reaches(p, u)
  BY <1>6, <1>28 DEF Reaches
<1>9. Ascends(p)
  BY <1>6, <1>29 DEF Ascends
<1>10. Covers(p, u)
  BY <1>6, <1>30 DEF Covers
<1>11. Ordered(p, u)
  BY <1>8, <1>9, <1>10 DEF Ordered
<1>12. ContentShown(p, u) = InsertAt(ContentShown(o, t), q, Item(kind, item))
  <2> DEFINE s == ContentShown(o, t)
             new == Item(kind, item)
  <2>1. /\ s \in Seq(ItemsShown) /\ Len(s) = n
        /\ \A k \in 1..n : s[k] =
              Item(o[k].kind, t[o[k].kind][o[k].index + 1])
    BY ShownIs
  <2>2. /\ ContentShown(p, u) \in Seq(ItemsShown) /\ Len(ContentShown(p, u)) = n + 1
        /\ \A k \in 1..(n + 1) : ContentShown(p, u)[k] =
              Item(p[k].kind, u[p[k].kind][p[k].index + 1])
    <3>1. /\ ContentShown(p, u) \in Seq(ItemsShown) /\ Len(ContentShown(p, u)) = Len(p)
          /\ \A k \in 1..Len(p) : ContentShown(p, u)[k] =
                Item(p[k].kind, u[p[k].kind][p[k].index + 1])
      BY <1>5, <1>11, ShownIs
    <3> QED
      BY <1>6, <3>1
  <2>3. new \in ItemsShown
    BY DEF Item, ItemsShown
  <2> HIDE DEF s, new
  <2>4. /\ InsertAt(s, q, new) \in Seq(ItemsShown)
        /\ Len(InsertAt(s, q, new)) = n + 1
        /\ \A k \in 1..(n + 1) : InsertAt(s, q, new)[k] =
              IF k < q THEN s[k] ELSE IF k = q THEN new ELSE s[k - 1]
    <3>1. InsertAt(s, q, new) \in Seq(ItemsShown)
          /\ IsInserted(InsertAt(s, q, new), s, q, new)
      <4>1. q \in 1..(Len(s) + 1)
        BY <2>1
      <4> QED
        BY <2>1, <2>3, <4>1, InsertedIs
    <3> QED
      BY <2>1, <3>1 DEF IsInserted
  <2> HIDE DEF n, count
  <2>5. ASSUME NEW k \in 1..(n + 1)
        PROVE  ContentShown(p, u)[k] = InsertAt(s, q, new)[k]
    <3>1. ContentShown(p, u)[k] = Item(IsKind(k), u[IsKind(k)][Is(k) + 1])
      BY <2>2
    <3>2. CASE k = q
      <4>1. at + 1 \in 1..(count + 1) /\ ~(at + 1 < at + 1)
        BY <1>1
      <4>2. u[kind][at + 1] = item
        BY <1>4, <1>5, <4>1
      <4>3. InsertAt(s, q, new)[k] = new
        BY <1>1, <2>4, <3>2
      <4> HIDE DEF Is, IsKind
      <4> QED
        BY <1>26, <3>1, <3>2, <4>2, <4>3 DEF new
    <3>3. CASE k # q
      <4>1. InsertAt(s, q, new)[k] = s[Old(k)]
        <5>1. /\ k < q \/ (k > q /\ ~(k < q))
          BY ONLY <1>1, <3>3, k \in 1..(n + 1)
        <5>2. InsertAt(s, q, new)[k] = IF k < q THEN s[k] ELSE s[k - 1]
          BY <2>4, <3>3
        <5>3. Old(k) = IF k < q THEN k ELSE k - 1
          BY <5>1
        <5> HIDE DEF Old
        <5> QED
          BY <5>2, <5>3
      <4>2. s[Old(k)] = Item(WasKind(k), t[WasKind(k)][Was(k) + 1])
        BY <1>7, <2>1, <3>3
      <4> HIDE DEF Is, IsKind, Was, WasKind, Old
      <4>3. u[IsKind(k)][Is(k) + 1] = t[WasKind(k)][Was(k) + 1]
        <5>1. CASE IsKind(k) # kind
          BY <1>5, <1>7, <3>3, <5>1
        <5>2. CASE IsKind(k) = kind /\ k < q
          <6>0. Is(k) = Was(k) /\ Was(k) < at /\ Was(k) \in Nat
            BY <1>7, <3>3, <5>2
          <6>1. /\ Is(k) = Was(k) /\ Was(k) + 1 < at + 1
                /\ Was(k) + 1 \in 1..(count + 1)
            BY ONLY <1>1, <6>0
          <6> QED
            BY <1>4, <1>5, <1>7, <3>3, <5>2, <6>1
        <5>3. CASE IsKind(k) = kind /\ k > q
          <6>0. Was(k) < count /\ Was(k) \in Nat /\ Was(k) >= at /\ Is(k) = Was(k) + 1
            BY <1>7, <1>23, <3>3, <5>3 DEF count
          <6>1. /\ Is(k) + 1 \in 1..(count + 1)
                /\ ~(Is(k) + 1 < at + 1) /\ Is(k) + 1 # at + 1
                /\ (Is(k) + 1) - 1 = Was(k) + 1
            BY <1>1, <6>0
          <6> QED
            BY <1>4, <1>5, <1>7, <3>3, <5>3, <6>1
        <5> QED
          BY <1>1, <3>3, <5>1, <5>2, <5>3
      <4> QED
        BY <1>7, <3>1, <3>3, <4>1, <4>2, <4>3
    <3> QED
      BY <3>2, <3>3
  <2>6. ContentShown(p, u) = InsertAt(s, q, new)
    BY <2>2, <2>4, <2>5, SeqEqual
  <2> QED
    BY <2>6 DEF s, new
<1> QED
  BY <1>5, <1>11, <1>12

(* The place r of a kind taken out, with what it is the place of: the later *)
(* ones of the kind count one less.                                         *)
Earlier(place, kind) == IF place.kind = kind THEN PlaceOf(kind, place.index - 1)
                        ELSE place
TakenOut(o, kind, r) ==
    [k \in 1..(Len(o) - 1) |-> IF k < r THEN o[k] ELSE Earlier(o[k + 1], kind)]

TakenItems(t, kind, at) == [t EXCEPT ![kind] = RemoveAt(@, at + 1)]

(* A content taken from its array, with its place taken from the order, is  *)
(* taken from what is shown, and nothing else moves.                        *)
LEMMA TakeOut ==
  ASSUME NEW o \in Seq(NodePlaces), NEW t \in NodeItems, Ordered(o, t),
         NEW kind \in NodeKinds, NEW r \in 1..Len(o),
         NEW at \in Nat, o[r].kind = kind, o[r].index = at,
         NEW p, p = TakenOut(o, kind, r),
         NEW u, u = TakenItems(t, kind, at)
  PROVE  /\ u \in NodeItems
         /\ p \in Seq(NodePlaces)
         /\ Len(p) = Len(o) - 1
         /\ Ordered(p, u)
         /\ ContentShown(p, u) = RemoveAt(ContentShown(o, t), r)
<1> DEFINE n == Len(o)
           count == Len(t[kind])
           Old(k) == IF k < r THEN k ELSE k + 1
           Was(k) == o[Old(k)].index
           WasKind(k) == o[Old(k)].kind
           Is(k) == p[k].index
           IsKind(k) == p[k].kind
           less == RemoveAt(t[kind], at + 1)
<1>1. \A m \in 1..n : /\ o[m].kind \in NodeKinds /\ o[m].index \in Nat
                      /\ o[m].index < Len(t[o[m].kind])
  <2> TAKE m \in 1..n
  <2>1. o[m] \in NodePlaces
    BY LenProperties
  <2> QED
    BY <2>1 DEF NodePlaces, Ordered, Reaches
<1>2. /\ n \in Nat /\ r \in Nat /\ r >= 1 /\ r <= n /\ t[kind] \in Seq(Contents)
      /\ count \in Nat /\ at < count
  BY <1>1, LenProperties DEF NodeItems
<1>3. less \in Seq(Contents) /\ IsRemoved(less, t[kind], at + 1)
  <2>1. at + 1 \in 1..Len(t[kind])
    BY <1>2
  <2> QED
    BY <1>2, <2>1, RemovedIs
<1>4. u = [t EXCEPT ![kind] = less]
  BY DEF TakenItems
<1> HIDE DEF less
<1>5. /\ less \in Seq(Contents) /\ Len(less) = count - 1
      /\ \A k \in 1..(count - 1) :
            less[k] = IF k < at + 1 THEN t[kind][k] ELSE t[kind][k + 1]
  BY <1>3 DEF IsRemoved
<1>6. /\ u \in NodeItems /\ u[kind] = less
      /\ \A other \in NodeKinds : other # kind => u[other] = t[other]
  BY <1>4, <1>5 DEF NodeItems
<1>7. ASSUME NEW k \in 1..(n - 1)
      PROVE  /\ Old(k) \in 1..n
             /\ WasKind(k) \in NodeKinds /\ IsKind(k) = WasKind(k)
             /\ Was(k) \in Nat /\ p[k] \in NodePlaces
             /\ IsKind(k) # kind => Is(k) = Was(k)
             /\ IsKind(k) = kind /\ k < r => Is(k) = Was(k) /\ Was(k) < at
             /\ IsKind(k) = kind /\ k >= r => Is(k) = Was(k) - 1 /\ Was(k) > at
  <2>1. Old(k) \in 1..n /\ (k < r => Old(k) < r) /\ (k >= r => r < Old(k))
    BY <1>2, <1>7
  <2>2. p[k] = IF k < r THEN o[Old(k)] ELSE Earlier(o[Old(k)], kind)
    BY <1>2, <1>7 DEF TakenOut
  <2> DEFINE m == Old(k)
  <2> HIDE DEF Old
  <2>3. o[m] \in NodePlaces
    BY <2>1
  <2>4. o[m].kind \in NodeKinds /\ o[m].index \in Nat
    BY <2>3 DEF NodePlaces
  <2>5. p[k].kind = o[m].kind
    BY <2>2 DEF Earlier, PlaceOf
  <2>6. CASE p[k].kind # kind
    BY <2>1, <2>2, <2>3, <2>4, <2>5, <2>6 DEF Earlier
  <2>7. CASE p[k].kind = kind /\ k < r
    <3>1. p[k] = o[m]
      BY <2>2, <2>7
    <3>2. m < r /\ m \in 1..n /\ o[m].kind = o[r].kind
      BY <2>1, <2>5, <2>7
    <3> HIDE DEF m
    <3>3. o[m].index < at
      BY <3>2 DEF Ordered, Ascends
    <3>4. ~(k >= r)
      BY <1>2, <2>7
    <3> QED
      BY <2>1, <2>3, <2>4, <2>5, <2>7, <3>1, <3>3, <3>4 DEF m
  <2>8. CASE p[k].kind = kind /\ k >= r
    <3>1. p[k] = PlaceOf(kind, o[m].index - 1)
      BY <1>2, <2>2, <2>5, <2>8 DEF Earlier
    <3>2. r < m /\ m \in 1..n /\ o[m].kind = o[r].kind
      BY <2>1, <2>5, <2>8
    <3> HIDE DEF m
    <3>3. at < o[m].index
      BY <3>2 DEF Ordered, Ascends
    <3>4. o[m].index \in Nat
      BY <2>4 DEF m
    <3>5. o[m].index > at /\ o[m].index - 1 \in Nat
      BY <3>3, <3>4
    <3>6. ~(k < r) /\ p[k].index = o[m].index - 1 /\ p[k] \in NodePlaces
      BY <1>2, <2>8, <3>1, <3>5 DEF PlaceOf, NodePlaces
    <3> QED
      BY <2>1, <2>4, <2>5, <2>8, <3>5, <3>6 DEF m
  <2> QED
    BY <1>2, <1>7, <2>6, <2>7, <2>8
<1>8. p \in Seq(NodePlaces) /\ Len(p) = n - 1
  <2>1. n - 1 \in Nat
    BY <1>2
  <2>2. p \in [1..(n - 1) -> NodePlaces]
    <3>1. p = [k \in 1..(n - 1) |-> p[k]]
      BY DEF TakenOut
    <3> HIDE DEF n
    <3> QED
      BY <1>7, <3>1
  <2> HIDE DEF n
  <2> QED
    BY <2>1, <2>2
<1>9. ASSUME NEW m \in 1..n, m # r
      PROVE  \E k \in 1..(n - 1) : Old(k) = m
  <2>1. CASE m < r
    <3>1. m \in 1..(n - 1) /\ Old(m) = m
      BY <1>2, <2>1
    <3> QED
      BY <3>1
  <2>2. CASE m > r
    <3>1. m - 1 \in 1..(n - 1) /\ Old(m - 1) = m
      BY <1>2, <2>2
    <3> QED
      BY <3>1
  <2> QED
    BY <1>2, <1>9, <2>1, <2>2
<1>10. \A j, k \in 1..(n - 1) : j < k => Old(j) < Old(k)
  BY <1>2
<1>11. \A k \in 1..(n - 1) : Was(k) < Len(t[WasKind(k)])
  BY <1>1, <1>7
<1>12. \A j, k \in 1..(n - 1) :
          j < k /\ WasKind(j) = WasKind(k) => Was(j) < Was(k)
  <2> TAKE j, k \in 1..(n - 1)
  <2> HAVE j < k /\ WasKind(j) = WasKind(k)
  <2>1. Old(j) < Old(k) /\ Old(j) \in 1..n /\ Old(k) \in 1..n
    BY <1>7, <1>10
  <2> QED
    BY <2>1 DEF Ordered, Ascends
<1>13. ASSUME NEW other \in NodeKinds, NEW i \in 0..(Len(t[other]) - 1),
              other # kind \/ i # at
       PROVE  \E k \in 1..(n - 1) : WasKind(k) = other /\ Was(k) = i
  <2>1. PICK m \in 1..n : o[m].kind = other /\ o[m].index = i
    BY DEF Ordered, Covers
  <2>2. m # r
    BY <1>13, <2>1
  <2> QED
    BY <1>9, <2>1, <2>2
<1>14. /\ Len(u[kind]) = count - 1
       /\ \A other \in NodeKinds : Len(t[other]) \in Nat
       /\ \A other \in NodeKinds : other # kind => Len(u[other]) = Len(t[other])
  BY <1>5, <1>6, LenProperties DEF NodeItems
<1>15. \A k \in 1..(n - 1) : Is(k) < Len(u[IsKind(k)])
  <2> TAKE k \in 1..(n - 1)
  <2> HIDE DEF Is, IsKind, Was, WasKind, Old
  <2>1. CASE IsKind(k) # kind
    BY <1>7, <1>11, <1>14, <2>1
  <2>2. CASE IsKind(k) = kind
    <3>1. /\ Was(k) < count /\ Was(k) \in Nat
          /\ \/ Is(k) = Was(k) /\ Was(k) < at
             \/ Is(k) = Was(k) - 1
      BY <1>2, <1>7, <1>11, <2>2
    <3>2. Len(u[IsKind(k)]) = count - 1
      BY <1>14, <2>2
    <3> HIDE DEF count
    <3> QED
      BY <1>2, <3>1, <3>2
  <2> QED
    BY <2>1, <2>2
<1>16. \A j, k \in 1..(n - 1) :
          j < k /\ IsKind(j) = IsKind(k) => Is(j) < Is(k)
  <2> TAKE j, k \in 1..(n - 1)
  <2> HAVE j < k /\ IsKind(j) = IsKind(k)
  <2> HIDE DEF Is, IsKind, Was, WasKind, Old
  <2>1. Was(j) < Was(k) /\ Was(j) \in Nat /\ Was(k) \in Nat
    BY <1>7, <1>12
  <2>2. CASE IsKind(k) # kind
    BY <1>7, <2>1, <2>2
  <2>3. CASE IsKind(k) = kind /\ k < r
    <3>1. j < r
      BY <1>2, <2>3
    <3> QED
      BY <1>7, <2>1, <2>3, <3>1
  <2>4. CASE IsKind(k) = kind /\ k >= r
    <3>1. Is(k) = Was(k) - 1 /\ Was(k) > at
      BY <1>7, <2>4
    <3>2. \/ Is(j) = Was(j) /\ Was(j) < at
          \/ Is(j) = Was(j) - 1
      BY <1>2, <1>7, <2>4
    <3> QED
      BY <1>2, <2>1, <3>1, <3>2
  <2> QED
    BY <1>2, <2>2, <2>3, <2>4
<1>17. ASSUME NEW other \in NodeKinds, NEW i \in 0..(Len(u[other]) - 1)
       PROVE  \E k \in 1..(n - 1) : IsKind(k) = other /\ Is(k) = i
  <2> HIDE DEF Is, IsKind, Was, WasKind, Old
  <2>1. CASE other # kind
    <3>1. PICK k \in 1..(n - 1) : WasKind(k) = other /\ Was(k) = i
      BY <1>13, <1>14, <2>1
    <3> QED
      BY <1>7, <2>1, <3>1
  <2>2. CASE other = kind /\ i < at
    <3>0. i \in 0..(Len(t[kind]) - 1) /\ i # at
      BY <1>2, <2>2
    <3>1. PICK k \in 1..(n - 1) : WasKind(k) = kind /\ Was(k) = i
      BY <1>13, <3>0
    <3>2. IsKind(k) = kind /\ ~(k >= r)
      BY <1>2, <1>7, <2>2, <3>1
    <3> QED
      BY <1>2, <1>7, <2>2, <3>1, <3>2
  <2>3. CASE other = kind /\ i >= at
    <3>0. i + 1 \in 0..(Len(t[kind]) - 1) /\ i + 1 # at /\ i + 1 > at
      BY <1>2, <1>14, <2>3
    <3>1. PICK k \in 1..(n - 1) : WasKind(k) = kind /\ Was(k) = i + 1
      BY <1>13, <3>0
    <3>2. IsKind(k) = kind /\ ~(k < r)
      BY <1>2, <1>7, <3>0, <3>1
    <3>3. Is(k) = (i + 1) - 1
      BY <1>2, <1>7, <3>1, <3>2
    <3> QED
      BY <2>3, <3>2, <3>3
  <2> QED
    BY <1>2, <2>1, <2>2, <2>3
<1>18. Reaches(p, u)
  BY <1>8, <1>15 DEF Reaches
<1>19. Ascends(p)
  BY <1>8, <1>16 DEF Ascends
<1>20. Covers(p, u)
  <2> SUFFICES ASSUME NEW other \in NodeKinds,
                      NEW i \in 0..(Len(u[other]) - 1)
               PROVE  \E k \in 1..(n - 1) : p[k].kind = other /\ p[k].index = i
    <3>1. Len(p) = n - 1
      BY <1>8
    <3> HIDE DEF n
    <3> QED
      BY <3>1 DEF Covers
  <2> QED
    BY <1>17
<1>21. Ordered(p, u)
  BY <1>18, <1>19, <1>20 DEF Ordered
<1>22. ContentShown(p, u) = RemoveAt(ContentShown(o, t), r)
  <2> DEFINE s == ContentShown(o, t)
  <2>1. /\ s \in Seq(ItemsShown) /\ Len(s) = n
        /\ \A k \in 1..n : s[k] =
              Item(o[k].kind, t[o[k].kind][o[k].index + 1])
    BY ShownIs
  <2>2. /\ ContentShown(p, u) \in Seq(ItemsShown) /\ Len(ContentShown(p, u)) = n - 1
        /\ \A k \in 1..(n - 1) : ContentShown(p, u)[k] =
              Item(p[k].kind, u[p[k].kind][p[k].index + 1])
    <3>1. /\ ContentShown(p, u) \in Seq(ItemsShown) /\ Len(ContentShown(p, u)) = Len(p)
          /\ \A k \in 1..Len(p) : ContentShown(p, u)[k] =
                Item(p[k].kind, u[p[k].kind][p[k].index + 1])
      <4>1. p \in Seq(NodePlaces) /\ u \in NodeItems /\ Ordered(p, u)
        BY <1>6, <1>8, <1>21
      <4> QED
        BY ONLY <4>1, ShownIs
    <3> QED
      BY <1>8, <3>1
  <2> HIDE DEF s
  <2>3. /\ RemoveAt(s, r) \in Seq(ItemsShown)
        /\ Len(RemoveAt(s, r)) = n - 1
        /\ \A k \in 1..(n - 1) : RemoveAt(s, r)[k] = s[Old(k)]
    <3>1. RemoveAt(s, r) \in Seq(ItemsShown) /\ IsRemoved(RemoveAt(s, r), s, r)
      <4>1. r \in 1..Len(s)
        BY <2>1
      <4> QED
        BY <2>1, <4>1, RemovedIs
    <3> QED
      BY <2>1, <3>1 DEF IsRemoved
  <2> HIDE DEF n, count
  <2>4. ASSUME NEW k \in 1..(n - 1)
        PROVE  ContentShown(p, u)[k] = RemoveAt(s, r)[k]
    <3>1. ContentShown(p, u)[k] = Item(IsKind(k), u[IsKind(k)][Is(k) + 1])
      BY <2>2
    <3>2. RemoveAt(s, r)[k] = Item(WasKind(k), t[WasKind(k)][Was(k) + 1])
      BY <1>7, <2>1, <2>3
    <3> HIDE DEF Is, IsKind, Was, WasKind, Old
    <3>3. u[IsKind(k)][Is(k) + 1] = t[WasKind(k)][Was(k) + 1]
      <4>1. CASE IsKind(k) # kind
        BY <1>6, <1>7, <4>1
      <4>2. CASE IsKind(k) = kind /\ k < r
        <5>1. /\ Is(k) = Was(k) /\ Was(k) + 1 < at + 1
              /\ Was(k) + 1 \in 1..(count - 1)
          <6>1. Is(k) = Was(k) /\ Was(k) < at /\ Was(k) \in Nat
            BY <1>7, <4>2
          <6> QED
            BY <1>2, <6>1
        <5> QED
          BY <1>5, <1>6, <1>7, <4>2, <5>1
      <4>3. CASE IsKind(k) = kind /\ k >= r
        <5>0. Was(k) < count /\ Was(k) \in Nat /\ Was(k) > at /\ Is(k) = Was(k) - 1
          BY <1>7, <1>11, <4>3 DEF count
        <5>1. /\ Is(k) + 1 \in 1..(count - 1)
              /\ ~(Is(k) + 1 < at + 1)
              /\ (Is(k) + 1) + 1 = Was(k) + 1
          BY <1>2, <5>0
        <5> QED
          BY <1>5, <1>6, <1>7, <4>3, <5>1
      <4> QED
        BY <1>2, <4>1, <4>2, <4>3
    <3> QED
      BY <1>7, <3>1, <3>2, <3>3
  <2>5. ContentShown(p, u) = RemoveAt(s, r)
    BY <2>2, <2>3, <2>4, SeqEqual
  <2> QED
    BY <2>5 DEF s
<1> QED
  BY <1>6, <1>8, <1>21, <1>22

NodeData == [alive : BOOLEAN, parent : Nodes \cup {None}, refs : Nat,
             order : Seq(NodePlaces), items : NodeItems]
Sound(d) == d \in NodeData /\ Ordered(d.order, d.items)

(* What is known of a node whose order is one of its contents.              *)
LEMMA SoundParts ==
  ASSUME NEW d, Sound(d)
  PROVE  /\ d \in NodeData /\ d.order \in Seq(NodePlaces) /\ d.items \in NodeItems
         /\ Ordered(d.order, d.items)
         /\ Len(d.order) \in Nat /\ DOMAIN d.order = 1..Len(d.order)
         /\ \A k \in 1..Len(d.order) :
               /\ d.order[k] \in NodePlaces /\ d.order[k].kind \in NodeKinds
               /\ d.order[k].index \in Nat
               /\ d.order[k] = PlaceOf(d.order[k].kind, d.order[k].index)
               /\ d.order[k].index < Len(d.items[d.order[k].kind])
         /\ \A kind \in NodeKinds :
               d.items[kind] \in Seq(Contents) /\ Len(d.items[kind]) \in Nat
         /\ ShownContents(d) = ContentShown(d.order, d.items)
         /\ ShownContents(d) \in Seq(ItemsShown)
         /\ Len(ShownContents(d)) = Len(d.order)
         /\ \A k \in 1..Len(d.order) : ShownContents(d)[k].kind = d.order[k].kind
<1>1. /\ d \in NodeData /\ d.order \in Seq(NodePlaces) /\ d.items \in NodeItems
      /\ Ordered(d.order, d.items)
  BY DEF Sound, NodeData
<1> DEFINE o == d.order
           t == d.items
<1>2. Len(o) \in Nat /\ DOMAIN o = 1..Len(o)
  BY <1>1, LenProperties
<1>3. \A kind \in NodeKinds : t[kind] \in Seq(Contents) /\ Len(t[kind]) \in Nat
  BY <1>1, LenProperties DEF NodeItems
<1>4. ShownContents(d) = ContentShown(o, t)
  BY <1>2 DEF ShownContents, ContentShown
<1>5. /\ ContentShown(o, t) \in Seq(ItemsShown) /\ Len(ContentShown(o, t)) = Len(o)
      /\ \A k \in 1..Len(o) : ContentShown(o, t)[k].kind = o[k].kind
  <2>1. o \in Seq(NodePlaces) /\ t \in NodeItems /\ Ordered(o, t)
    BY <1>1
  <2> HIDE DEF o, t
  <2> QED
    BY <2>1, ShownIs
<1>6. ASSUME NEW k \in 1..Len(o)
      PROVE  /\ o[k] \in NodePlaces /\ o[k].kind \in NodeKinds
             /\ o[k].index \in Nat /\ o[k] = PlaceOf(o[k].kind, o[k].index)
             /\ o[k].index < Len(t[o[k].kind])
  <2>1. o \in Seq(NodePlaces) /\ Ordered(o, t)
    BY <1>1
  <2> HIDE DEF o, t
  <2>2. o[k] \in NodePlaces
    BY <2>1, LenProperties
  <2>3. o[k].index < Len(t[o[k].kind])
    BY <2>1 DEF Ordered, Reaches
  <2> QED
    BY <2>2, <2>3 DEF NodePlaces, PlaceOf
<1> QED
  BY <1>1, <1>2, <1>3, <1>4, <1>5, <1>6

(* Where a position of the program's is, counted from 1.                   *)
PutAt(d, pos) == IF pos = -1 THEN Len(d.order) + 1 ELSE pos + 1

(* A position the program may insert at is the end or a place of the same   *)
(* kind.                                                                    *)
LEMMA PositionsAre ==
  ASSUME NEW d, Sound(d), NEW kind \in NodeKinds,
         NEW pos \in SamePositions(d, kind)
  PROVE  /\ pos \in Int /\ PutAt(d, pos) \in 1..(Len(d.order) + 1)
         /\ pos # -1 => /\ pos >= 0 /\ pos < Len(d.order)
                        /\ pos + 1 \in 1..Len(d.order)
                        /\ d.order[pos + 1].kind = kind
<1>1. Len(d.order) \in Nat /\ DOMAIN d.order = 1..Len(d.order)
  BY SoundParts
<1>2. CASE pos = -1
  BY <1>1, <1>2 DEF PutAt
<1>3. CASE pos # -1
  <2>1. PICK k \in 1..Len(d.order) : d.order[k].kind = kind /\ pos = k - 1
    BY <1>1, <1>3 DEF SamePositions
  <2>2. pos + 1 = k /\ pos \in Int /\ pos >= 0 /\ pos < Len(d.order)
    BY <1>1, <2>1
  <2> QED
    BY <1>1, <1>3, <2>1, <2>2 DEF PutAt
<1> QED
  BY <1>2, <1>3

(* addToOrder() gives what is inserted the place that was asked for.        *)
LEMMA OrderPutIn ==
  ASSUME NEW d, Sound(d), NEW kind \in NodeKinds,
         NEW pos \in SamePositions(d, kind)
  PROVE  LET added == addToOrder(d, kind, pos)
         IN /\ added.at \in 0..Len(d.items[kind])
            /\ added.order \in Seq(NodePlaces)
            /\ FitsAt(d.order, kind, PutAt(d, pos), added.at)
            /\ IsPutIn(d.order, added.order, kind, PutAt(d, pos), added.at)
<1> DEFINE o == d.order
           n == Len(o)
           count == Len(d.items[kind])
           q == PutAt(d, pos)
           added == addToOrder(d, kind, pos)
<1>1. /\ o \in Seq(NodePlaces) /\ n \in Nat /\ count \in Nat
      /\ \A k \in 1..n : /\ o[k] \in NodePlaces /\ o[k].index \in Nat
                         /\ o[k] = PlaceOf(o[k].kind, o[k].index)
                         /\ o[k].index < Len(d.items[o[k].kind])
      /\ Ascends(o)
  BY SoundParts DEF Ordered
<1>2. CASE pos = -1
  <2>1. added = [order |-> Append(o, PlaceOf(kind, count)), at |-> count]
    <3>1. (pos < 0 \/ pos >= n) /\ pos \notin 0..(n - 1)
      BY <1>1, <1>2
    <3> QED
      BY <3>1 DEF addToOrder
  <2>2. PlaceOf(kind, count) \in NodePlaces
    BY <1>1 DEF PlaceOf, NodePlaces
  <2>3. q = n + 1
    BY <1>2 DEF PutAt
  <2> DEFINE p == Append(o, PlaceOf(kind, count))
  <2>4. /\ p \in Seq(NodePlaces) /\ Len(p) = n + 1
        /\ \A k \in 1..(n + 1) : p[k] =
              IF k = n + 1 THEN PlaceOf(kind, count) ELSE o[k]
    <3> DEFINE e == PlaceOf(kind, count)
    <3>1. e \in NodePlaces
      BY <2>2
    <3> HIDE DEF e, o
    <3>2. /\ p \in Seq(NodePlaces) /\ Len(p) = Len(o) + 1
          /\ \A k \in 1..Len(o) : p[k] = o[k]
          /\ p[Len(o) + 1] = e
      BY <1>1, <3>1, AppendProperties DEF e
    <3> HIDE DEF p
    <3> QED
      BY <1>1, <3>2 DEF e
  <2>5. added.order = p /\ added.at = count
    BY <2>1
  <2> HIDE DEF p, added, q, n, count, o
  <2>6. IsPutIn(o, p, kind, q, count)
    <3>1. \A k \in 1..(n + 1) : p[k] =
             IF k < q THEN o[k] ELSE IF k = q THEN PlaceOf(kind, count)
             ELSE Later(o[k - 1], kind)
      BY <1>1, <2>3, <2>4
    <3> QED
      BY <2>3, <2>4, <3>1 DEF IsPutIn, n
  <2>7. \A k \in 1..n : o[k].kind = kind => k < q /\ o[k].index < count
    BY <1>1, <2>3 DEF count
  <2>8. FitsAt(o, kind, q, count)
    BY <2>7 DEF FitsAt, n
  <2> QED
    BY <1>1, <2>4, <2>5, <2>6, <2>8 DEF o, q, added, count
<1>3. CASE pos # -1
  <2>1. /\ pos \in Int /\ pos >= 0 /\ pos < n /\ q = pos + 1
        /\ q \in 1..n /\ o[q].kind = kind
    BY <1>3, PositionsAre DEF PutAt
  <2> DEFINE moved == SubSeq(o, 1, pos + 1) \o SubSeq(o, pos + 1, n)
             same == {k \in (pos + 1)..n : moved[k].kind = kind}
             next == CHOOSE k \in same : \A j \in same : k <= j
             shown == [moved EXCEPT ![pos + 1] = moved[next]]
             at == shown[next].index
             p == [k \in DOMAIN shown |->
                     IF k > next /\ shown[k].kind = kind
                     THEN PlaceOf(kind, shown[k].index + 1) ELSE shown[k]]
  <2>2. /\ moved \in Seq(NodePlaces) /\ Len(moved) = n + 1
        /\ \A k \in 1..(n + 1) :
              moved[k] = IF k <= q THEN o[k] ELSE o[k - 1]
    <3> DEFINE a == SubSeq(o, 1, q)
               b == SubSeq(o, q, n)
    <3>1. /\ a \in Seq(NodePlaces) /\ Len(a) = q
          /\ \A k \in 1..q : a[k] = o[k]
      <4>1. \A k \in 1..q : o[k] \in NodePlaces
        BY <1>1, <2>1
      <4>2. /\ a \in Seq(NodePlaces) /\ Len(a) = IF 1 <= q THEN q - 1 + 1 ELSE 0
            /\ \A k \in 1..(q - 1 + 1) : a[k] = o[1 + k - 1]
        BY <2>1, <4>1, SubSeqProperties
      <4> HIDE DEF a
      <4>3. Len(a) = q
        BY <2>1, <4>2
      <4>4. \A k \in 1..q : a[k] = o[k]
        <5> TAKE k \in 1..q
        <5>1. k \in 1..(q - 1 + 1) /\ 1 + k - 1 = k
          BY <2>1
        <5> QED
          BY <4>2, <5>1
      <4> QED
        BY <4>2, <4>3, <4>4
    <3>2. /\ b \in Seq(NodePlaces) /\ Len(b) = n - q + 1
          /\ \A k \in 1..(n - q + 1) : b[k] = o[q + k - 1]
      <4>1. \A k \in q..n : o[k] \in NodePlaces
        BY <1>1, <2>1
      <4>2. /\ b \in Seq(NodePlaces) /\ Len(b) = IF q <= n THEN n - q + 1 ELSE 0
            /\ \A k \in 1..(n - q + 1) : b[k] = o[q + k - 1]
        BY <1>1, <2>1, <4>1, SubSeqProperties
      <4> HIDE DEF b, n, q
      <4>3. Len(b) = n - q + 1
        BY <1>1, <2>1, <4>2
      <4> QED
        BY <4>2, <4>3
    <3>3. moved = a \o b
      BY <2>1
    <3> HIDE DEF a, b, q, n, o
    <3>4. /\ a \o b \in Seq(NodePlaces) /\ Len(a \o b) = Len(a) + Len(b)
          /\ \A k \in 1..(Len(a) + Len(b)) : (a \o b)[k] =
                IF k <= Len(a) THEN a[k] ELSE b[k - Len(a)]
      BY <3>1, <3>2, ConcatProperties
    <3>5. Len(a) + Len(b) = n + 1
      BY <1>1, <2>1, <3>1, <3>2
    <3> HIDE DEF moved
    <3>6. /\ moved \in Seq(NodePlaces) /\ Len(moved) = n + 1
          /\ \A k \in 1..(n + 1) : moved[k] =
                IF k <= q THEN a[k] ELSE b[k - q]
      BY <3>1, <3>3, <3>4, <3>5
    <3>7. ASSUME NEW k \in 1..(n + 1)
          PROVE  moved[k] = IF k <= q THEN o[k] ELSE o[k - 1]
      <4>1. CASE k <= q
        <5>1. k \in 1..q
          BY <2>1, <4>1
        <5> QED
          BY <3>1, <3>6, <4>1, <5>1
      <4>2. CASE k > q
        <5>1. k - q \in 1..(n - q + 1) /\ q + (k - q) - 1 = k - 1 /\ ~(k <= q)
          BY <1>1, <2>1, <4>2
        <5> QED
          BY <3>2, <3>6, <5>1
      <4> QED
        BY <2>1, <4>1, <4>2
    <3> QED
      BY <3>6, <3>7
  <2> HIDE DEF moved
  <2>3. q \in same /\ \A j \in same : q <= j
    BY <1>1, <2>1, <2>2
  <2>4. next = q
    <3>1. next \in same /\ \A j \in same : next <= j
      BY <2>3
    <3>2. same \subseteq Int
      BY <1>1, <2>1
    <3> HIDE DEF next, same
    <3>3. q <= next /\ next <= q /\ q \in Int /\ next \in Int
      BY <2>3, <3>1, <3>2
    <3> HIDE DEF q
    <3> QED
      BY <3>3
  <2>5. shown = moved
    <3>1. moved = [k \in 1..(n + 1) |-> moved[k]]
      BY <2>2, LenProperties
    <3> HIDE DEF next
    <3> QED
      BY <2>1, <2>4, <3>1
  <2>6. DOMAIN shown = 1..(n + 1) /\ at = o[q].index
    <3>1. DOMAIN moved = 1..(n + 1)
      BY <2>2, LenProperties
    <3>2. moved[q] = o[q]
      BY <1>1, <2>1, <2>2
    <3> HIDE DEF next, shown
    <3> QED
      BY <2>4, <2>5, <3>1, <3>2
  <2>7. added = [order |-> p, at |-> at]
    <3>1. ~(pos < 0 \/ pos >= n) /\ same # {}
      BY <1>1, <2>1, <2>3
    <3> QED
      BY <3>1 DEF addToOrder, moved
  <2> HIDE DEF shown, next, same
  <2>8. p = [k \in 1..(n + 1) |->
               IF k > q /\ moved[k].kind = kind
               THEN PlaceOf(kind, moved[k].index + 1) ELSE moved[k]]
    BY <2>4, <2>5, <2>6
  <2>9. added.order = p /\ added.at = at
    BY <2>7
  <2> HIDE DEF p, at, added
  <2>10. at \in Nat /\ at < count /\ o[q] = PlaceOf(kind, at)
    BY <1>1, <2>1, <2>6
  <2>11. ASSUME NEW k \in 1..(n + 1)
         PROVE  /\ p[k] = IF k < q THEN o[k] ELSE IF k = q THEN PlaceOf(kind, at)
                          ELSE Later(o[k - 1], kind)
                /\ p[k] \in NodePlaces
    <3>1. CASE k <= q
      <4>1. p[k] = o[k] /\ k \in 1..n
        BY <1>1, <2>1, <2>2, <2>8, <3>1
      <4> QED
        BY <1>1, <2>1, <2>10, <3>1, <4>1
    <3>2. CASE k > q
      <4>1. moved[k] = o[k - 1] /\ k - 1 \in 1..n
        BY <1>1, <2>1, <2>2, <3>2
      <4>2. p[k] = Later(o[k - 1], kind)
        BY <2>8, <3>2, <4>1 DEF Later
      <4>3. o[k - 1] \in NodePlaces /\ o[k - 1].index \in Nat
        BY <1>1, <4>1
      <4>4. Later(o[k - 1], kind) \in NodePlaces
        BY <4>3 DEF Later, NodePlaces, PlaceOf
      <4> QED
        BY <1>1, <2>1, <3>2, <4>2, <4>4
    <3> QED
      BY <1>1, <2>1, <3>1, <3>2
  <2>12. p \in Seq(NodePlaces) /\ Len(p) = n + 1
    <3>1. p = [k \in 1..(n + 1) |-> p[k]]
      BY <2>8
    <3>2. n + 1 \in Nat
      BY <1>1
    <3> HIDE DEF n
    <3>3. p \in [1..(n + 1) -> NodePlaces]
      BY <2>11, <3>1
    <3> QED
      BY <3>2, <3>3
  <2>13. IsPutIn(o, p, kind, q, at)
    BY <2>11, <2>12 DEF IsPutIn
  <2>14. ASSUME NEW k \in 1..n, o[k].kind = kind
         PROVE  k < q <=> o[k].index < at
    <3>1. CASE k < q
      BY <2>1, <2>6, <2>14, <3>1, <1>1 DEF Ascends
    <3>2. CASE k = q
      <4>1. o[k].index = at /\ ~(at < at) /\ ~(q < q)
        <5>1. o[k].index = at
          BY <2>6, <3>2
        <5>2. at \in Nat /\ q \in Int
          BY <2>1, <2>10
        <5> HIDE DEF q
        <5>3. ~(at < at) /\ ~(q < q)
          BY <5>2
        <5> QED
          BY <5>1, <5>3
      <4> HIDE DEF q
      <4> QED
        BY <3>2, <4>1
    <3>3. CASE k > q
      <4>1. at < o[k].index
        BY <1>1, <2>1, <2>6, <2>14, <3>3 DEF Ascends
      <4> QED
        BY <1>1, <2>1, <2>10, <3>3, <4>1
    <3> QED
      BY <1>1, <2>1, <3>1, <3>2, <3>3
  <2>15. FitsAt(o, kind, q, at)
    BY <2>14 DEF FitsAt
  <2> HIDE DEF o, q, n, count
  <2>16. at \in 0..count
    BY <1>1, <2>10
  <2> QED
    BY <2>9, <2>12, <2>13, <2>15, <2>16 DEF o, q, n, count, added
<1> QED
  BY <1>2, <1>3

SameOwner(e, d) == e.alive = d.alive /\ e.parent = d.parent /\ e.refs = d.refs

(* The list that is intended has what is inserted at the same place.        *)
LEMMA ListedIs ==
  ASSUME NEW d, Sound(d), NEW kind \in NodeKinds,
         NEW pos \in SamePositions(d, kind), NEW x \in ItemsShown
  PROVE  Listed(ShownContents(d), x, pos) =
            InsertAt(ShownContents(d), PutAt(d, pos), x)
<1> DEFINE s == ShownContents(d)
           n == Len(s)
<1>1. s \in Seq(ItemsShown) /\ n \in Nat /\ n = Len(d.order)
  BY SoundParts
<1>2. CASE pos = -1
  <2>1. PutAt(d, pos) = n + 1 /\ pos < 0
    BY <1>1, <1>2 DEF PutAt
  <2>2. Listed(s, x, pos) = Append(s, x)
    BY <2>1 DEF Listed
  <2> HIDE DEF s
  <2>3. /\ InsertAt(s, n + 1, x) \in Seq(ItemsShown)
        /\ IsInserted(InsertAt(s, n + 1, x), s, n + 1, x)
    <3>1. n + 1 \in 1..(Len(s) + 1)
      BY <1>1
    <3> QED
      BY <1>1, <3>1, InsertedIs
  <2>4. /\ Append(s, x) \in Seq(ItemsShown) /\ Len(Append(s, x)) = n + 1
        /\ \A k \in 1..n : Append(s, x)[k] = s[k]
        /\ Append(s, x)[n + 1] = x
    BY <1>1, AppendProperties
  <2> DEFINE a == Append(s, x)
             b == InsertAt(s, n + 1, x)
  <2>5. b \in Seq(ItemsShown) /\ Len(b) = n + 1
        /\ \A k \in 1..(n + 1) :
              b[k] = IF k < n + 1 THEN s[k] ELSE IF k = n + 1 THEN x ELSE s[k - 1]
    BY <2>3 DEF IsInserted
  <2> HIDE DEF a, b, n
  <2>6. \A k \in 1..(n + 1) : a[k] = b[k]
    <3> TAKE k \in 1..(n + 1)
    <3>1. CASE k < n + 1
      BY <1>1, <2>4, <2>5, <3>1 DEF a
    <3>2. CASE k = n + 1
      BY <1>1, <2>4, <2>5, <3>2 DEF a
    <3> QED
      BY <1>1, <3>1, <3>2
  <2>7. a \in Seq(ItemsShown) /\ Len(a) = n + 1
    BY <2>4 DEF a
  <2>8. a = b
    BY <2>5, <2>6, <2>7, SeqEqual
  <2> QED
    BY <2>1, <2>2, <2>8 DEF a, b, s
<1>3. CASE pos # -1
  <2>1. ~(pos < 0 \/ pos >= n) /\ PutAt(d, pos) = pos + 1
    BY <1>1, <1>3, PositionsAre DEF PutAt
  <2> HIDE DEF n, s
  <2> QED
    BY <2>1 DEF Listed, n, s
<1> QED
  BY <1>2, <1>3

(* After an insertion the order is one of the contents, and what is shown   *)
(* is what was intended.                                                    *)
LEMMA AddingIs ==
  ASSUME NEW d, Sound(d), NEW kind \in NodeKinds, NEW item \in Contents,
         NEW pos \in SamePositions(d, kind)
  PROVE  LET e == Adding(d, kind, item, pos)
         IN /\ Sound(e) /\ SameOwner(e, d)
            /\ ShownContents(e) =
                  Listed(ShownContents(d), Item(kind, item), pos)
            /\ \E at \in 0..Len(d.items[kind]) :
                  e.items = PutItem(d.items, kind, at, item)
<1> DEFINE added == addToOrder(d, kind, pos)
           e == Adding(d, kind, item, pos)
           o == d.order
           t == d.items
           u == [t EXCEPT ![kind] = InsertAt(@, added.at + 1, item)]
           q == PutAt(d, pos)
<1>1. /\ d \in NodeData /\ o \in Seq(NodePlaces) /\ t \in NodeItems /\ Ordered(o, t)
      /\ Len(t[kind]) \in Nat
  BY SoundParts
<1>2. /\ added.at \in 0..Len(t[kind])
      /\ added.order \in Seq(NodePlaces)
      /\ FitsAt(o, kind, q, added.at)
      /\ IsPutIn(o, added.order, kind, q, added.at)
  BY OrderPutIn
<1>3. e = [d EXCEPT !.order = added.order, !.items = u]
  BY <1>1 DEF Adding, NodeData
<1>4. q \in 1..(Len(o) + 1)
  BY PositionsAre
<1>5. /\ u \in NodeItems /\ Ordered(added.order, u)
      /\ ContentShown(added.order, u) = InsertAt(ContentShown(o, t), q, Item(kind, item))
  <2> DEFINE p == added.order
             at == added.at
  <2>1. /\ at \in 0..Len(t[kind]) /\ p \in Seq(NodePlaces)
        /\ FitsAt(o, kind, q, at) /\ IsPutIn(o, p, kind, q, at)
    BY <1>2
  <2>2. u = PutItem(t, kind, at, item)
    BY DEF PutItem
  <2> HIDE DEF p, at, u, o, t, q, added
  <2>3. /\ u \in NodeItems /\ Ordered(p, u)
        /\ ContentShown(p, u) = InsertAt(ContentShown(o, t), q, Item(kind, item))
    BY <1>1, <1>4, <2>1, <2>2, PutIn
  <2> QED
    BY <2>3 DEF p
<1> HIDE DEF u, added
<1>6. e \in NodeData /\ e.order = added.order /\ e.items = u
      /\ SameOwner(e, d)
  <2> HIDE DEF e
  <2> QED
    BY <1>1, <1>2, <1>3, <1>5 DEF NodeData, SameOwner
<1> HIDE DEF e
<1>7. Sound(e)
  BY <1>5, <1>6 DEF Sound
<1>8. ShownContents(e) = InsertAt(ShownContents(d), q, Item(kind, item))
  BY <1>5, <1>6, <1>7, SoundParts
<1>9. Item(kind, item) \in ItemsShown
  BY DEF Item, ItemsShown
<1>10. ShownContents(e) = Listed(ShownContents(d), Item(kind, item), pos)
  BY <1>8, <1>9, ListedIs
<1>11. /\ added.at \in 0..Len(t[kind])
       /\ e.items = PutItem(t, kind, added.at, item)
  BY <1>2, <1>6 DEF u, PutItem
<1> QED
  BY <1>6, <1>7, <1>10, <1>11 DEF e

-----------------------------------------------------------------------------
(* What is the index-th of its kind has a place of its own.                *)
LEMMA PlaceFound ==
  ASSUME NEW d, Sound(d), NEW kind \in NodeKinds,
         NEW i \in 0..(Len(d.items[kind]) - 1)
  PROVE  LET r == findPosition(d, kind, i) + 1
         IN /\ r \in 1..Len(d.order) /\ d.order[r] = PlaceOf(kind, i)
            /\ d.order[r].kind = kind /\ d.order[r].index = i /\ i \in Nat
            /\ findPosition(d, kind, i) = r - 1
            /\ \A k \in 1..Len(d.order) :
                  d.order[k].kind = kind /\ d.order[k].index = i => k = r
<1> DEFINE o == d.order
           c == CHOOSE k \in DOMAIN o : o[k] = PlaceOf(kind, i)
<1>1. /\ Ordered(o, d.items) /\ DOMAIN o = 1..Len(o) /\ Len(o) \in Nat
      /\ \A k \in 1..Len(o) : o[k] = PlaceOf(o[k].kind, o[k].index)
                              /\ o[k].index \in Nat
  BY SoundParts
<1>2. \E k \in 1..Len(o) : o[k].kind = kind /\ o[k].index = i
  BY <1>1 DEF Ordered, Covers
<1>3. \E k \in DOMAIN o : o[k] = PlaceOf(kind, i)
  BY <1>1, <1>2
<1>4. c \in 1..Len(o) /\ o[c] = PlaceOf(kind, i)
  BY <1>1, <1>3
<1>5. findPosition(d, kind, i) = c - 1
  BY DEF findPosition
<1> HIDE DEF c
<1>6. findPosition(d, kind, i) + 1 = c
  BY <1>4, <1>5
<1>7. o[c].kind = kind /\ o[c].index = i /\ i \in Nat
  BY <1>4 DEF PlaceOf
<1>8. ASSUME NEW k \in 1..Len(o), o[k].kind = kind, o[k].index = i
      PROVE  k = c
  <2>1. ~(k < c) /\ ~(c < k)
    BY <1>1, <1>4, <1>7, <1>8 DEF Ordered, Ascends
  <2> QED
    BY <1>1, <1>4, <2>1
<1> QED
  BY <1>4, <1>5, <1>6, <1>7, <1>8

(* removeOrderElement() takes out the place of the index-th of its kind.    *)
LEMMA RemovedPlace ==
  ASSUME NEW d, Sound(d), NEW kind \in NodeKinds,
         NEW i \in 0..(Len(d.items[kind]) - 1)
  PROVE  removeOrderElement(d, kind, i) =
            TakenOut(d.order, kind, findPosition(d, kind, i) + 1)
<1> DEFINE o == d.order
           n == Len(o)
           at == findPosition(d, kind, i)
           r == at + 1
           left == RemoveAt(o, at + 1)
<1>1. /\ o \in Seq(NodePlaces) /\ n \in Nat /\ r \in 1..n /\ at = r - 1
  BY SoundParts, PlaceFound
<1>2. left \in Seq(NodePlaces) /\ IsRemoved(left, o, r)
  BY <1>1, RemovedIs
<1> HIDE DEF left
<1>3. DOMAIN left = 1..(n - 1)
      /\ \A k \in 1..(n - 1) : left[k] = IF k < r THEN o[k] ELSE o[k + 1]
  BY <1>2, LenProperties DEF IsRemoved
<1>4. removeOrderElement(d, kind, i) =
        [k \in 1..(n - 1) |-> IF k > at /\ left[k].kind = kind
                              THEN PlaceOf(kind, left[k].index - 1) ELSE left[k]]
  BY <1>3 DEF removeOrderElement, left
<1>5. ASSUME NEW k \in 1..(n - 1)
      PROVE  (IF k > at /\ left[k].kind = kind
              THEN PlaceOf(kind, left[k].index - 1) ELSE left[k])
             = (IF k < r THEN o[k] ELSE Earlier(o[k + 1], kind))
  <2> HIDE DEF at, o, n
  <2>1. CASE k < r
    BY <1>1, <1>3, <2>1
  <2>2. CASE k >= r
    <3>1. k > at /\ left[k] = o[k + 1] /\ ~(k < r)
      BY <1>1, <1>3, <2>2
    <3> QED
      BY <3>1 DEF Earlier
  <2> QED
    BY <1>1, <2>1, <2>2
<1> HIDE DEF at, left, n, o
<1>6. removeOrderElement(d, kind, i) =
        [k \in 1..(n - 1) |-> IF k < r THEN o[k] ELSE Earlier(o[k + 1], kind)]
  BY <1>4, <1>5
<1> QED
  BY <1>6 DEF TakenOut, n, o, at

(* The index-th of a kind in the list is what has that place.              *)
LEMMA NthIs ==
  ASSUME NEW d, Sound(d), NEW kind \in NodeKinds,
         NEW i \in 0..(Len(d.items[kind]) - 1)
  PROVE  Nth(ShownContents(d), kind, i) = findPosition(d, kind, i) + 1
<1> DEFINE o == d.order
           n == Len(o)
           s == ShownContents(d)
           r == findPosition(d, kind, i) + 1
           Upto(k) == {j \in 1..k : s[j].kind = kind}
<1>1. /\ Ordered(o, d.items) /\ n \in Nat /\ DOMAIN s = 1..n
      /\ \A k \in 1..n : s[k].kind = o[k].kind /\ o[k].index \in Nat
                         /\ o[k].index < Len(d.items[o[k].kind])
      /\ Len(d.items[kind]) \in Nat
  BY SoundParts, LenProperties
<1>2. /\ r \in 1..n /\ o[r].kind = kind /\ o[r].index = i /\ i \in Nat
      /\ \A k \in 1..n : o[k].kind = kind /\ o[k].index = i => k = r
  BY PlaceFound
<1>3. ASSUME NEW k \in 1..n, s[k].kind = kind
      PROVE  Cardinality(Upto(k)) = o[k].index + 1
  <2> DEFINE m == o[k].index
             f == [j \in Upto(k) |-> o[j].index]
  <2>1. m \in Nat /\ o[k].kind = kind /\ m < Len(d.items[kind])
    BY <1>1, <1>3
  <2>2. \A j \in Upto(k) : j \in 1..n /\ o[j].kind = kind
    BY <1>1
  <2>3. \A j, l \in Upto(k) : j < l => o[j].index < o[l].index
    BY <1>1, <2>2 DEF Ordered, Ascends
  <2>4. ASSUME NEW j \in Upto(k)
        PROVE  o[j].index \in 0..m
    <3>1. CASE j = k
      BY <2>1, <3>1
    <3>2. CASE j < k
      <4>1. o[j].index < m
        BY <1>1, <1>3, <2>1, <2>2, <3>2 DEF Ordered, Ascends
      <4>2. o[j].index \in Nat
        BY <1>1, <2>2
      <4> HIDE DEF m
      <4> QED
        BY <2>1, <4>1, <4>2
    <3> QED
      BY <1>1, <3>1, <3>2
  <2>5. f \in [Upto(k) -> 0..m]
    BY <2>4
  <2>6. ASSUME NEW j \in Upto(k), NEW l \in Upto(k), f[j] = f[l]
        PROVE  j = l
    <3>1. o[j].index = o[l].index /\ o[j].index \in Int
      BY <2>4, <2>6
    <3>2. ~(j < l) /\ ~(l < j)
      BY <2>3, <3>1
    <3>3. j \in Int /\ l \in Int
      BY <2>2
    <3> QED
      BY <3>2, <3>3
  <2>7. ASSUME NEW h \in 0..m
        PROVE  \E j \in Upto(k) : f[j] = h
    <3>1. h \in 0..(Len(d.items[kind]) - 1)
      BY <1>1, <2>1
    <3>2. PICK j \in 1..n : o[j].kind = kind /\ o[j].index = h
      BY <1>1, <3>1 DEF Ordered, Covers
    <3>3. ~(k < j)
      <4>1. k < j => m < h
        BY <1>1, <2>1, <3>2 DEF Ordered, Ascends
      <4>2. ~(m < h)
        BY <2>1
      <4> QED
        BY <4>1, <4>2
    <3>4. j \in Upto(k)
      BY <1>1, <3>2, <3>3
    <3> QED
      BY <3>2, <3>4
  <2>9. IsFiniteSet(0..m) /\ Cardinality(0..m) = m + 1
    <3> HIDE DEF m
    <3>1. 0 \in Int /\ m \in Int /\ 0 <= m
      BY <2>1
    <3>2. IsFiniteSet(0..m)
          /\ Cardinality(0..m) = IF 0 > m THEN 0 ELSE m - 0 + 1
      BY <3>1, FS_Interval
    <3> QED
      BY <2>1, <3>2
  <2>10. f \in Injection(Upto(k), 0..m) /\ f \in Surjection(Upto(k), 0..m)
    BY <2>5, <2>6, <2>7 DEF Injection, IsInjective, Surjection
  <2>11. IsFiniteSet(Upto(k)) /\ Cardinality(Upto(k)) = Cardinality(0..m)
    BY <2>9, <2>10, FS_Injection
  <2> QED
    BY <2>9, <2>11
<1>4. ASSUME NEW k \in DOMAIN s
      PROVE  (/\ s[k].kind = kind
              /\ Cardinality({j \in 1..k : s[j].kind = kind}) = i + 1) <=> k = r
  <2>1. k \in 1..n
    BY <1>1
  <2>2. CASE s[k].kind # kind
    BY <1>1, <1>2, <2>1, <2>2
  <2>3. CASE s[k].kind = kind
    <3>1. Cardinality(Upto(k)) = o[k].index + 1 /\ o[k].kind = kind
          /\ o[k].index \in Nat
      BY <1>1, <1>3, <2>1, <2>3
    <3>2. Cardinality(Upto(k)) = i + 1 <=> o[k].index = i
      BY <1>2, <3>1
    <3>3. o[k].index = i <=> k = r
      BY <1>2, <2>1, <3>1
    <3> QED
      BY <2>3, <3>2, <3>3
  <2> QED
    BY <2>2, <2>3
<1>5. r \in DOMAIN s
  BY <1>1, <1>2
<1> HIDE DEF s, r
<1>6. Nth(s, kind, i) = r
  BY <1>4, <1>5 DEF Nth
<1> QED
  BY <1>6 DEF s, r

(* After a removal the order is one of the contents, and what is shown is   *)
(* what was intended.                                                       *)
LEMMA WithoutIs ==
  ASSUME NEW d, Sound(d), NEW kind \in NodeKinds,
         NEW i \in 0..(Len(d.items[kind]) - 1)
  PROVE  LET e == Without(d, kind, i)
         IN /\ Sound(e) /\ SameOwner(e, d)
            /\ ShownContents(e) = Unlisted(ShownContents(d), kind, i)
            /\ e.order = TakenOut(d.order, kind, findPosition(d, kind, i) + 1)
            /\ e.items = TakenItems(d.items, kind, i)
            /\ i + 1 \in 1..Len(d.items[kind])
<1> DEFINE o == d.order
           t == d.items
           e == Without(d, kind, i)
           r == findPosition(d, kind, i) + 1
           p == TakenOut(o, kind, r)
           u == [t EXCEPT ![kind] = RemoveAt(@, i + 1)]
<1>1. /\ d \in NodeData /\ o \in Seq(NodePlaces) /\ t \in NodeItems /\ Ordered(o, t)
      /\ Len(t[kind]) \in Nat
  BY SoundParts
<1>2. r \in 1..Len(o) /\ o[r].kind = kind /\ o[r].index = i /\ i \in Nat
  BY PlaceFound
<1>3. e = [d EXCEPT !.order = p, !.items = u]
  BY <1>1, RemovedPlace DEF Without, NodeData
<1>4. /\ u \in NodeItems /\ p \in Seq(NodePlaces) /\ Ordered(p, u)
      /\ ContentShown(p, u) = RemoveAt(ContentShown(o, t), r)
  <2>1. p = TakenOut(o, kind, r) /\ u = TakenItems(t, kind, i)
    BY DEF TakenItems
  <2> HIDE DEF p, u, o, t, r
  <2> QED
    BY <1>1, <1>2, <2>1, TakeOut
<1> HIDE DEF p, u, e
<1>5. e \in NodeData /\ e.order = p /\ e.items = u /\ SameOwner(e, d)
  BY <1>1, <1>3, <1>4 DEF NodeData, SameOwner
<1>6. Sound(e)
  BY <1>4, <1>5 DEF Sound
<1>7. ShownContents(e) = RemoveAt(ShownContents(d), r)
  BY <1>4, <1>5, <1>6, SoundParts
<1>8. ShownContents(e) = Unlisted(ShownContents(d), kind, i)
  BY <1>7, NthIs DEF Unlisted
<1>9. i + 1 \in 1..Len(t[kind])
  BY <1>1
<1> QED
  BY <1>5, <1>6, <1>8, <1>9 DEF p, u, e, TakenItems

Elements(s) == {s[i] : i \in 1..Len(s)}
Distinct(s) == \A i, j \in 1..Len(s) : s[i] = s[j] => i = j
Kids(d) == ToSet(d.items["child"])
Once(d) == Distinct(d.items["child"])

(* The children of a node are the elements of its array of them.            *)
LEMMA KidsAre ==
  ASSUME NEW d, Sound(d)
  PROVE  Kids(d) = Elements(d.items["child"])
<1>1. d.items["child"] \in Seq(Contents)
  BY SoundParts DEF NodeKinds
<1>2. DOMAIN d.items["child"] = 1..Len(d.items["child"])
  BY <1>1, LenProperties
<1> QED
  BY <1>2 DEF Kids, ToSet, Elements

(* Where something stays that is not put in, and comes from that is.       *)
LEMMA InsertedKids ==
  ASSUME NEW s \in Seq(Contents), NEW e \in Contents,
         NEW at \in 1..(Len(s) + 1),
         e \notin Elements(s), Distinct(s), NEW w, w = InsertAt(s, at, e)
  PROVE  Elements(w) = Elements(s) \cup {e} /\ Distinct(w)
<1> DEFINE n == Len(s)
           From(i) == IF i < at THEN i ELSE i - 1
           To(i) == IF i < at THEN i ELSE i + 1
<1>1. n \in Nat /\ at \in 1..(n + 1)
  BY LenProperties
<1>2. /\ Len(w) = n + 1
      /\ \A k \in 1..(n + 1) : w[k] =
            IF k < at THEN s[k] ELSE IF k = at THEN e ELSE s[k - 1]
  BY InsertedIs DEF IsInserted
<1> HIDE DEF n
<1>3. w[at] = e
  BY <1>1, <1>2
<1>4. ASSUME NEW k \in 1..(n + 1), k # at
      PROVE  w[k] = s[From(k)] /\ From(k) \in 1..n
  BY <1>1, <1>2, <1>4
<1>5. ASSUME NEW k \in 1..n
      PROVE  w[To(k)] = s[k] /\ To(k) \in 1..(n + 1)
  <2>1. CASE k < at
    BY <1>1, <1>2, <2>1
  <2>2. CASE k >= at
    <3>1. k + 1 \in 1..(n + 1) /\ ~(k + 1 < at) /\ k + 1 # at
          /\ (k + 1) - 1 = k /\ To(k) = k + 1
      BY <1>1, <2>2
    <3>2. w[k + 1] = s[(k + 1) - 1]
      BY <1>2, <3>1
    <3> QED
      BY <3>1, <3>2
  <2> QED
    BY <1>1, <2>1, <2>2
<1>6. \A j, k \in 1..(n + 1) : j # at /\ k # at /\ From(j) = From(k) => j = k
  BY <1>1
<1> HIDE DEF From, To
<1>7. \A x : x \in Elements(s) \/ x = e => \E i \in 1..(n + 1) : w[i] = x
  BY <1>1, <1>3, <1>5 DEF Elements, n
<1>8. \A i \in 1..(n + 1) : w[i] \in Elements(s) \/ w[i] = e
  BY <1>3, <1>4 DEF Elements, n
<1>0. \A x : x \in Elements(w) <=> \E i \in 1..(n + 1) : w[i] = x
  BY <1>2 DEF Elements
<1>9. Elements(w) = Elements(s) \cup {e}
  BY <1>0, <1>7, <1>8, Zenon
<1>11. \A k \in 1..n : s[k] # e
  BY DEF Elements, n
<1>12. \A i, j \in 1..n : s[i] = s[j] => i = j
  BY DEF Distinct, n
<1>10. ASSUME NEW i \in 1..(n + 1), NEW j \in 1..(n + 1), w[i] = w[j]
       PROVE  i = j
  <2>1. CASE i = at \/ j = at
    BY <1>3, <1>4, <1>10, <1>11, <2>1
  <2>2. CASE i # at /\ j # at
    BY <1>4, <1>6, <1>10, <1>12, <2>2
  <2> QED
    BY <2>1, <2>2
<1> QED
  BY <1>2, <1>9, <1>10 DEF Distinct

(* An array with an element taken out has each of the others once.          *)
LEMMA RemovedKids ==
  ASSUME NEW s \in Seq(Contents), NEW at \in 1..Len(s),
         Distinct(s), NEW w, w = RemoveAt(s, at)
  PROVE  Elements(w) = Elements(s) \ {s[at]} /\ Distinct(w)
<1> DEFINE n == Len(s)
           From(i) == IF i < at THEN i ELSE i + 1
           To(i) == IF i < at THEN i ELSE i - 1
<1>1. n \in Nat /\ at \in 1..n
  BY LenProperties
<1>2. /\ Len(w) = n - 1
      /\ \A k \in 1..(n - 1) : w[k] = IF k < at THEN s[k] ELSE s[k + 1]
  BY RemovedIs DEF IsRemoved
<1> HIDE DEF n
<1>3. ASSUME NEW k \in 1..(n - 1)
      PROVE  w[k] = s[From(k)] /\ From(k) \in 1..n /\ From(k) # at
  BY <1>1, <1>2
<1>4. ASSUME NEW k \in 1..n, k # at
      PROVE  w[To(k)] = s[k] /\ To(k) \in 1..(n - 1)
  <2>1. CASE k < at
    BY <1>1, <1>2, <2>1
  <2>2. CASE k > at
    <3>1. k - 1 \in 1..(n - 1) /\ ~(k - 1 < at)
          /\ (k - 1) + 1 = k /\ To(k) = k - 1
      BY <1>1, <2>2
    <3>2. w[k - 1] = s[(k - 1) + 1]
      BY <1>2, <3>1
    <3> QED
      BY <3>1, <3>2
  <2> QED
    BY <1>1, <1>4, <2>1, <2>2
<1>5. \A j, k \in 1..(n - 1) : From(j) = From(k) => j = k
  BY <1>1
<1> HIDE DEF From, To
<1>10. \A i, j \in 1..n : s[i] = s[j] => i = j
  BY DEF Distinct, n
<1>6. \A x : x \in Elements(s) /\ x # s[at] => \E i \in 1..(n - 1) : w[i] = x
  BY <1>4 DEF Elements, n
<1>7. \A i \in 1..(n - 1) : w[i] \in Elements(s) /\ w[i] # s[at]
  BY <1>1, <1>3, <1>10 DEF Elements, n
<1>0. \A x : x \in Elements(w) <=> \E i \in 1..(n - 1) : w[i] = x
  BY <1>2 DEF Elements
<1>8. Elements(w) = Elements(s) \ {s[at]}
  <2>1. \A x : x \in Elements(w) <=> x \in Elements(s) /\ x # s[at]
    BY <1>0, <1>6, <1>7
  <2> QED
    BY <2>1
<1>9. ASSUME NEW i \in 1..(n - 1), NEW j \in 1..(n - 1), w[i] = w[j]
      PROVE  i = j
  BY <1>3, <1>5, <1>9, <1>10
<1> QED
  BY <1>2, <1>8, <1>9 DEF Distinct

(* A node that gets a child it does not have has it once.                   *)
LEMMA AddedChild ==
  ASSUME NEW d, Sound(d), Once(d), NEW c \in Nodes, c \notin Kids(d),
         NEW pos \in SamePositions(d, "child")
  PROVE  LET e == Adding(d, "child", c, pos)
         IN /\ Sound(e) /\ SameOwner(e, d) /\ Once(e)
            /\ Kids(e) = Kids(d) \cup {c}
            /\ ShownContents(e) = Listed(ShownContents(d), Item("child", c), pos)
<1> DEFINE e == Adding(d, "child", c, pos)
           s == d.items["child"]
           w == e.items["child"]
<1>1. "child" \in NodeKinds /\ c \in Contents
  BY DEF NodeKinds, Contents
<1>2. /\ Sound(e) /\ SameOwner(e, d)
      /\ ShownContents(e) = Listed(ShownContents(d), Item("child", c), pos)
      /\ \E at \in 0..Len(s) : e.items = PutItem(d.items, "child", at, c)
  BY <1>1, AddingIs
<1>3. PICK at \in 0..Len(s) : e.items = PutItem(d.items, "child", at, c)
  BY <1>2
<1>4. d.items \in NodeItems /\ s \in Seq(Contents)
  BY <1>1, SoundParts
<1>5. w = InsertAt(s, at + 1, c)
  BY <1>1, <1>3, <1>4 DEF NodeItems, PutItem
<1>6. Kids(d) = Elements(s) /\ Kids(e) = Elements(w)
  BY <1>2, KidsAre
<1>7. c \notin Elements(s) /\ Distinct(s)
  BY <1>6 DEF Once
<1> HIDE DEF s, w
<1>8. Elements(w) = Elements(s) \cup {c} /\ Distinct(w)
  <2>1. at + 1 \in 1..(Len(s) + 1)
    BY <1>4, LenProperties
  <2> QED
    BY <1>1, <1>4, <1>5, <1>7, <2>1, InsertedKids
<1> HIDE DEF e
<1>9. Once(e)
  BY <1>8 DEF Once, w
<1>10. Kids(e) = Kids(d) \cup {c}
  BY <1>6, <1>8
<1> QED
  BY <1>2, <1>9, <1>10 DEF e

(* A text that is added leaves the children as they are.                    *)
LEMMA AddedText ==
  ASSUME NEW d, Sound(d), Once(d), NEW kind \in {"text", "clear"},
         NEW x \in Strings, NEW pos \in SamePositions(d, kind)
  PROVE  LET e == Adding(d, kind, x, pos)
         IN /\ Sound(e) /\ SameOwner(e, d) /\ Once(e) /\ Kids(e) = Kids(d)
            /\ ShownContents(e) = Listed(ShownContents(d), Item(kind, x), pos)
<1> DEFINE e == Adding(d, kind, x, pos)
<1>1. /\ kind \in NodeKinds /\ "child" \in NodeKinds /\ kind # "child"
      /\ x \in Contents
  BY DEF NodeKinds, Contents
<1>2. /\ Sound(e) /\ SameOwner(e, d)
      /\ ShownContents(e) = Listed(ShownContents(d), Item(kind, x), pos)
      /\ \E at \in 0..Len(d.items[kind]) : e.items = PutItem(d.items, kind, at, x)
  BY <1>1, AddingIs
<1>3. d.items \in NodeItems
  BY SoundParts
<1> HIDE DEF e
<1>4. e.items["child"] = d.items["child"]
  BY <1>1, <1>2, <1>3 DEF NodeItems, PutItem, TakenItems
<1> QED
  BY <1>2, <1>4 DEF Once, Kids, e

(* A text that is taken away leaves the children as they are.               *)
LEMMA TextTaken ==
  ASSUME NEW d, Sound(d), Once(d), NEW kind \in {"text", "clear"},
         NEW i \in 0..(Len(d.items[kind]) - 1)
  PROVE  LET e == Without(d, kind, i)
         IN /\ Sound(e) /\ SameOwner(e, d) /\ Once(e) /\ Kids(e) = Kids(d)
            /\ ShownContents(e) = Unlisted(ShownContents(d), kind, i)
<1> DEFINE e == Without(d, kind, i)
<1>1. kind \in NodeKinds /\ "child" \in NodeKinds /\ kind # "child"
  BY DEF NodeKinds
<1>2. /\ Sound(e) /\ SameOwner(e, d)
      /\ ShownContents(e) = Unlisted(ShownContents(d), kind, i)
      /\ e.items = TakenItems(d.items, kind, i)
  BY <1>1, WithoutIs
<1>3. d.items \in NodeItems
  BY SoundParts
<1> HIDE DEF e
<1>4. e.items["child"] = d.items["child"]
  BY <1>1, <1>2, <1>3 DEF NodeItems, PutItem, TakenItems
<1> QED
  BY <1>2, <1>4 DEF Once, Kids, e

(* A child is found in its parent, and taken from it, and from nothing      *)
(* else.                                                                    *)
LEMMA ChildTaken ==
  ASSUME NEW d, Sound(d), Once(d), NEW c \in Kids(d)
  PROVE  LET i == IndexOfChild(d, c)
             e == Without(d, "child", i)
             r == findPosition(d, "child", i) + 1
         IN /\ i \in 0..(Len(d.items["child"]) - 1)
            /\ d.items["child"][i + 1] = c
            /\ Sound(e) /\ SameOwner(e, d) /\ Once(e)
            /\ Kids(e) = Kids(d) \ {c}
            /\ ShownContents(e) = Unlisted(ShownContents(d), "child", i)
            /\ ShownContents(e) = RemoveAt(ShownContents(d), r)
            /\ e.order = TakenOut(d.order, "child", r)
            /\ r \in 1..Len(d.order) /\ d.order[r] = PlaceOf("child", i)
            /\ findPosition(d, "child", i) = r - 1
<1> DEFINE s == d.items["child"]
           k == CHOOSE h \in DOMAIN s : s[h] = c
           i == IndexOfChild(d, c)
           e == Without(d, "child", i)
           w == e.items["child"]
<1>1. "child" \in NodeKinds
  BY DEF NodeKinds
<1>2. d.items \in NodeItems /\ s \in Seq(Contents) /\ Len(s) \in Nat
      /\ DOMAIN s = 1..Len(s)
  BY <1>1, SoundParts, LenProperties
<1>3. \E h \in DOMAIN s : s[h] = c
  BY DEF Kids, ToSet
<1>4. k \in 1..Len(s) /\ s[k] = c
  BY <1>2, <1>3
<1>5. i = k - 1
  BY DEF IndexOfChild
<1> HIDE DEF k
<1>6. i \in 0..(Len(s) - 1) /\ s[i + 1] = c /\ i + 1 = k
  <2> HIDE DEF i
  <2> QED
    BY <1>2, <1>4, <1>5
<1> HIDE DEF i
<1>7. /\ Sound(e) /\ SameOwner(e, d)
      /\ ShownContents(e) = Unlisted(ShownContents(d), "child", i)
      /\ e.items = TakenItems(d.items, "child", i)
      /\ e.order = TakenOut(d.order, "child", findPosition(d, "child", i) + 1)
  BY <1>1, <1>6, WithoutIs
<1>8. LET r == findPosition(d, "child", i) + 1
      IN /\ r \in 1..Len(d.order) /\ d.order[r] = PlaceOf("child", i)
         /\ findPosition(d, "child", i) = r - 1
  BY <1>1, <1>6, PlaceFound
<1>9. ShownContents(e) =
         RemoveAt(ShownContents(d), findPosition(d, "child", i) + 1)
  <2>1. Nth(ShownContents(d), "child", i) = findPosition(d, "child", i) + 1
    BY <1>1, <1>6, NthIs
  <2> QED
    BY <1>7, <2>1 DEF Unlisted
<1> HIDE DEF e
<1>10. w = RemoveAt(s, k)
  BY <1>1, <1>2, <1>6, <1>7 DEF NodeItems, TakenItems
<1>11. Kids(d) = Elements(s) /\ Kids(e) = Elements(w)
  BY <1>7, KidsAre
<1>12. Distinct(s)
  BY DEF Once
<1> HIDE DEF s, w
<1>13. Elements(w) = Elements(s) \ {s[k]} /\ Distinct(w)
  BY <1>2, <1>4, <1>10, <1>12, RemovedKids
<1>14. Once(e)
  BY <1>13 DEF Once, w
<1>15. Kids(e) = Kids(d) \ {c}
  BY <1>4, <1>11, <1>13
<1> QED
  BY <1>6, <1>7, <1>8, <1>9, <1>14, <1>15 DEF e, i, s

(* A node n of the data dt, with the handles hs of the nodes and their      *)
(* listed contents ls.                                                      *)
Linked(dt, n) == Once(dt[n]) /\ Kids(dt[n]) = {c \in Nodes : dt[c].parent = n}
Counted(d, number) ==
    /\ d.refs = number + IF d.parent = None THEN 0 ELSE 1
    /\ d.alive <=> d.refs > 0
    /\ ~d.alive => d = NoData
NodeGood(dt, hs, ls, n) ==
    /\ Sound(dt[n]) /\ Linked(dt, n) /\ Counted(dt[n], hs[n])
    /\ dt[n].alive => ShownContents(dt[n]) = ls[n]
NodesGood(dt, hs, ls) ==
    /\ DOMAIN dt = Nodes /\ hs \in [Nodes -> Nat]
    /\ ls = [n \in Nodes |-> ls[n]] /\ dt = [n \in Nodes |-> dt[n]]
    /\ \A n \in Nodes : NodeGood(dt, hs, ls, n)
NodesInv == NodesGood(data, handles, listed)

(* A node without contents shows nothing.                                   *)
LEMMA EmptyIs ==
  ASSUME NEW d \in [alive : BOOLEAN, parent : Nodes \cup {None}, refs : Nat,
                    order : {<<>>}, items : {[k \in NodeKinds |-> <<>>]}]
  PROVE  Sound(d) /\ Once(d) /\ Kids(d) = {} /\ ShownContents(d) = <<>>
<1>1. d.order = <<>> /\ \A kind \in NodeKinds : d.items[kind] = <<>>
  OBVIOUS
<1>2. d.order \in Seq(NodePlaces) /\ Len(d.order) = 0 /\ DOMAIN d.order = {}
  BY <1>1
<1>3. d.items \in NodeItems /\ \A kind \in NodeKinds : Len(d.items[kind]) = 0
  <2>1. d.items = [k \in NodeKinds |-> <<>>]
    OBVIOUS
  <2> QED
    BY <2>1 DEF NodeItems
<1>4. d \in NodeData
  BY <1>2, <1>3 DEF NodeData
<1>5. Ordered(d.order, d.items)
  BY <1>2, <1>3 DEF Ordered, Reaches, Ascends, Covers
<1>6. Sound(d)
  BY <1>4, <1>5 DEF Sound
<1>7. Len(d.items["child"]) = 0
  BY <1>3 DEF NodeKinds
<1>8. Kids(d) = {}
  BY <1>6, <1>7, KidsAre DEF Elements
<1>9. Once(d)
  BY <1>7 DEF Once, Distinct
<1>10. ShownContents(d) \in Seq(ItemsShown) /\ Len(ShownContents(d)) = 0
  BY <1>2, <1>6, SoundParts
<1> QED
  BY <1>6, <1>8, <1>9, <1>10, EmptySeq

(* A node that was freed has no contents, no parent and no count.           *)
LEMMA NoDataIs ==
  /\ Sound(NoData) /\ Once(NoData) /\ Kids(NoData) = {}
  /\ NoData.parent = None /\ NoData.refs = 0 /\ NoData.alive = FALSE
<1>1. NoData \in [alive : BOOLEAN, parent : Nodes \cup {None}, refs : Nat,
                  order : {<<>>}, items : {[k \in NodeKinds |-> <<>>]}]
  BY DEF NoData
<1>2. NoData.parent = None /\ NoData.refs = 0 /\ NoData.alive = FALSE
  BY DEF NoData
<1> QED
  BY <1>1, <1>2, EmptyIs

(* A new node has no contents, and the parent and count it was given.       *)
LEMMA NewDataIs ==
  ASSUME NEW parent \in Nodes \cup {None}, NEW refs \in Nat
  PROVE  LET d == NewData(parent, refs)
         IN /\ Sound(d) /\ Once(d) /\ Kids(d) = {} /\ ShownContents(d) = <<>>
            /\ d.parent = parent /\ d.refs = refs /\ d.alive = TRUE
<1> DEFINE d == NewData(parent, refs)
<1>1. /\ d \in [alive : BOOLEAN, parent : Nodes \cup {None}, refs : Nat,
                order : {<<>>}, items : {[k \in NodeKinds |-> <<>>]}]
      /\ d.parent = parent /\ d.refs = refs /\ d.alive = TRUE
  BY DEF NewData, NoData
<1> HIDE DEF d
<1> QED
  BY <1>1, EmptyIs DEF d

(* At the start no node is there.                                           *)
LEMMA NodesStart == NodesInit => NodesInv
<1> SUFFICES ASSUME NodesInit PROVE NodesInv
  OBVIOUS
<1>1. /\ data = [n \in Nodes |-> NoData] /\ handles = [n \in Nodes |-> 0]
      /\ listed = [n \in Nodes |-> <<>>]
  BY DEF NodesInit
<1>2. ASSUME NEW n \in Nodes PROVE NodeGood(data, handles, listed, n)
  <2>1. \A c \in Nodes : data[c] = NoData
    BY <1>1
  <2>2. n # None
    BY NodesAssumption DEF None
  <2>3. Linked(data, n)
    BY <2>1, <2>2, NoDataIs DEF Linked
  <2>4. Counted(data[n], handles[n])
    BY <1>1, <2>1, NoDataIs DEF Counted
  <2> QED
    BY <2>1, <2>3, <2>4, NoDataIs DEF NodeGood
<1> QED
  BY <1>1, <1>2 DEF NodesInv, NodesGood

-----------------------------------------------------------------------------
(* What is known of a node before a step.                                  *)
LEMMA NodeFacts ==
  ASSUME NodesInv, NEW n \in Nodes
  PROVE  /\ Sound(data[n]) /\ Once(data[n])
         /\ Kids(data[n]) = {c \in Nodes : data[c].parent = n}
         /\ data[n] \in NodeData
         /\ data[n].alive \in BOOLEAN /\ data[n].parent \in Nodes \cup {None}
         /\ data[n].refs \in Nat /\ handles[n] \in Nat
         /\ data[n].refs = handles[n] + IF data[n].parent = None THEN 0 ELSE 1
         /\ data[n].alive <=> data[n].refs > 0
         /\ ~data[n].alive => data[n] = NoData
         /\ data[n].alive => ShownContents(data[n]) = listed[n]
         /\ n # None /\ n \in Nat
<1>1. NodeGood(data, handles, listed, n) /\ handles[n] \in Nat
  BY DEF NodesInv, NodesGood
<1>2. data[n] \in NodeData
  BY <1>1 DEF NodeGood, Sound
<1>3. /\ data[n].alive \in BOOLEAN /\ data[n].parent \in Nodes \cup {None}
      /\ data[n].refs \in Nat
  BY <1>2 DEF NodeData
<1> QED
  BY <1>1, <1>2, <1>3, NodesAssumption DEF NodeGood, Linked, Counted, None

(* A node that is there has a count, and one that has a parent is there.   *)
LEMMA HeldIsAlive ==
  ASSUME NodesInv, NEW n \in Nodes
  PROVE  /\ handles[n] > 0 => data[n].alive
         /\ data[n].parent # None =>
               data[n].alive /\ data[data[n].parent].alive
         /\ ~data[n].alive => handles[n] = 0 /\ data[n].parent = None
                              /\ Kids(data[n]) = {}
<1>1. handles[n] > 0 \/ data[n].parent # None => data[n].alive
  BY NodeFacts
<1>2. ASSUME ~data[n].alive
      PROVE  handles[n] = 0 /\ data[n].parent = None /\ Kids(data[n]) = {}
  <2>1. data[n] = NoData
    BY <1>2, NodeFacts
  <2> QED
    BY <1>1, <1>2, <2>1, NodeFacts, NoDataIs
<1>3. ASSUME data[n].parent # None
      PROVE  data[data[n].parent].alive
  <2> DEFINE p == data[n].parent
  <2>1. p \in Nodes
    BY <1>3, NodeFacts
  <2>2. n \in Kids(data[p])
    BY <2>1, NodeFacts
  <2>3. data[p].alive \/ data[p] = NoData
    BY <2>1, NodeFacts
  <2> QED
    BY <2>2, <2>3, NoDataIs
<1> QED
  BY <1>1, <1>2, <1>3

(* A step that changes one node only, and keeps its owner and children.    *)
LEMMA ContentsChange ==
  ASSUME NodesInv, NEW p \in Nodes, data[p].alive, NEW e, NEW l,
         Sound(e), SameOwner(e, data[p]), Once(e), Kids(e) = Kids(data[p]),
         ShownContents(e) = l,
         data' = [data EXCEPT ![p] = e], listed' = [listed EXCEPT ![p] = l],
         handles' = handles
  PROVE  NodesInv'
<1>1. /\ DOMAIN data = Nodes /\ handles \in [Nodes -> Nat]
      /\ listed = [n \in Nodes |-> listed[n]] /\ data = [n \in Nodes |-> data[n]]
  BY DEF NodesInv, NodesGood
<1>2. /\ \A n \in Nodes : data'[n] = IF n = p THEN e ELSE data[n]
      /\ \A n \in Nodes : listed'[n] = IF n = p THEN l ELSE listed[n]
  BY <1>1
<1>3. \A n \in Nodes : SameOwner(data'[n], data[n])
  BY <1>2 DEF SameOwner
<1>4. \A n \in Nodes : {c \in Nodes : data'[c].parent = n}
                       = {c \in Nodes : data[c].parent = n}
  BY <1>3 DEF SameOwner
<1>5. ASSUME NEW n \in Nodes PROVE NodeGood(data', handles', listed', n)
  <2>1. Linked(data', n)
    BY <1>2, <1>4, NodeFacts DEF Linked
  <2>2. Counted(data'[n], handles'[n])
    BY <1>2, <1>3, NodeFacts DEF Counted, SameOwner
  <2>3. Sound(data'[n])
    BY <1>2, NodeFacts
  <2>4. data'[n].alive => ShownContents(data'[n]) = listed'[n]
    BY <1>2, <1>3, NodeFacts DEF SameOwner
  <2> QED
    BY <2>1, <2>2, <2>3, <2>4 DEF NodeGood
<1>6. /\ DOMAIN data' = Nodes /\ handles' \in [Nodes -> Nat]
      /\ listed' = [n \in Nodes |-> listed'[n]]
      /\ data' = [n \in Nodes |-> data'[n]]
  BY <1>1
<1> QED
  BY <1>5, <1>6 DEF NodesInv, NodesGood

(* Texts and clear texts that are added, and texts that are deleted.        *)
LEMMA TextsKeep ==
  ASSUME NodesInv, NEW p \in Nodes
  PROVE  /\ \A kind \in {"text", "clear"}, s \in Strings :
              \A pos \in SamePositions(data[p], kind) :
                 addString(p, kind, s, pos) => NodesInv'
         /\ \A i \in 0..MaxContents : deleteText(p, i) => NodesInv'
<1>1. ASSUME NEW kind \in {"text", "clear"}, NEW s \in Strings,
             NEW pos \in SamePositions(data[p], kind), addString(p, kind, s, pos)
      PROVE  NodesInv'
  <2> DEFINE e == Adding(data[p], kind, s, pos)
             l == Listed(listed[p], Item(kind, s), pos)
  <2>1. data[p].alive
    BY <1>1 DEF addString, Room
  <2>2. ShownContents(data[p]) = listed[p] /\ Sound(data[p]) /\ Once(data[p])
    BY <2>1, NodeFacts
  <2>3. /\ Sound(e) /\ SameOwner(e, data[p]) /\ Once(e)
        /\ Kids(e) = Kids(data[p]) /\ ShownContents(e) = l
    BY <2>2, AddedText
  <2>4. /\ data' = [data EXCEPT ![p] = e] /\ listed' = [listed EXCEPT ![p] = l]
        /\ handles' = handles
    BY <1>1 DEF addString
  <2> HIDE DEF e, l
  <2> QED
    BY <2>1, <2>3, <2>4, ContentsChange
<1>2. ASSUME NEW i \in 0..MaxContents, deleteText(p, i)
      PROVE  NodesInv'
  <2> DEFINE e == Without(data[p], "text", i)
             l == Unlisted(listed[p], "text", i)
  <2>0. i \in 0..(Len(data[p].items["text"]) - 1) /\ handles[p] > 0
    BY <1>2 DEF deleteText
  <2>1. data[p].alive
    BY <2>0, HeldIsAlive
  <2>2. ShownContents(data[p]) = listed[p] /\ Sound(data[p]) /\ Once(data[p])
    BY <2>1, NodeFacts
  <2>3. /\ Sound(e) /\ SameOwner(e, data[p]) /\ Once(e)
        /\ Kids(e) = Kids(data[p]) /\ ShownContents(e) = l
    BY <2>0, <2>2, TextTaken
  <2>4. /\ data' = [data EXCEPT ![p] = e] /\ listed' = [listed EXCEPT ![p] = l]
        /\ handles' = handles
    BY <1>2 DEF deleteText
  <2> HIDE DEF e, l
  <2> QED
    BY <2>1, <2>3, <2>4, ContentsChange
<1> QED
  BY <1>1, <1>2

(* As many as there are texts are moved: enough where all are moved.       *)
LEMMA ClearsMoved ==
  ASSUME NEW d, Sound(d), NEW i \in 0..(Len(d.items["clear"]) - 1),
         Len(d.items["text"]) >= Len(d.items["clear"]) - 1
  PROVE  WithoutClear(d, i) = Without(d, "clear", i)
<1> DEFINE s == d.items["clear"]
           texts == Len(d.items["text"])
           e == Without(d, "clear", i)
           w == [k \in 1..(Len(s) - 1) |->
                   IF k > i /\ k <= texts THEN s[k + 1] ELSE s[k]]
<1>1. "clear" \in NodeKinds /\ "text" \in NodeKinds
  BY DEF NodeKinds
<1>2. /\ s \in Seq(Contents) /\ Len(s) \in Nat /\ texts \in Nat
      /\ d.items \in NodeItems
  BY <1>1, SoundParts
<1>3. Sound(e) /\ e.items = TakenItems(d.items, "clear", i) /\ i + 1 \in 1..Len(s)
  BY <1>1, WithoutIs
<1>4. e.items["clear"] = RemoveAt(s, i + 1) /\ e \in NodeData /\ e.items \in NodeItems
  BY <1>1, <1>2, <1>3, SoundParts DEF TakenItems, NodeItems
<1>5. RemoveAt(s, i + 1) \in Seq(Contents) /\ IsRemoved(RemoveAt(s, i + 1), s, i + 1)
  BY <1>2, <1>3, RemovedIs
<1> DEFINE r == RemoveAt(s, i + 1)
<1> HIDE DEF r
<1>6. r = [k \in 1..(Len(s) - 1) |-> r[k]]
  BY <1>5, LenProperties DEF r, IsRemoved
<1>7. ASSUME NEW k \in 1..(Len(s) - 1)
      PROVE  (IF k > i /\ k <= texts THEN s[k + 1] ELSE s[k]) = r[k]
  <2>1. r[k] = IF k < i + 1 THEN s[k] ELSE s[k + 1]
    BY <1>5 DEF r, IsRemoved
  <2>2. k <= texts /\ (k > i <=> ~(k < i + 1))
    BY <1>2
  <2> HIDE DEF s, texts
  <2> QED
    BY <2>1, <2>2
<1>8. w = r
  <2> HIDE DEF s, texts
  <2> QED
    BY <1>6, <1>7
<1> HIDE DEF w, e
<1>9. [e EXCEPT !.items["clear"] = w] = e
  BY <1>4, <1>8 DEF NodeData, NodeItems, r
<1> QED
  BY <1>9 DEF WithoutClear, w, e

(* A clear text that is deleted where there are as many texts.              *)
LEMMA ClearsKeep ==
  ASSUME NodesInv, NEW p \in Nodes, NEW i \in 0..MaxContents,
         Len(data[p].items["text"]) >= Len(data[p].items["clear"]) - 1,
         deleteClear(p, i)
  PROVE  NodesInv'
<1> DEFINE e == Without(data[p], "clear", i)
           l == Unlisted(listed[p], "clear", i)
<1>0. i \in 0..(Len(data[p].items["clear"]) - 1) /\ handles[p] > 0
  BY DEF deleteClear
<1>1. data[p].alive
  BY <1>0, HeldIsAlive
<1>2. ShownContents(data[p]) = listed[p] /\ Sound(data[p]) /\ Once(data[p])
  BY <1>1, NodeFacts
<1>3. /\ Sound(e) /\ SameOwner(e, data[p]) /\ Once(e)
      /\ Kids(e) = Kids(data[p]) /\ ShownContents(e) = l
  BY <1>0, <1>2, TextTaken
<1>4. /\ data' = [data EXCEPT ![p] = e] /\ listed' = [listed EXCEPT ![p] = l]
      /\ handles' = handles
  <2>1. WithoutClear(data[p], i) = e
    BY <1>0, <1>2, ClearsMoved
  <2> QED
    BY <2>1 DEF deleteClear
<1> HIDE DEF e, l
<1> QED
  BY <1>1, <1>3, <1>4, ContentsChange

(* The types of data, handles and listed.                                   *)
LEMMA NodesTyped ==
  ASSUME NodesInv
  PROVE  /\ DOMAIN data = Nodes /\ handles \in [Nodes -> Nat]
         /\ listed = [n \in Nodes |-> listed[n]]
         /\ data = [n \in Nodes |-> data[n]]
BY DEF NodesInv, NodesGood

(* createXMLTopNode() makes a node with one handle and no parent.           *)
LEMMA CreatedKeeps ==
  ASSUME NodesInv, NEW c \in Nodes, createXMLTopNode(c)
  PROVE  NodesInv'
<1> DEFINE d == NewData(None, 1)
<1>1. ~data[c].alive
  BY DEF createXMLTopNode, Free
<1>2. data[c].parent = None /\ Kids(data[c]) = {}
  BY <1>1, HeldIsAlive
<1>3. /\ Sound(d) /\ Once(d) /\ Kids(d) = {} /\ ShownContents(d) = <<>>
      /\ d.parent = None /\ d.refs = 1 /\ d.alive = TRUE
  BY NewDataIs
<1> HIDE DEF d
<1>4. /\ data' = [data EXCEPT ![c] = d] /\ handles' = [handles EXCEPT ![c] = 1]
      /\ listed' = [listed EXCEPT ![c] = <<>>]
  BY DEF createXMLTopNode, d
<1>5. /\ \A n \in Nodes : data'[n] = IF n = c THEN d ELSE data[n]
      /\ \A n \in Nodes : handles'[n] = IF n = c THEN 1 ELSE handles[n]
      /\ \A n \in Nodes : listed'[n] = IF n = c THEN <<>> ELSE listed[n]
  BY <1>4, NodesTyped
<1>6. \A n \in Nodes : data'[n].parent = data[n].parent
  BY <1>2, <1>3, <1>5
<1>7. \A n \in Nodes : {k \in Nodes : data'[k].parent = n}
                       = {k \in Nodes : data[k].parent = n}
  BY <1>6
<1>8. ASSUME NEW n \in Nodes PROVE NodeGood(data', handles', listed', n)
  <2>1. Linked(data', n)
    BY <1>2, <1>3, <1>5, <1>7, NodeFacts DEF Linked
  <2>2. Counted(data'[n], handles'[n])
    BY <1>3, <1>5, NodeFacts DEF Counted
  <2>3. Sound(data'[n])
    BY <1>3, <1>5, NodeFacts
  <2>4. data'[n].alive => ShownContents(data'[n]) = listed'[n]
    BY <1>3, <1>5, NodeFacts
  <2> QED
    BY <2>1, <2>2, <2>3, <2>4 DEF NodeGood
<1>9. /\ DOMAIN data' = Nodes /\ handles' \in [Nodes -> Nat]
      /\ listed' = [n \in Nodes |-> listed'[n]]
      /\ data' = [n \in Nodes |-> data'[n]]
  BY <1>4, NodesTyped
<1> QED
  BY <1>8, <1>9 DEF NodesInv, NodesGood

(* addChild() with a name makes a node that its parent counts, and the      *)
(* handle if it is kept.                                                    *)
LEMMA NewChildKeeps ==
  ASSUME NodesInv, NEW p \in Nodes, NEW c \in Nodes,
         NEW pos \in SamePositions(data[p], "child"), addNewChild(p, c, pos)
  PROVE  NodesInv'
<1>1. data[p].alive /\ ~data[c].alive /\ p # c
  BY DEF addNewChild, Room, Free
<1>2. data[c].parent = None /\ Kids(data[c]) = {} /\ c \notin Kids(data[p])
  BY <1>1, HeldIsAlive, NodeFacts
<1>3. PICK kept \in {0, 1} :
         /\ data' = [data EXCEPT ![p] = Adding(@, "child", c, pos),
                                 ![c] = NewData(p, 1 + kept)]
         /\ handles' = [handles EXCEPT ![c] = kept]
  BY DEF addNewChild
<1> DEFINE d == NewData(p, 1 + kept)
           e == Adding(data[p], "child", c, pos)
           l == Listed(listed[p], Item("child", c), pos)
<1>4. /\ Sound(d) /\ Once(d) /\ Kids(d) = {} /\ ShownContents(d) = <<>>
      /\ d.parent = p /\ d.refs = 1 + kept /\ d.alive = TRUE
  <2>1. 1 + kept \in Nat /\ p \in Nodes \cup {None}
    OBVIOUS
  <2> QED
    BY <2>1, NewDataIs
<1>5. /\ Sound(e) /\ SameOwner(e, data[p]) /\ Once(e)
      /\ Kids(e) = Kids(data[p]) \cup {c} /\ ShownContents(e) = l
  <2>1. Sound(data[p]) /\ Once(data[p]) /\ ShownContents(data[p]) = listed[p]
    BY <1>1, NodeFacts
  <2> QED
    BY <1>2, <2>1, AddedChild
<1>6. /\ data' = [data EXCEPT ![p] = e, ![c] = d]
      /\ listed' = [listed EXCEPT ![p] = l, ![c] = <<>>]
  BY <1>3 DEF addNewChild
<1> HIDE DEF d, e, l
<1>7. /\ \A n \in Nodes : data'[n] = IF n = c THEN d ELSE IF n = p THEN e
                                     ELSE data[n]
      /\ \A n \in Nodes : handles'[n] = IF n = c THEN kept ELSE handles[n]
      /\ \A n \in Nodes : listed'[n] = IF n = c THEN <<>> ELSE IF n = p THEN l
                                       ELSE listed[n]
  BY <1>1, <1>3, <1>6, NodesTyped
<1>8. \A n \in Nodes : data'[n].parent = IF n = c THEN p ELSE data[n].parent
  BY <1>4, <1>5, <1>7 DEF SameOwner
<1>9. \A n \in Nodes : {k \in Nodes : data'[k].parent = n} =
         IF n = p THEN {k \in Nodes : data[k].parent = n} \cup {c}
         ELSE {k \in Nodes : data[k].parent = n}
  <2>1. \A n, k \in Nodes : data'[k].parent = n <=>
           data[k].parent = n \/ (k = c /\ n = p)
    BY <1>2, <1>8, NodeFacts
  <2> QED
    BY <2>1
<1>10. ASSUME NEW n \in Nodes PROVE NodeGood(data', handles', listed', n)
  <2>0. CASE n = c
    <3>1. Linked(data', n)
      BY <1>1, <1>2, <1>4, <1>7, <1>9, <2>0, NodeFacts DEF Linked
    <3>2. Counted(data'[n], handles'[n])
      BY <1>4, <1>7, <2>0, NodeFacts DEF Counted
    <3> QED
      BY <1>4, <1>7, <2>0, <3>1, <3>2 DEF NodeGood
  <2>1. CASE n = p
    <3>1. Linked(data', n)
      BY <1>1, <1>5, <1>7, <1>9, <2>1, NodeFacts DEF Linked
    <3>2. Counted(data'[n], handles'[n])
      <4>1. data'[n] = e /\ handles'[n] = handles[p]
        BY <1>1, <1>7, <2>1
      <4>2. /\ e.refs = data[p].refs /\ e.parent = data[p].parent
            /\ e.alive = data[p].alive
        BY <1>5 DEF SameOwner
      <4>3. Counted(e, handles[p])
        BY <1>1, <4>2, NodeFacts DEF Counted
      <4> QED
        BY <4>1, <4>3
    <3> QED
      BY <1>1, <1>5, <1>7, <2>1, <3>1, <3>2 DEF NodeGood
  <2>2. CASE n # c /\ n # p
    <3>1. Linked(data', n)
      BY <1>7, <1>9, <2>2, NodeFacts DEF Linked
    <3>2. Counted(data'[n], handles'[n])
      BY <1>7, <2>2, NodeFacts DEF Counted
    <3>3. Sound(data'[n]) /\ (data'[n].alive => ShownContents(data'[n]) = listed'[n])
      BY <1>7, <2>2, NodeFacts
    <3> QED
      BY <3>1, <3>2, <3>3 DEF NodeGood
  <2> QED
    BY <2>0, <2>1, <2>2
<1>11. /\ DOMAIN data' = Nodes /\ handles' \in [Nodes -> Nat]
       /\ listed' = [n \in Nodes |-> listed'[n]]
       /\ data' = [n \in Nodes |-> data'[n]]
  <2>1. handles' \in [Nodes -> Nat]
    BY <1>3, NodesTyped
  <2>2. DOMAIN data' = Nodes /\ data' = [n \in Nodes |-> data'[n]]
    BY <1>6, NodesTyped
  <2>3. listed' = [n \in Nodes |-> listed'[n]]
    BY <1>6, NodesTyped
  <2> QED
    BY <2>1, <2>2, <2>3
<1> QED
  BY <1>10, <1>11 DEF NodesInv, NodesGood

(* More or fewer handles of a node that is and stays there.                *)
LEMMA CountChanges ==
  ASSUME NodesInv, NEW c \in Nodes, data[c].alive, NEW by \in {-1, 1},
         data[c].refs + by > 0, handles[c] + by \in Nat,
         data' = [data EXCEPT ![c].refs = @ + by],
         handles' = [handles EXCEPT ![c] = @ + by],
         \A n \in Nodes : data'[n].alive => listed'[n] = listed[n],
         listed' = [n \in Nodes |-> listed'[n]]
  PROVE  NodesInv'
<1> DEFINE d == [data[c] EXCEPT !.refs = @ + by]
<1>1. data[c] \in NodeData /\ data[c].refs \in Nat /\ data[c].refs + by \in Nat
  BY NodeFacts
<1>2. /\ d \in NodeData /\ d.refs = data[c].refs + by
      /\ d.order = data[c].order /\ d.items = data[c].items
      /\ d.alive = data[c].alive /\ d.parent = data[c].parent
  <2> DEFINE o == data[c]
  <2>1. o \in NodeData /\ o.refs + by \in Nat
    BY <1>1
  <2> HIDE DEF o
  <2>2. [o EXCEPT !.refs = @ + by] \in NodeData
    BY <2>1 DEF NodeData
  <2>3. \A f \in {"order", "items", "alive", "parent"} :
           [o EXCEPT !.refs = @ + by][f] = o[f]
    BY <2>1 DEF NodeData
  <2>4. [o EXCEPT !.refs = @ + by].refs = o.refs + by
    BY <2>1 DEF NodeData
  <2> QED
    BY <2>2, <2>3, <2>4 DEF o
<1> HIDE DEF d
<1>3. data' = [data EXCEPT ![c] = d]
  BY NodesTyped DEF d
<1>4. /\ \A n \in Nodes : data'[n] = IF n = c THEN d ELSE data[n]
      /\ \A n \in Nodes : handles'[n] = IF n = c THEN handles[n] + by
                                        ELSE handles[n]
  BY <1>3, NodesTyped
<1>5. /\ Sound(d) /\ Once(d) /\ Kids(d) = Kids(data[c])
      /\ ShownContents(d) = ShownContents(data[c])
  BY <1>2, NodeFacts DEF Sound, Once, Kids, ShownContents
<1>6. \A n \in Nodes : data'[n].parent = data[n].parent
  BY <1>2, <1>4
<1>7. \A n \in Nodes : {k \in Nodes : data'[k].parent = n}
                       = {k \in Nodes : data[k].parent = n}
  BY <1>6
<1>8. ASSUME NEW n \in Nodes PROVE NodeGood(data', handles', listed', n)
  <2>1. Linked(data', n)
    BY <1>4, <1>5, <1>7, NodeFacts DEF Linked
  <2>2. Counted(data'[n], handles'[n])
    <3>1. CASE n = c
      <4>1. d.refs = handles[c] + by + IF d.parent = None THEN 0 ELSE 1
        BY <1>1, <1>2, NodeFacts
      <4>2. d.refs > 0 /\ d.alive
        BY <1>2
      <4>3. Counted(d, handles[c] + by)
        BY <4>1, <4>2 DEF Counted
      <4>4. data'[n] = d /\ handles'[n] = handles[c] + by
        BY <1>4, <3>1
      <4> QED
        BY <4>3, <4>4
    <3>2. CASE n # c
      BY <1>4, <3>2, NodeFacts DEF Counted
    <3> QED
      BY <3>1, <3>2
  <2>3. Sound(data'[n])
    BY <1>4, <1>5, NodeFacts
  <2>4. data'[n].alive => ShownContents(data'[n]) = listed'[n]
    BY <1>2, <1>4, <1>5, NodeFacts
  <2> QED
    BY <2>1, <2>2, <2>3, <2>4 DEF NodeGood
<1>9. /\ DOMAIN data' = Nodes /\ handles' \in [Nodes -> Nat]
      /\ listed' = [n \in Nodes |-> listed'[n]]
      /\ data' = [n \in Nodes |-> data'[n]]
  BY <1>3, NodesTyped
<1> QED
  BY <1>8, <1>9 DEF NodesInv, NodesGood

(* getChildNode() hands out one more handle of a child.                     *)
LEMMA HandleKeeps ==
  ASSUME NodesInv, NEW p \in Nodes, NEW i \in 1..MaxContents, getChildNode(p, i)
  PROVE  NodesInv'
<1> DEFINE c == data[p].items["child"][i]
<1>1. i \in DOMAIN data[p].items["child"]
  BY DEF getChildNode
<1>2. c \in Kids(data[p])
  BY <1>1 DEF Kids, ToSet
<1>3. c \in Nodes /\ data[c].parent = p /\ p # None
  BY <1>2, NodeFacts
<1>4. /\ data' = [data EXCEPT ![c].refs = @ + 1]
      /\ handles' = [handles EXCEPT ![c] = @ + 1] /\ listed' = listed
  BY DEF getChildNode
<1> HIDE DEF c
<1>5. data[c].alive /\ data[c].refs \in Nat /\ handles[c] \in Nat
  BY <1>3, HeldIsAlive, NodeFacts
<1>6. data[c].refs + 1 > 0 /\ handles[c] + 1 \in Nat
  BY <1>5
<1>7. /\ \A n \in Nodes : listed'[n] = listed[n]
      /\ listed' = [n \in Nodes |-> listed'[n]]
  BY <1>4, NodesTyped
<1> QED
  BY <1>3, <1>4, <1>5, <1>6, <1>7, CountChanges

(* The node c taken from its parent, if it has one, and held once more if   *)
(* it had none: dt is left, with the listed contents ls.                    *)
LooseGood(dt, ls, c) ==
    /\ dt = [n \in Nodes |-> dt[n]] /\ ls = [n \in Nodes |-> ls[n]]
    /\ \A n \in Nodes :
          /\ Sound(dt[n]) /\ Once(dt[n]) /\ Kids(dt[n]) = Kids(data[n]) \ {c}
          /\ dt[n].alive = data[n].alive /\ dt[n].parent = data[n].parent
          /\ dt[n].refs = IF n = c THEN handles[c] + 1 ELSE data[n].refs
          /\ data[n].alive => ShownContents(dt[n]) = ls[n]
          /\ n # data[c].parent => dt[n].order = data[n].order

(* The place of c in its parent's order, from 0 on. *)
WasAt(c) == findPosition(data[data[c].parent], "child",
                         IndexOfChild(data[data[c].parent], c))

(* Another count or parent changes neither contents nor children.           *)
LEMMA RefsSet ==
  ASSUME NEW d \in NodeData, Sound(d), Once(d),
         NEW e \in NodeData, e.order = d.order, e.items = d.items
  PROVE  /\ Sound(e) /\ Once(e) /\ Kids(e) = Kids(d)
         /\ ShownContents(e) = ShownContents(d)
BY DEF Sound, Once, Kids, ShownContents

(* A node that is going to be added elsewhere is in no array of children    *)
(* any more, and counts its handles and one parent.                         *)
LEMMA LooseIs ==
  ASSUME NodesInv, NEW c \in Nodes, handles[c] > 0
  PROVE  LooseGood(Loose(c), IF data[c].parent = None THEN listed
             ELSE [listed EXCEPT ![data[c].parent] = RemoveAt(@, WasAt(c) + 1)], c)
<1>1. data[c].alive /\ data[c].parent \in Nodes \cup {None} /\ c # None
  BY HeldIsAlive, NodeFacts
<1>2. CASE data[c].parent = None
  <2> DEFINE d == [data[c] EXCEPT !.refs = @ + 1]
             dt == Loose(c)
  <2>1. data[c] \in NodeData /\ data[c].refs = handles[c] /\ handles[c] \in Nat
    BY <1>2, NodeFacts
  <2>2. /\ d \in NodeData /\ d.refs = handles[c] + 1
        /\ d.order = data[c].order /\ d.items = data[c].items
        /\ d.alive = data[c].alive /\ d.parent = data[c].parent
    <3> DEFINE o == data[c]
    <3>1. o \in NodeData /\ o.refs + 1 \in Nat /\ o.refs + 1 = handles[c] + 1
      BY <2>1
    <3> HIDE DEF o
    <3>2. [o EXCEPT !.refs = @ + 1] \in NodeData
      BY <3>1 DEF NodeData
    <3>3. \A f \in {"order", "items", "alive", "parent"} :
             [o EXCEPT !.refs = @ + 1][f] = o[f]
      BY <3>1 DEF NodeData
    <3>4. [o EXCEPT !.refs = @ + 1].refs = handles[c] + 1
      BY <3>1 DEF NodeData
    <3> QED
      BY <3>2, <3>3, <3>4 DEF o
  <2> HIDE DEF d
  <2>3. dt = [data EXCEPT ![c] = d]
    BY <1>2, NodesTyped DEF Loose, d
  <2> HIDE DEF dt
  <2>4. \A n \in Nodes : dt[n] = IF n = c THEN d ELSE data[n]
    BY <2>3, NodesTyped
  <2>5. /\ Sound(d) /\ Once(d) /\ Kids(d) = Kids(data[c])
        /\ ShownContents(d) = ShownContents(data[c])
    BY <2>1, <2>2, NodeFacts, RefsSet
  <2>6. \A n \in Nodes : c \notin Kids(data[n])
    BY <1>2, NodeFacts
  <2>7. ASSUME NEW n \in Nodes
        PROVE  /\ Sound(dt[n]) /\ Once(dt[n]) /\ Kids(dt[n]) = Kids(data[n]) \ {c}
               /\ dt[n].alive = data[n].alive /\ dt[n].parent = data[n].parent
               /\ dt[n].refs = IF n = c THEN handles[c] + 1 ELSE data[n].refs
               /\ data[n].alive => ShownContents(dt[n]) = listed[n]
               /\ n # data[c].parent => dt[n].order = data[n].order
    <3>1. CASE n = c
      <4>1. Kids(d) = Kids(data[n]) \ {c}
        BY <2>5, <2>6, <3>1
      <4> QED
        BY <2>2, <2>4, <2>5, <3>1, <4>1, NodeFacts
    <3>2. CASE n # c
      <4>1. Kids(data[n]) = Kids(data[n]) \ {c}
        BY <2>6
      <4> QED
        BY <2>4, <3>2, <4>1, NodeFacts
    <3> QED
      BY <3>1, <3>2
  <2>8. dt = [n \in Nodes |-> dt[n]]
    BY <2>3, NodesTyped
  <2>9. LooseGood(dt, listed, c)
    BY <2>7, <2>8, NodesTyped DEF LooseGood
  <2> QED
    BY <1>2, <2>9 DEF dt
<1>3. CASE data[c].parent # None
  <2> DEFINE q == data[c].parent
             i == IndexOfChild(data[q], c)
             e == Without(data[q], "child", i)
             l == RemoveAt(listed[q], WasAt(c) + 1)
             ls == [listed EXCEPT ![q] = l]
             dt == Loose(c)
  <2>1. q \in Nodes /\ c \in Kids(data[q])
    BY <1>1, <1>3, NodeFacts
  <2>2. data[q].alive /\ Sound(data[q]) /\ Once(data[q])
        /\ ShownContents(data[q]) = listed[q]
    BY <1>3, <2>1, HeldIsAlive, NodeFacts
  <2>3. /\ Sound(e) /\ SameOwner(e, data[q]) /\ Once(e)
        /\ Kids(e) = Kids(data[q]) \ {c}
        /\ ShownContents(e) = l
    BY <2>1, <2>2, ChildTaken DEF WasAt
  <2>4. dt = [data EXCEPT ![q] = e]
    BY <1>3 DEF Loose, detachFromParent
  <2> HIDE DEF e, l, dt
  <2>5. /\ \A n \in Nodes : dt[n] = IF n = q THEN e ELSE data[n]
        /\ \A n \in Nodes : ls[n] = IF n = q THEN l ELSE listed[n]
        /\ dt = [n \in Nodes |-> dt[n]] /\ ls = [n \in Nodes |-> ls[n]]
    BY <2>4, NodesTyped
  <2>6. \A n \in Nodes : n # q => c \notin Kids(data[n])
    BY NodeFacts
  <2>7. data[c].refs = handles[c] + 1
    BY <1>3, NodeFacts
  <2> HIDE DEF ls
  <2>8. ASSUME NEW n \in Nodes
        PROVE  /\ Sound(dt[n]) /\ Once(dt[n]) /\ Kids(dt[n]) = Kids(data[n]) \ {c}
               /\ dt[n].alive = data[n].alive /\ dt[n].parent = data[n].parent
               /\ dt[n].refs = IF n = c THEN handles[c] + 1 ELSE data[n].refs
               /\ data[n].alive => ShownContents(dt[n]) = ls[n]
               /\ n # data[c].parent => dt[n].order = data[n].order
    <3>1. CASE n = q
      <4>1. /\ e.alive = data[n].alive /\ e.parent = data[n].parent
            /\ e.refs = data[n].refs
        BY <2>3, <3>1 DEF SameOwner
      <4>2. e.refs = IF n = c THEN handles[c] + 1 ELSE data[n].refs
        BY <2>7, <4>1
      <4> QED
        BY <2>3, <2>5, <3>1, <4>1, <4>2
    <3>2. CASE n # q
      <4>1. Kids(data[n]) = Kids(data[n]) \ {c}
        BY <2>6, <3>2
      <4>2. data[n].refs = IF n = c THEN handles[c] + 1 ELSE data[n].refs
        BY <2>7
      <4> QED
        BY <2>5, <3>2, <4>1, <4>2, NodeFacts
    <3> QED
      BY <3>1, <3>2
  <2>9. LooseGood(dt, ls, c)
    BY <2>5, <2>8 DEF LooseGood
  <2> QED
    BY <1>3, <2>9 DEF dt, ls, l
<1> QED
  BY <1>2, <1>3

(* A range from 1 has one length.                                           *)
LEMMA SameLength ==
  ASSUME NEW a \in Nat, NEW b \in Nat, 1..a = 1..b
  PROVE  a = b
<1>1. \A k \in Int : (1 <= k /\ k <= a) <=> (1 <= k /\ k <= b)
  OBVIOUS
<1>2. a > 0 => a <= b
  BY ONLY <1>1, a \in Nat, b \in Nat
<1>3. b > 0 => b <= a
  BY ONLY <1>1, a \in Nat, b \in Nat
<1> QED
  BY ONLY <1>2, <1>3, a \in Nat, b \in Nat

LessOne(u, o, n, r) == \A k \in 1..(n - 1) : u[k] =
    IF k < r THEN o[k] ELSE Earlier(o[k + 1], "child")
MovesTo(u, n, r, pos, to) ==
    /\ to + 1 \in 1..(n - 1) /\ u[to + 1].kind = "child"
    /\ (to + 1) - 1 = to
    /\ r - 1 <= pos <=> r - 1 < pos
(* Where a place of the same kind is once the r-th place is taken out.      *)
LEMMA PlaceMoves ==
  ASSUME NEW o, NEW n \in Nat, NEW r \in 1..n, NEW pos \in 0..(n - 1),
         pos + 1 # r, o[pos + 1].kind = "child", NEW u, LessOne(u, o, n, r)
  PROVE  MovesTo(u, n, r, pos, IF r - 1 <= pos THEN pos - 1 ELSE pos)
<1>1. CASE pos + 1 < r
  <2>1. pos + 1 \in 1..(n - 1) /\ ~(r - 1 <= pos) /\ ~(r - 1 < pos)
        /\ (pos + 1) - 1 = pos
    BY ONLY <1>1, n \in Nat, r \in 1..n, pos \in 0..(n - 1)
  <2>2. u[pos + 1] = o[pos + 1]
    BY <1>1, <2>1 DEF LessOne
  <2> QED
    BY <2>1, <2>2 DEF MovesTo
<1>2. CASE pos + 1 > r
  <2>1. pos \in 1..(n - 1) /\ ~(pos < r) /\ r - 1 <= pos /\ r - 1 < pos
        /\ (pos - 1) + 1 = pos /\ ((pos - 1) + 1) - 1 = pos - 1
    BY ONLY <1>2, n \in Nat, r \in 1..n, pos \in 0..(n - 1)
  <2>2. u[pos] = Earlier(o[pos + 1], "child")
    BY <2>1 DEF LessOne
  <2>3. u[pos].kind = "child"
    BY <2>2 DEF Earlier, PlaceOf
  <2> QED
    BY <2>1, <2>3 DEF MovesTo
<1>3. pos + 1 < r \/ pos + 1 > r
  BY ONLY pos + 1 # r, n \in Nat, r \in 1..n, pos \in 0..(n - 1)
<1> QED
  BY <1>1, <1>2, <1>3

(* The place that is asked for is one of the parent without the node.      *)
LEMMA PlaceIsLeft ==
  ASSUME NodesInv, NEW c \in Nodes, NEW p \in Nodes, p = data[c].parent,
         NEW pos \in SamePositions(data[p], "child"),
         pos >= 0 => data[p].items["child"][data[p].order[pos + 1].index + 1] # c,
         NEW e, e = Without(data[p], "child", IndexOfChild(data[p], c))
  PROVE  /\ (IF WasAt(c) <= pos THEN pos - 1 ELSE pos) \in SamePositions(e, "child")
         /\ WasAt(c) <= pos <=> WasAt(c) < pos
<1> DEFINE d == data[p]
           o == d.order
           n == Len(o)
           i == IndexOfChild(d, c)
           r == findPosition(d, "child", i) + 1
           u == e.order
<1>1. Sound(d) /\ Once(d) /\ c \in Kids(d)
  BY NodeFacts
<1>2. /\ i \in 0..(Len(d.items["child"]) - 1) /\ d.items["child"][i + 1] = c
      /\ Sound(e) /\ u = TakenOut(o, "child", r)
      /\ r \in 1..n /\ o[r] = PlaceOf("child", i)
      /\ findPosition(d, "child", i) = r - 1
  <2> DEFINE w == Without(d, "child", i)
  <2>1. /\ i \in 0..(Len(d.items["child"]) - 1) /\ d.items["child"][i + 1] = c
        /\ Sound(w) /\ w.order = TakenOut(o, "child", r)
        /\ r \in 1..n /\ o[r] = PlaceOf("child", i)
        /\ findPosition(d, "child", i) = r - 1
    <3> HIDE DEF d
    <3> QED
      BY ONLY <1>1, ChildTaken
  <2>2. e = w
    OBVIOUS
  <2> HIDE DEF w, i, r, n, o, d
  <2> QED
    BY ONLY <2>1, <2>2
<1>3. WasAt(c) = r - 1
  BY <1>2 DEF WasAt
<1>4. DOMAIN u = 1..(n - 1) /\ n \in Nat /\ LessOne(u, o, n, r)
  <2>1. n \in Nat
    BY <1>1, SoundParts
  <2> QED
    BY <1>2, <2>1 DEF TakenOut, LessOne
<1>5. \A k \in DOMAIN u : u[k].kind = "child" => k - 1 \in SamePositions(e, "child")
  BY DEF SamePositions
<1>6. -1 \in SamePositions(e, "child")
  BY DEF SamePositions
<1>7. pos \in Int /\ (pos # -1 => pos >= 0 /\ pos < n /\ o[pos + 1].kind = "child")
  BY <1>1, PositionsAre DEF NodeKinds
<1>8. pos # -1 => pos + 1 # r
  <2>1. ASSUME pos # -1, pos + 1 = r PROVE FALSE
    <3>1. o[pos + 1] = PlaceOf("child", i) /\ pos >= 0
      BY <1>2, <1>7, <2>1
    <3>2. o[pos + 1].index = i
      BY <3>1 DEF PlaceOf
    <3> QED
      BY <1>2, <3>1, <3>2
  <2> QED
    BY <2>1
<1> HIDE DEF n, r, o, i, d, u
<1>9. CASE pos = -1
  <2>1. ~(r - 1 <= pos) /\ ~(r - 1 < pos)
    BY ONLY <1>2, <1>4, <1>9
  <2> QED
    BY <1>3, <1>6, <1>9, <2>1
<1>10. CASE pos # -1
  <2>1. n \in Nat /\ r \in 1..n /\ pos \in 0..(n - 1) /\ pos + 1 # r
        /\ o[pos + 1].kind = "child"
    BY ONLY <1>2, <1>4, <1>7, <1>8, <1>10
  <2> DEFINE to == IF r - 1 <= pos THEN pos - 1 ELSE pos
  <2>2. MovesTo(u, n, r, pos, to)
    BY <1>4, <2>1, PlaceMoves
  <2> HIDE DEF to
  <2>3. to \in SamePositions(e, "child")
    BY <1>4, <1>5, <2>2 DEF MovesTo
  <2> QED
    BY <1>3, <2>2, <2>3 DEF to, MovesTo
<1> QED
  BY <1>9, <1>10

(* A node added to a parent, from no parent, from another or from another   *)
(* place of the same one.                                                   *)
LEMMA AddedKeeps ==
  ASSUME NodesInv, NEW p \in Nodes, NEW c \in Nodes,
         NEW pos \in SamePositions(data[p], "child"),
         pos >= 0 => data[p].items["child"][data[p].order[pos + 1].index + 1] # c,
         addChild(p, c, pos)
  PROVE  NodesInv'
<1> DEFINE from == data[c].parent
           was == IF from = None THEN -1 ELSE
                  findPosition(data[from], "child", IndexOfChild(data[from], c))
           at == IF from = p /\ was <= pos THEN pos - 1 ELSE pos
           left == IF from = None THEN listed
                   ELSE [listed EXCEPT ![from] = RemoveAt(@, was + 1)]
           to == IF from = p /\ was < pos THEN pos - 1 ELSE pos
           dt == Loose(c)
           x == Item("child", c)
           e == Adding(dt[p], "child", c, at)
           l == Listed(left[p], x, to)
           d == [dt[c] EXCEPT !.parent = p]
<1>1. /\ data' = [dt EXCEPT ![p] = Adding(@, "child", c, at), ![c].parent = p]
      /\ listed' = [left EXCEPT ![p] = Listed(@, x, to)]
      /\ handles' = handles
  BY DEF addChild
<1>2. data[p].alive /\ handles[c] > 0 /\ p # c /\ p # None
  <2>1. c \in Below(c)
    BY DEF Below, FreedWith
  <2> QED
    BY <2>1, NodeFacts DEF addChild, Room
<1>3. LooseGood(dt, left, c)
  <2>1. from # None => was = WasAt(c)
    BY DEF WasAt
  <2>2. left = IF from = None THEN listed
               ELSE [listed EXCEPT ![from] = RemoveAt(@, WasAt(c) + 1)]
    BY <2>1
  <2> HIDE DEF dt, left, was
  <2> QED
    BY <1>2, <2>2, LooseIs DEF dt
<1>4. at \in SamePositions(dt[p], "child") /\ to = at
  <2>1. CASE from = p
    <3> DEFINE w == Without(data[p], "child", IndexOfChild(data[p], c))
    <3>1. was = WasAt(c)
      BY <1>2, <2>1 DEF WasAt
    <3>2. /\ (IF WasAt(c) <= pos THEN pos - 1 ELSE pos) \in SamePositions(w, "child")
          /\ WasAt(c) <= pos <=> WasAt(c) < pos
      BY <2>1, PlaceIsLeft
    <3>3. dt[p] = w
      BY <1>2, <2>1, NodesTyped DEF Loose, detachFromParent
    <3> HIDE DEF w, dt, was
    <3> QED
      BY <2>1, <3>1, <3>2, <3>3
  <2>2. CASE from # p
    <3>1. at = pos /\ to = pos
      BY <2>2
    <3>2. dt[p].order = data[p].order
      BY <1>3, <2>2 DEF LooseGood
    <3> HIDE DEF dt, at, to
    <3> QED
      BY <3>1, <3>2 DEF SamePositions
  <2> QED
    BY <2>1, <2>2
<1> HIDE DEF was, at, to, left, dt
<1>5. ASSUME NEW n \in Nodes
      PROVE  /\ Sound(dt[n]) /\ Once(dt[n]) /\ Kids(dt[n]) = Kids(data[n]) \ {c}
             /\ dt[n].alive = data[n].alive /\ dt[n].parent = data[n].parent
             /\ dt[n].refs = IF n = c THEN handles[c] + 1 ELSE data[n].refs
             /\ data[n].alive => ShownContents(dt[n]) = left[n]
  BY <1>3 DEF LooseGood
<1>6. dt = [n \in Nodes |-> dt[n]] /\ left = [n \in Nodes |-> left[n]]
  BY <1>3 DEF LooseGood
<1>7. /\ Sound(e) /\ SameOwner(e, dt[p]) /\ Once(e)
      /\ Kids(e) = (Kids(data[p]) \ {c}) \cup {c}
      /\ ShownContents(e) = l
  <2>1. Sound(dt[p]) /\ Once(dt[p]) /\ c \notin Kids(dt[p])
        /\ ShownContents(dt[p]) = left[p]
    BY <1>2, <1>5
  <2>2. /\ Sound(e) /\ SameOwner(e, dt[p]) /\ Once(e)
        /\ Kids(e) = Kids(dt[p]) \cup {c}
        /\ ShownContents(e) = Listed(ShownContents(dt[p]), Item("child", c), at)
    BY <1>4, <2>1, AddedChild
  <2> HIDE DEF e
  <2> QED
    BY <1>4, <1>5, <2>1, <2>2
<1>8. /\ Sound(d) /\ Once(d) /\ Kids(d) = Kids(data[c]) \ {c}
      /\ ShownContents(d) = ShownContents(dt[c])
      /\ d.alive = data[c].alive /\ d.parent = p /\ d.refs = handles[c] + 1
  <2> DEFINE o == dt[c]
  <2>1. Sound(o) /\ Once(o) /\ o \in NodeData
    BY <1>5, SoundParts
  <2> HIDE DEF o
  <2> DEFINE u == [o EXCEPT !.parent = p]
  <2>2. /\ u \in NodeData /\ u.parent = p
        /\ u.order = o.order /\ u.items = o.items
        /\ u.alive = o.alive /\ u.refs = o.refs
    BY <2>1 DEF NodeData
  <2>3. d = u
    BY DEF o
  <2> HIDE DEF u, d
  <2>4. Sound(d) /\ Once(d) /\ Kids(d) = Kids(o) /\ ShownContents(d) = ShownContents(o)
    BY <2>1, <2>2, <2>3, RefsSet
  <2> QED
    BY <1>5, <2>2, <2>3, <2>4 DEF o
<1>9. /\ data' = [dt EXCEPT ![p] = e, ![c] = d]
      /\ listed' = [left EXCEPT ![p] = l]
  BY <1>1, <1>2, <1>6
<1> HIDE DEF d, e, l
<1>10. /\ \A n \in Nodes : data'[n] = IF n = c THEN d ELSE IF n = p THEN e
                                      ELSE dt[n]
       /\ \A n \in Nodes : listed'[n] = IF n = p THEN l ELSE left[n]
  BY <1>2, <1>6, <1>9
<1>11. \A n \in Nodes : data'[n].parent = IF n = c THEN p ELSE data[n].parent
  BY <1>5, <1>7, <1>8, <1>10 DEF SameOwner
<1>12. \A n \in Nodes : {k \in Nodes : data'[k].parent = n} =
          IF n = p THEN (Kids(data[n]) \ {c}) \cup {c} ELSE Kids(data[n]) \ {c}
  <2>1. \A n, k \in Nodes : data'[k].parent = n <=>
           IF k = c THEN n = p ELSE k \in Kids(data[n])
    BY <1>11, NodeFacts
  <2>2. \A n \in Nodes : Kids(data[n]) \subseteq Nodes
    BY NodeFacts
  <2> QED
    BY <2>1, <2>2
<1>13. ASSUME NEW n \in Nodes PROVE NodeGood(data', handles', listed', n)
  <2>0. CASE n = c
    <3>1. Linked(data', n)
      BY <1>2, <1>8, <1>10, <1>12, <2>0 DEF Linked
    <3>2. Counted(d, handles[c])
      <4>1. data[c].alive /\ handles[c] \in Nat
        BY <1>2, HeldIsAlive, NodeFacts
      <4>2. d.refs > 0
        BY <1>8, <4>1
      <4> QED
        BY <1>2, <1>8, <4>1, <4>2 DEF Counted
    <3>3. data'[n] = d /\ handles'[n] = handles[c] /\ listed'[n] = left[c]
      BY <1>1, <1>2, <1>10, <2>0
    <3> QED
      BY <1>5, <1>8, <3>1, <3>2, <3>3 DEF NodeGood
  <2>1. CASE n = p
    <3>1. Linked(data', n)
      BY <1>2, <1>7, <1>10, <1>12, <2>1 DEF Linked
    <3>2. Counted(e, handles[p])
      <4>1. /\ e.refs = data[p].refs /\ e.parent = data[p].parent
            /\ e.alive = data[p].alive
        BY <1>2, <1>5, <1>7 DEF SameOwner
      <4> QED
        BY <1>2, <4>1, NodeFacts DEF Counted
    <3>3. data'[n] = e /\ handles'[n] = handles[p] /\ listed'[n] = l
      BY <1>1, <1>2, <1>10, <2>1
    <3> QED
      BY <1>7, <3>1, <3>2, <3>3 DEF NodeGood
  <2>2. CASE n # c /\ n # p
    <3>1. data'[n] = dt[n] /\ handles'[n] = handles[n] /\ listed'[n] = left[n]
      BY <1>1, <1>10, <2>2
    <3>2. Linked(data', n)
      BY <1>5, <1>12, <2>2, <3>1 DEF Linked
    <3>3. Counted(dt[n], handles[n])
      <4>1. /\ dt[n].refs = data[n].refs /\ dt[n].parent = data[n].parent
            /\ dt[n].alive = data[n].alive
        BY <1>5, <2>2
      <4>2. ~data[n].alive => dt[n] = NoData
        <5>1. ASSUME ~data[n].alive PROVE dt[n] = data[n]
          <6>1. CASE from = None
            BY <1>6, <2>2, <6>1, NodesTyped DEF Loose, dt
          <6>2. CASE from # None
            <7>1. n # from
              BY <5>1, <6>2, HeldIsAlive
            <7> QED
              BY <6>2, <7>1, NodesTyped DEF Loose, dt, detachFromParent
          <6> QED
            BY <6>1, <6>2
        <5> QED
          BY <5>1, NodeFacts
      <4> QED
        BY <4>1, <4>2, NodeFacts DEF Counted
    <3> QED
      BY <1>5, <3>1, <3>2, <3>3 DEF NodeGood
  <2> QED
    BY <2>0, <2>1, <2>2
<1>14. /\ DOMAIN data' = Nodes /\ handles' \in [Nodes -> Nat]
       /\ listed' = [n \in Nodes |-> listed'[n]]
       /\ data' = [n \in Nodes |-> data'[n]]
  BY <1>1, <1>6, <1>9, NodesTyped
<1> QED
  BY <1>13, <1>14 DEF NodesInv, NodesGood

(* What goes with a node is closed under what is followed, and holds only   *)
(* what was reached: deleteNodeContent() goes down the children.            *)
LEMMA FreedIs ==
  ASSUME NodesInv, NEW c \in Nodes, NEW force \in BOOLEAN
  PROVE  /\ FreedWith(c, force) \subseteq Nodes /\ c \in FreedWith(c, force)
         /\ \A n \in FreedWith(c, force) : n # c =>
               data[n].parent \in FreedWith(c, force) /\ (force \/ data[n].refs = 1)
         /\ \A n \in Nodes :
               n \notin FreedWith(c, force) /\ data[n].parent \in FreedWith(c, force) =>
                  ~force /\ data[n].refs # 1
<1> DEFINE gone == FreedWith(c, force)
<1>1. gone \subseteq Nodes /\ c \in gone
  BY DEF FreedWith
<1>2. \A n \in Nodes : Kids(data[n]) = {k \in Nodes : data[k].parent = n}
  BY NodeFacts
<1>3. \A s \in SUBSET Nodes : Followed(s, force) <=>
         \A k \in Nodes : data[k].parent \in s /\ (force \/ data[k].refs = 1) => k \in s
  BY <1>2 DEF Followed, Kids
<1>4. ASSUME NEW k \in Nodes, data[k].parent \in gone, force \/ data[k].refs = 1
      PROVE  k \in gone
  <2>1. ASSUME NEW s \in SUBSET Nodes, c \in s, Followed(s, force) PROVE k \in s
    <3>1. data[k].parent \in s
      BY <1>4, <2>1 DEF FreedWith
    <3> QED
      BY <1>3, <1>4, <2>1, <3>1
  <2> QED
    BY <2>1 DEF FreedWith
<1>5. ASSUME NEW n \in gone, n # c
      PROVE  data[n].parent \in gone /\ (force \/ data[n].refs = 1)
  <2> DEFINE s == gone \ {n}
  <2>1. s \in SUBSET Nodes /\ c \in s /\ n \notin s
    BY <1>1, <1>5
  <2>2. ~Followed(s, force)
    BY <2>1 DEF FreedWith
  <2> HIDE DEF s
  <2>3. PICK k \in Nodes : data[k].parent \in s /\ (force \/ data[k].refs = 1) /\ k \notin s
    BY <1>3, <2>1, <2>2
  <2>4. data[k].parent \in gone
    BY <2>3 DEF s
  <2> HIDE DEF gone
  <2>5. k \in gone
    BY <1>4, <2>3, <2>4
  <2>6. k = n
    BY <2>3, <2>5 DEF s
  <2> QED
    BY <2>3, <2>4, <2>6
<1> HIDE DEF gone
<1>6. \A n \in Nodes : n \notin gone /\ data[n].parent \in gone =>
         ~force /\ data[n].refs # 1
  BY <1>4
<1> QED
  BY <1>1, <1>5, <1>6 DEF gone

(* What the listed contents are when c goes: its parent loses it.           *)
UnlistedOf(c) ==
    IF data[c].parent = None THEN listed
    ELSE [listed EXCEPT ![data[c].parent] =
            Unlisted(@, "child", IndexOfChild(data[data[c].parent], c))]

(* What stays of the data when c is taken from its parent.                  *)
LeftOf(c) == IF data[c].parent = None THEN data ELSE detachFromParent(data, c)
(* When a node goes only its parent changes: it loses the node, in its      *)
(* array and in what it shows.                                              *)
LEMMA LeftIs ==
  ASSUME NodesInv, NEW c \in Nodes
  PROVE  \A n \in Nodes :
           LET d == LeftOf(c)[n]
           IN /\ Sound(d) /\ Once(d) /\ Kids(d) = Kids(data[n]) \ {c}
              /\ SameOwner(d, data[n])
              /\ data[n].alive => ShownContents(d) = UnlistedOf(c)[n]
              /\ ~data[n].alive => d = NoData
              /\ data[c].parent = None => d = data[n]
<1>1. CASE data[c].parent = None
  <2>1. LeftOf(c) = data /\ UnlistedOf(c) = listed
    BY <1>1 DEF LeftOf, UnlistedOf
  <2>2. \A n \in Nodes : c \notin Kids(data[n])
    BY <1>1, NodeFacts
  <2>3. \A n \in Nodes : Kids(data[n]) = Kids(data[n]) \ {c}
    BY <2>2
  <2> QED
    BY <2>1, <2>3, NodeFacts DEF SameOwner
<1>2. CASE data[c].parent # None
  <2> DEFINE q == data[c].parent
             i == IndexOfChild(data[q], c)
             e == Without(data[q], "child", i)
             l == Unlisted(listed[q], "child", i)
             dt == LeftOf(c)
             ls == UnlistedOf(c)
  <2>1. q \in Nodes /\ c \in Kids(data[q])
    BY <1>2, NodeFacts
  <2>2. data[q].alive /\ Sound(data[q]) /\ Once(data[q])
        /\ ShownContents(data[q]) = listed[q]
    BY <1>2, <2>1, HeldIsAlive, NodeFacts
  <2>3. /\ Sound(e) /\ SameOwner(e, data[q]) /\ Once(e)
        /\ Kids(e) = Kids(data[q]) \ {c}
        /\ ShownContents(e) = l
    BY <2>1, <2>2, ChildTaken
  <2>4. /\ dt = [data EXCEPT ![q] = e]
        /\ ls = [listed EXCEPT ![q] = l]
    BY <1>2 DEF LeftOf, UnlistedOf, detachFromParent
  <2> HIDE DEF e, l, dt, ls
  <2>5. /\ \A n \in Nodes : dt[n] = IF n = q THEN e ELSE data[n]
        /\ \A n \in Nodes : ls[n] = IF n = q THEN l ELSE listed[n]
    BY <2>4, NodesTyped
  <2>6. \A n \in Nodes : n # q => c \notin Kids(data[n])
    BY NodeFacts
  <2>7. ASSUME NEW n \in Nodes
        PROVE  /\ Sound(dt[n]) /\ Once(dt[n]) /\ Kids(dt[n]) = Kids(data[n]) \ {c}
               /\ SameOwner(dt[n], data[n])
               /\ data[n].alive => ShownContents(dt[n]) = ls[n]
               /\ ~data[n].alive => dt[n] = NoData
    <3>1. CASE n = q
      BY <2>2, <2>3, <2>5, <3>1
    <3>2. CASE n # q
      <4>1. Kids(data[n]) = Kids(data[n]) \ {c}
        BY <2>6, <3>2
      <4> QED
        BY <2>5, <3>2, <4>1, NodeFacts DEF SameOwner
    <3> QED
      BY <3>1, <3>2
  <2> QED
    BY <1>2, <2>7 DEF dt, ls
<1> QED
  BY <1>1, <1>2

(* The children that stay lose their parent, which no longer counts.        *)
LEMMA OrphanIs ==
  ASSUME NEW d \in NodeData, Sound(d), Once(d), NEW k \in Nat,
         d.refs - 1 = k
  PROVE  LET e == [d EXCEPT !.parent = None, !.refs = @ - 1]
         IN /\ Sound(e) /\ Once(e) /\ Kids(e) = Kids(d)
            /\ ShownContents(e) = ShownContents(d)
            /\ e.parent = None /\ e.refs = k /\ e.alive = d.alive
<1> DEFINE e == [d EXCEPT !.parent = None, !.refs = @ - 1]
<1>1. /\ e \in NodeData /\ e.parent = None /\ e.refs = k
      /\ e.order = d.order /\ e.items = d.items /\ e.alive = d.alive
  BY DEF NodeData
<1> HIDE DEF e
<1>2. /\ Sound(e) /\ Once(e) /\ Kids(e) = Kids(d)
      /\ ShownContents(e) = ShownContents(d)
  BY <1>1, RefsSet
<1> QED
  BY <1>1, <1>2 DEF e

(* A node that no handle but one holds goes with what it alone holds.       *)
LEMMA ReleasedKeeps ==
  ASSUME NodesInv, NEW c \in Nodes, NEW force \in BOOLEAN,
         handles[c] = 1, ~force => data[c].parent = None,
         \A n \in FreedWith(c, force) : n # c => handles[n] = 0,
         data' = ReleasedNode(c, force), handles' = [handles EXCEPT ![c] = 0],
         listed' = [n \in Nodes |->
                      IF data'[n].alive THEN UnlistedOf(c)[n] ELSE <<>>]
  PROVE  NodesInv'
<1> DEFINE gone == FreedWith(c, force)
           dt == LeftOf(c)
           Orphan(n) == [dt[n] EXCEPT !.parent = None, !.refs = @ - 1]
<1>1. /\ gone \subseteq Nodes /\ c \in gone
      /\ \A n \in gone : n # c => data[n].parent \in gone
      /\ \A n \in Nodes : n \notin gone /\ data[n].parent \in gone =>
               ~force /\ data[n].refs # 1
  BY FreedIs
<1>2. data' = [n \in Nodes |->
         CASE n \in gone -> NoData
           [] n \notin gone /\ data[n].parent \in gone -> Orphan(n)
           [] OTHER -> dt[n]]
  BY DEF ReleasedNode, LeftOf
<1>3. /\ \A n \in gone : data'[n] = NoData
      /\ \A n \in Nodes : n \notin gone /\ data[n].parent \in gone => data'[n] = Orphan(n)
      /\ \A n \in Nodes : n \notin gone /\ data[n].parent \notin gone => data'[n] = dt[n]
  <2> HIDE DEF gone, Orphan, dt
  <2> QED
    BY <1>1, <1>2
<1>4. \A n \in Nodes :
           /\ Sound(dt[n]) /\ Once(dt[n]) /\ Kids(dt[n]) = Kids(data[n]) \ {c}
           /\ SameOwner(dt[n], data[n])
           /\ data[n].alive => ShownContents(dt[n]) = UnlistedOf(c)[n]
           /\ ~data[n].alive => dt[n] = NoData
           /\ data[c].parent = None => dt[n] = data[n]
  BY LeftIs
<1> HIDE DEF dt
<1>5. \A n \in Nodes : handles'[n] = IF n = c THEN 0 ELSE handles[n]
  BY NodesTyped
<1>6. \A n \in gone : handles'[n] = 0
  BY <1>1, <1>5
<1> HIDE DEF gone
<1>7. ASSUME NEW n \in Nodes, n \notin gone, data[n].parent \in gone
      PROVE  /\ Sound(data'[n]) /\ Once(data'[n]) /\ Kids(data'[n]) = Kids(dt[n])
             /\ ShownContents(data'[n]) = ShownContents(dt[n])
             /\ data'[n].parent = None /\ data'[n].refs = handles[n]
             /\ data'[n].alive = data[n].alive /\ handles[n] > 0
             /\ handles'[n] = handles[n] /\ data[n].alive
  <2>1. data[n].refs # 1 /\ data[n].parent # None /\ dt[n] \in NodeData
        /\ dt[n].refs = data[n].refs /\ dt[n].alive = data[n].alive
    BY <1>1, <1>4, <1>7, NodeFacts, SoundParts DEF SameOwner
  <2>2. handles[n] \in Nat /\ data[n].refs = handles[n] + 1
    BY <2>1, NodeFacts
  <2>3. handles[n] > 0 /\ dt[n].refs - 1 = handles[n]
    BY <2>1, <2>2
  <2>4. LET e == Orphan(n)
        IN /\ Sound(e) /\ Once(e) /\ Kids(e) = Kids(dt[n])
           /\ ShownContents(e) = ShownContents(dt[n])
           /\ e.parent = None /\ e.refs = handles[n] /\ e.alive = dt[n].alive
    BY <1>4, <2>1, <2>2, <2>3, OrphanIs
  <2>5. n # c
    BY <1>1, <1>7
  <2> HIDE DEF Orphan
  <2> QED
    BY <1>3, <1>5, <1>7, <2>1, <2>3, <2>4, <2>5, HeldIsAlive
<1> HIDE DEF Orphan
<1>8. ASSUME NEW n \in Nodes, n \notin gone, data[n].parent \notin gone
      PROVE  data'[n] = dt[n] /\ handles'[n] = handles[n]
  BY <1>1, <1>3, <1>5, <1>8
<1>9. \A n \in Nodes : data'[n].parent =
         IF n \in gone \/ data[n].parent \in gone THEN None ELSE data[n].parent
  BY <1>3, <1>4, <1>7, <1>8, NoDataIs DEF SameOwner
<1>10. \A n \in Nodes : n \notin gone =>
          {k \in Nodes : data'[k].parent = n} = Kids(data[n]) \ {c}
  <2>1. ASSUME NEW n \in Nodes, n \notin gone, NEW k \in Nodes
        PROVE  data'[k].parent = n <=> k \in Kids(data[n]) /\ k # c
    <3>1. /\ k \in Kids(data[n]) <=> data[k].parent = n
          /\ n # None
      BY NodeFacts
    <3>2. data'[k].parent =
             IF k \in gone \/ data[k].parent \in gone THEN None ELSE data[k].parent
      BY <1>9
    <3>3. CASE k = c
      BY <1>1, <3>1, <3>2, <3>3
    <3>4. CASE k # c /\ k \in gone
      BY <1>1, <2>1, <3>1, <3>2, <3>4
    <3>5. CASE k # c /\ k \notin gone
      BY <2>1, <3>1, <3>2, <3>5
    <3> QED
      BY <3>3, <3>4, <3>5
  <2>2. \A n \in Nodes : Kids(data[n]) \subseteq Nodes
    BY NodeFacts
  <2> QED
    BY <2>1, <2>2
<1>11. \A n \in gone : {k \in Nodes : data'[k].parent = n} = {}
  <2>1. ASSUME NEW n \in gone, NEW k \in Nodes PROVE data'[k].parent # n
    <3>1. n # None /\ data'[k].parent =
             IF k \in gone \/ data[k].parent \in gone THEN None ELSE data[k].parent
      BY <1>1, <1>9, NodeFacts
    <3> QED
      BY <3>1
  <2> QED
    BY <2>1
<1>12. \A n \in Nodes :
          listed'[n] = IF data'[n].alive THEN UnlistedOf(c)[n] ELSE <<>>
  OBVIOUS
<1>13. ASSUME NEW n \in Nodes PROVE NodeGood(data', handles', listed', n)
  <2>0. CASE n \in gone
    <3>1. Linked(data', n)
      BY <1>3, <1>11, <2>0, NoDataIs DEF Linked
    <3>2. Counted(data'[n], handles'[n])
      BY <1>3, <1>6, <2>0, NoDataIs DEF Counted
    <3> QED
      BY <1>3, <2>0, <3>1, <3>2, NoDataIs DEF NodeGood
  <2>1. CASE n \notin gone /\ data[n].parent \in gone
    <3>1. Linked(data', n)
      <4>1. Once(data'[n]) /\ Kids(data'[n]) = Kids(dt[n])
        BY <1>7, <2>1
      <4>2. Kids(dt[n]) = Kids(data[n]) \ {c}
        BY <1>4
      <4>3. {k \in Nodes : data'[k].parent = n} = Kids(data[n]) \ {c}
        BY <1>10, <2>1
      <4> QED
        BY <4>1, <4>2, <4>3 DEF Linked
    <3>2. Counted(data'[n], handles'[n])
      BY <1>7, <2>1, NodeFacts DEF Counted
    <3> QED
      BY <1>4, <1>7, <1>12, <2>1, <3>1, <3>2 DEF NodeGood
  <2>2. CASE n \notin gone /\ data[n].parent \notin gone
    <3>1. Linked(data', n)
      <4>1. Once(data'[n]) /\ Kids(data'[n]) = Kids(data[n]) \ {c}
        BY <1>4, <1>8, <2>2
      <4>2. {k \in Nodes : data'[k].parent = n} = Kids(data[n]) \ {c}
        BY <1>10, <2>2
      <4> QED
        BY <4>1, <4>2 DEF Linked
    <3>2. Counted(dt[n], handles[n])
      BY <1>4, <2>2, NodeFacts DEF Counted, SameOwner
    <3>3. data'[n] = dt[n] /\ handles'[n] = handles[n]
      BY <1>8, <2>2
    <3>4. dt[n].alive = data[n].alive
      BY <1>4 DEF SameOwner
    <3> QED
      BY <1>4, <1>12, <3>1, <3>2, <3>3, <3>4 DEF NodeGood
  <2> QED
    BY <2>0, <2>1, <2>2
<1>14. /\ DOMAIN data' = Nodes /\ handles' \in [Nodes -> Nat]
       /\ listed' = [n \in Nodes |-> listed'[n]]
       /\ data' = [n \in Nodes |-> data'[n]]
  <2>1. handles' \in [Nodes -> Nat]
    BY NodesTyped
  <2>2. DOMAIN data' = Nodes /\ data' = [n \in Nodes |-> data'[n]]
    BY <1>2
  <2> QED
    BY <2>1, <2>2
<1> QED
  BY <1>13, <1>14 DEF NodesInv, NodesGood

(* The next to last handle and the last one going out of scope.             *)
LEMMA DropKeeps ==
  ASSUME NodesInv, NEW c \in Nodes, DropHandle(c)
  PROVE  NodesInv'
<1>1. /\ handles[c] > 0 /\ handles' = [handles EXCEPT ![c] = @ - 1]
      /\ data' = Dropped(c, FALSE) /\ listed' = Gone(data')
  BY DEF DropHandle
<1>2. /\ data[c].alive /\ handles[c] \in Nat /\ data[c].refs \in Nat
      /\ data[c].refs = handles[c] + IF data[c].parent = None THEN 0 ELSE 1
  BY <1>1, HeldIsAlive, NodeFacts
<1>3. CASE data[c].refs > 1
  <2>1. data' = [data EXCEPT ![c].refs = @ - 1]
    BY <1>1, <1>3 DEF Dropped
  <2>2. data[c].refs + (-1) > 0 /\ handles[c] + (-1) \in Nat
    BY <1>1, <1>2, <1>3
  <2>3. data' = [data EXCEPT ![c].refs = @ + (-1)]
    <3>1. data[c].refs - 1 = data[c].refs + (-1)
      BY <1>2
    <3> QED
      BY <2>1, <3>1
  <2>4. handles' = [handles EXCEPT ![c] = @ + (-1)]
    <3>1. handles[c] - 1 = handles[c] + (-1)
      BY <1>2
    <3> QED
      BY <1>1, <3>1
  <2>5. /\ \A n \in Nodes : data'[n].alive => listed'[n] = listed[n]
        /\ listed' = [n \in Nodes |-> listed'[n]]
    BY <1>1 DEF Gone
  <2> QED
    BY <1>2, <2>2, <2>3, <2>4, <2>5, CountChanges
<1>4. CASE ~(data[c].refs > 1)
  <2>1. handles[c] = 1 /\ data[c].parent = None
    BY <1>1, <1>2, <1>4
  <2>2. data' = ReleasedNode(c, FALSE)
    BY <1>1, <1>4 DEF Dropped
  <2>3. \A n \in FreedWith(c, FALSE) : n # c => handles[n] = 0
    <3>1. ASSUME NEW n \in FreedWith(c, FALSE), n # c PROVE handles[n] = 0
      <4>1. /\ n \in Nodes /\ data[n].refs = 1
            /\ data[n].parent \in Nodes
        BY <3>1, FreedIs
      <4> QED
        BY <4>1, NodeFacts
    <3> QED
      BY <3>1
  <2>4. handles' = [handles EXCEPT ![c] = 0]
    BY <1>1, <2>1
  <2>5. listed' = [n \in Nodes |->
                      IF data'[n].alive THEN UnlistedOf(c)[n] ELSE <<>>]
    BY <1>1, <2>1 DEF Gone, UnlistedOf
  <2> QED
    BY <2>1, <2>2, <2>3, <2>4, <2>5, ReleasedKeeps
<1> QED
  BY <1>3, <1>4

(* A node that is deleted with all that is below it.                        *)
LEMMA DeleteKeeps ==
  ASSUME NodesInv, NEW c \in Nodes, deleteNodeContent(c)
  PROVE  NodesInv'
<1>1. handles[c] = 1 /\ \A n \in FreedWith(c, TRUE) : n # c => handles[n] = 0
  BY DEF deleteNodeContent, Below
<1>2. data' = ReleasedNode(c, TRUE) /\ handles' = [handles EXCEPT ![c] = 0]
  BY DEF deleteNodeContent, Dropped
<1>3. listed' = [n \in Nodes |->
                    IF data'[n].alive THEN UnlistedOf(c)[n] ELSE <<>>]
  BY DEF deleteNodeContent, UnlistedOf
<1> QED
  BY <1>1, <1>2, <1>3, ReleasedKeeps

(* Every step of the program keeps the invariant.                           *)
LEMMA NodesStep ==
  ASSUME NodesInv, [NodesNext]_nodeVars
  PROVE  NodesInv'
<1>1. CASE UNCHANGED nodeVars
  BY <1>1 DEF nodeVars, NodesInv, NodesGood, NodeGood, Linked
<1>2. ASSUME NEW p \in Nodes, Handles(p)
      PROVE  NodesInv'
  <2>1. CASE createXMLTopNode(p)
    BY <2>1, CreatedKeeps
  <2>2. CASE DropHandle(p)
    BY <2>2, DropKeeps
  <2>3. CASE deleteNodeContent(p)
    BY <2>3, DeleteKeeps
  <2>4. CASE \E i \in 1..MaxContents : getChildNode(p, i)
    BY <2>4, HandleKeeps
  <2> QED
    BY <1>2, <2>1, <2>2, <2>3, <2>4 DEF Handles
<1>3. ASSUME NEW p \in Nodes, Adds(p)
      PROVE  NodesInv'
  <2>1. ASSUME NEW c \in Nodes, NEW pos \in SamePositions(data[p], "child"),
               addNewChild(p, c, pos)
        PROVE  NodesInv'
    BY <2>1, NewChildKeeps
  <2>2. ASSUME NEW c \in Nodes, NEW pos \in SamePositions(data[p], "child"),
               pos >= 0 => data[p].items["child"]
                              [data[p].order[pos + 1].index + 1] # c,
               addChild(p, c, pos)
        PROVE  NodesInv'
    BY <2>2, AddedKeeps
  <2>3. ASSUME NEW k \in {"text", "clear"}, NEW s \in Strings,
               NEW pos \in SamePositions(data[p], k), addString(p, k, s, pos)
        PROVE  NodesInv'
    BY <2>3, TextsKeep
  <2> QED
    BY <1>3, <2>1, <2>2, <2>3 DEF Adds
<1>4. ASSUME NEW p \in Nodes, NEW i \in 0..MaxContents, deleteText(p, i)
      PROVE  NodesInv'
  BY <1>4, TextsKeep
<1>5. ASSUME NEW p \in Nodes, NEW i \in 0..MaxContents,
             Len(data[p].items["text"]) >= Len(data[p].items["clear"]) - 1,
             deleteClear(p, i)
      PROVE  NodesInv'
  BY <1>5, ClearsKeep
<1> QED
  BY <1>1, <1>2, <1>3, <1>4, <1>5 DEF NodesNext

(* The places of something that is there once are one.                      *)
LEMMA OnePlace ==
  ASSUME NEW s, NEW n, \E k \in DOMAIN s : s[k] = n,
         \A i, j \in DOMAIN s : s[i] = s[j] => i = j
  PROVE  Cardinality({k \in DOMAIN s : s[k] = n}) = 1
<1>1. PICK k \in DOMAIN s : s[k] = n
  OBVIOUS
<1>2. {i \in DOMAIN s : s[i] = n} = {k}
  BY <1>1
<1> QED
  BY <1>2, FS_Singleton

(* The invariant implies what the run checks.                               *)
LEMMA NodesAreKept == NodesInv => NodesAreSound
<1> SUFFICES ASSUME NodesInv PROVE ContentsAsListed /\ CountsAreExact
  BY DEF NodesAreSound
<1>1. ContentsAsListed
  BY NodeFacts DEF ContentsAsListed
<1>2. ASSUME NEW n \in Nodes, NEW c \in ToSet(data[n].items["child"])
      PROVE  data[c].alive /\ data[c].parent = n
  <2>1. c \in Nodes /\ data[c].parent = n /\ n # None
    BY <1>2, NodeFacts DEF Kids
  <2> QED
    BY <2>1, HeldIsAlive
<1>3. ASSUME NEW n \in Nodes, data[n].parent # None
      PROVE  Cardinality({k \in DOMAIN data[data[n].parent].items["child"] :
                data[data[n].parent].items["child"][k] = n}) = 1
  <2> DEFINE q == data[n].parent
             s == data[q].items["child"]
  <2>1. q \in Nodes /\ n \in Kids(data[q]) /\ Once(data[q]) /\ Sound(data[q])
    BY <1>3, NodeFacts
  <2>2. s \in Seq(Contents) /\ DOMAIN s = 1..Len(s)
    BY <2>1, SoundParts, LenProperties DEF NodeKinds
  <2>3. \E k \in DOMAIN s : s[k] = n
    BY <2>1 DEF Kids, ToSet
  <2>4. \A i, j \in DOMAIN s : s[i] = s[j] => i = j
    BY <2>1, <2>2 DEF Once, Distinct
  <2> HIDE DEF s
  <2>5. Cardinality({k \in DOMAIN s : s[k] = n}) = 1
    BY <2>3, <2>4, OnePlace
  <2> QED
    BY <2>5 DEF s
<1>4. CountsAreExact
  BY <1>2, <1>3, NodeFacts DEF CountsAreExact
<1> QED
  BY <1>1, <1>4

(* Whatever the program does with nodes and handles of them, a node shows   *)
(* the contents it was told to have, in their order, and its count is that  *)
(* of its handles and its parent: nothing that is held is freed.            *)
THEOREM NodesSafety == NodesSpec => []NodesAreSound
<1>1. NodesInit => NodesInv
  BY NodesStart
<1>2. NodesInv /\ [NodesNext]_nodeVars => NodesInv'
  BY NodesStep
<1>3. NodesInv => NodesAreSound
  BY NodesAreKept
<1> QED
  BY <1>1, <1>2, <1>3, PTL DEF NodesSpec

(***************************************************************************)
(* MCMachines: a behaviour of one part is a behaviour of every part, since *)
(* the others stay where they are.                                         *)
(***************************************************************************)

(* A step of the machines is a step of each part, or leaves it alone.      *)
LEMMA MachinesStepParts ==
  ASSUME [MachinesNext]_machineVars
  PROVE  /\ [DvrNext]_dvrVars /\ [FieldNext]_fieldVars /\ [ZoomNext]_zoomVars
<1>1. CASE MachinesNext
  <2>1. [DvrNext]_dvrVars
    BY <1>1 DEF MachinesNext, Frozen
  <2>2. [FieldNext]_fieldVars
    BY <1>1 DEF MachinesNext, Frozen
  <2>3. [ZoomNext]_zoomVars
    BY <1>1 DEF MachinesNext, Frozen
  <2> QED
    BY <2>1, <2>2, <2>3
<1>2. CASE UNCHANGED machineVars
  BY <1>2 DEF machineVars
<1> QED
  BY <1>1, <1>2

(* In the machines that the run composes, a restart of the configuration   *)
(* loses no measure, recording does not move the frame at which the user   *)
(* paused, and a drag and a fit keep what they promise, for any constants. *)
THEOREM MachinesKeepWhatIsShown == MachinesSpec => StepsKeepWhatIsShown
<1>1. MachinesInit => DvrInit /\ FieldInit /\ ZoomInit
  BY DEF MachinesInit
<1>2. [MachinesNext]_machineVars =>
         [DvrNext]_dvrVars /\ [FieldNext]_fieldVars /\ [ZoomNext]_zoomVars
  BY MachinesStepParts
<1>3. MachinesSpec => DvrSpec /\ FieldSpec /\ ZoomSpec
  BY <1>1, <1>2, PTL DEF MachinesSpec, DvrSpec, FieldSpec, ZoomSpec
<1> QED
  BY <1>3, RestartsKeepSettings, PausedStays, ZoomFollowsMouse
     DEF StepsKeepWhatIsShown
==============================================================================
