---------------------------- MODULE ImageMemory ----------------------------
(***************************************************************************)
(* Who frees the pixels: the Image template                                *)
(* (dep/ssl-vision/src/shared/util/image.h), whose _external flag says     *)
(* that the data belong to somebody else, and a RawImage (rawimage.cpp),   *)
(* which never frees them at its end.  A pixel is a byte; a buffer is an   *)
(* address of the heap.                                                    *)
(***************************************************************************)
EXTENDS Integers, Functions

CONSTANTS ImageObjects,    (* the Image objects *)
          Sides,           (* the widths and heights *)
          Buffers          (* the addresses: enough for all images *)

ASSUME MemoryAssumption == /\ Sides \subseteq Nat /\ 0 \in Sides
                           /\ 0 \notin Buffers

VARIABLES
  pixelsOf,   (* of each Image: data (0 is null), external, width, height *)
  rawPixels,  (* of the RawImage: data, width, height *)
  heapSizes   (* the live buffers, with their sizes *)

memoryVars == <<pixelsOf, rawPixels, heapSizes>>

Live == DOMAIN heapSizes
Owners == {i \in ImageObjects : pixelsOf[i].data # 0 /\ ~pixelsOf[i].external}

EmptyPixels == [data |-> 0, external |-> FALSE, width |-> 0, height |-> 0]

MemoryTypeOK ==
    /\ pixelsOf \in [ImageObjects -> [data : Buffers \cup {0},
                                     external : BOOLEAN,
                                     width : Sides, height : Sides]]
    /\ rawPixels \in [data : Buffers \cup {0}, width : Sides, height : Sides]
    /\ DOMAIN heapSizes \subseteq Buffers

MemoryInit ==
    /\ pixelsOf = [i \in ImageObjects |-> EmptyPixels]
    /\ rawPixels = [data |-> 0, width |-> 0, height |-> 0]
    /\ heapSizes = <<>>

(* delete[] and new: an address nobody holds any more is as good as new.   *)
Freed(heap, b) == Restrict(heap, DOMAIN heap \ {b})
Fresh(b) == /\ b \notin Live \cup {rawPixels.data}
            /\ \A i \in ImageObjects : pixelsOf[i].data # b

With(heap, b, size) == [c \in DOMAIN heap \cup {b} |->
                           IF c = b THEN size ELSE heap[c]]

(* allocate(): the new pixels of one image and the heap.                   *)
Allocated(i, w, h) ==
    IF i \in Owners /\ pixelsOf[i].width = w /\ pixelsOf[i].height = h
    THEN {[pixels |-> pixelsOf[i], heap |-> heapSizes]}
    ELSE LET heap == IF i \in Owners THEN Freed(heapSizes, pixelsOf[i].data)
                                     ELSE heapSizes
             Pixels(b) == [data |-> b, external |-> FALSE,
                           width |-> w, height |-> h]
         IN  IF w = 0 /\ h = 0
             THEN {[pixels |-> Pixels(0), heap |-> heap]}
             ELSE {[pixels |-> Pixels(b), heap |-> With(heap, b, w * h)] :
                      b \in {c \in Buffers : Fresh(c)}}

(* A mistake: what does not belong to the image is deleted as well.        *)
FreesExternal(i) ==
    IF pixelsOf[i].data # 0 THEN Freed(heapSizes, pixelsOf[i].data)
                            ELSE heapSizes
FreesOwn(i) ==
    IF i \in Owners THEN Freed(heapSizes, pixelsOf[i].data) ELSE heapSizes

Allocate(i, w, h) ==
    /\ \E a \in Allocated(i, w, h) :
          pixelsOf' = [pixelsOf EXCEPT ![i] = a.pixels] /\ heapSizes' = a.heap
    /\ UNCHANGED rawPixels

(* A mistake: the sizes are still those of the image's own pixels.         *)
BorrowKeepsSizes(i, other) ==
    /\ heapSizes' = FreesOwn(i)
    /\ pixelsOf' = [pixelsOf EXCEPT ![i].data = other.data,
                                    ![i].external = TRUE]
    /\ UNCHANGED rawPixels

(* clear(), then the other's pixels.                                       *)
Borrow(i, other) ==
    /\ heapSizes' = FreesOwn(i)
    /\ pixelsOf' = [pixelsOf EXCEPT ![i] =
          [data |-> other.data, external |-> TRUE,
           width |-> other.width, height |-> other.height]]
    /\ UNCHANGED rawPixels

FromRawImage(i) == Borrow(i, rawPixels)
FromImage(i, j) == i # j /\ Borrow(i, pixelsOf[j])

(* The pixels of another image are only used while they exist.             *)
Usable(pixels) == pixels.data # 0 /\ pixels.data \in Live

(* copy(): the pixels are written to those of somebody else only if the    *)
(* caller allows it.                                                       *)
Copy(i, j, allow_external) ==
    /\ i # j /\ Usable(pixelsOf[j])
    /\ LET w == pixelsOf[j].width    h == pixelsOf[j].height
       IN  IF /\ allow_external
              /\ pixelsOf[i].width = w /\ pixelsOf[i].height = h
           THEN (pixelsOf[i].data = 0 \/ Usable(pixelsOf[i]))
                /\ UNCHANGED memoryVars
           ELSE Allocate(i, w, h)

(* copyToRawImage(): the sizes of the image, the bytes of the raw image.   *)
CopyToRawImage(i) ==
    /\ Usable(pixelsOf[i]) /\ Usable(rawPixels)
    /\ pixelsOf[i].width * pixelsOf[i].height
          = rawPixels.width * rawPixels.height
    /\ rawPixels' = [rawPixels EXCEPT !.width = pixelsOf[i].width,
                                      !.height = pixelsOf[i].height]
    /\ UNCHANGED <<pixelsOf, heapSizes>>

(* RawImage::allocate().                                                   *)
RawAllocate(w, h) ==
    /\ LET heap == IF rawPixels.data # 0 THEN Freed(heapSizes, rawPixels.data)
                                         ELSE heapSizes
       IN  IF w = 0 /\ h = 0
           THEN /\ rawPixels' = [data |-> 0, width |-> 0, height |-> 0]
                /\ heapSizes' = heap
           ELSE \E b \in {c \in Buffers : Fresh(c)} :
                /\ rawPixels' = [data |-> b, width |-> w, height |-> h]
                /\ heapSizes' = With(heap, b, w * h)
    /\ UNCHANGED pixelsOf

(* ~Image(), and another one in its place.                                 *)
Destroy(i) ==
    /\ heapSizes' = FreesOwn(i)
    /\ pixelsOf' = [pixelsOf EXCEPT ![i] = EmptyPixels]
    /\ UNCHANGED rawPixels

MemoryNext ==
    \/ \E i \in ImageObjects, w, h \in Sides : Allocate(i, w, h)
    \/ \E i \in ImageObjects : FromRawImage(i) \/ CopyToRawImage(i) \/ Destroy(i)
    \/ \E i, j \in ImageObjects : FromImage(i, j)
    \/ \E i, j \in ImageObjects, e \in BOOLEAN : Copy(i, j, e)
    \/ \E w, h \in Sides : RawAllocate(w, h)

MemorySpec == MemoryInit /\ [][MemoryNext]_memoryVars
----------------------------------------------------------------------------
(* Who has pixels that nobody else frees.                                  *)
Owned == {pixelsOf[i] : i \in Owners}
            \cup (IF rawPixels.data = 0 THEN {} ELSE {rawPixels})

(* However images borrow from each other: every image that owns pixels has *)
(* live ones of its own, as many as its sides say; and every buffer has an *)
(* owner that will free it.                                                *)
OwnersAreSound ==
    /\ Live = {o.data : o \in Owned}
    /\ \A o \in Owned : heapSizes[o.data] = o.width * o.height
    /\ \A i, j \in Owners : pixelsOf[i].data = pixelsOf[j].data => i = j
    /\ \A i \in Owners : pixelsOf[i].data # rawPixels.data

(* An image that has borrowed pixels which still exist never reaches past  *)
(* the end of them.                                                        *)
BorrowedFit ==
    \A i \in ImageObjects :
       pixelsOf[i].external /\ pixelsOf[i].data \in Live =>
          pixelsOf[i].width * pixelsOf[i].height <= heapSizes[pixelsOf[i].data]

(* Pixels are freed once, by the image that owns them, and a picture is    *)
(* never larger than its buffer (image.h, rawimage.cpp).                   *)
PixelsAreOwned == MemoryTypeOK /\ OwnersAreSound /\ BorrowedFit
============================================================================
