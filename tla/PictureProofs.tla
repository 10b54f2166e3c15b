--------------------------- MODULE PictureProofs ---------------------------
(***************************************************************************)
(* Proofs about ImageUpright and QualityScore, for pictures of every size.   *)
(* Orienting a picture renames its pixels, and a sum does not change when     *)
(* what is summed is renamed (SumRenamed).  So a score of a picture that is   *)
(* stored turned is the score of the upright one: its blur is the product of  *)
(* three by three weights (SmoothConvolves), which turning leaves alone.      *)
(***************************************************************************)
EXTENDS EventProofs, FunctionTheorems, SequenceTheorems

-----------------------------------------------------------------------------
(* Arithmetic.                                                             *)

\* A quotient is on the same side of c as the dividend is of c times the divisor.
LEMMA QuotientBounds ==
    ASSUME NEW a \in Nat, NEW b \in Nat \ {0}, NEW c \in Nat
    PROVE  /\ a <= b * c => a \div b <= c
           /\ a >= b * c => a \div b >= c
<1> DEFINE q == a \div b
           r == a % b
<1>1. q \in Nat /\ r \in Nat /\ r < b /\ a = b * q + r
  BY Division
<1> HIDE DEF q, r
<1>2. ASSUME q > c PROVE a > b * c
  <2>1. PICK d \in Nat : q = c + 1 + d
    BY <1>1, <1>2
  <2>2. b * q = b * c + b + b * d /\ b * d >= 0
    BY <2>1
  <2> QED BY <1>1, <2>2
<1>3. ASSUME q < c PROVE a < b * c
  <2>1. PICK d \in Nat : c = q + 1 + d
    BY <1>1, <1>3
  <2>2. b * c = b * q + b + b * d /\ b * d >= 0
    BY <1>1, <2>1
  <2> QED BY <1>1, <2>2
<1> QED
  BY <1>1, <1>2, <1>3 DEF q

\* What lies within b of 0 has a square within that of b.
LEMMA SquareBound ==
    ASSUME NEW b \in Nat, NEW a \in -b..b
    PROVE  a * a <= b * b
<1>1. CASE a >= 0
  <2>1. PICK d \in Nat : b = a + d
    BY <1>1
  <2>2. b * b = a * a + 2 * (a * d) + d * d /\ a * d >= 0 /\ d * d >= 0
    BY <1>1, <2>1
  <2> QED BY <2>2
<1>2. CASE a < 0
  <2>1. PICK c \in Nat, d \in Nat : a = -c /\ b = c + d
    <3>1. -a \in Nat /\ b + a \in Nat /\ a = -(-a) /\ b = (-a) + (b + a)
      BY <1>2
    <3> QED BY <3>1
  <2>2. a * a = c * c
    BY <2>1
  <2>3. b * b = c * c + 2 * (c * d) + d * d /\ c * d >= 0 /\ d * d >= 0
    BY <2>1
  <2> QED BY <2>2, <2>3
<1> QED BY <1>1, <1>2

-----------------------------------------------------------------------------
(* Pictures.                                                               *)

\* The size of a picture of W by H once it is upright.
Wide(o, W, H) == IF Upright!Rotated(o) THEN H ELSE W
High(o, W, H) == IF Upright!Rotated(o) THEN W ELSE H

\* Each orientation maps the pixels of the result onto those stored.
LEMMA SourceOfStored ==
    ASSUME NEW W \in Nat \ {0}, NEW H \in Nat \ {0}, NEW o \in 1..8
    PROVE  /\ \A x \in 0..(Wide(o, W, H) - 1), y \in 0..(High(o, W, H) - 1) :
                 Upright!SourceOf(o, W, H, x, y) \in (0..(W - 1)) \X (0..(H - 1))
           /\ \A i \in 0..(W - 1), j \in 0..(H - 1) :
                 \E x \in 0..(Wide(o, W, H) - 1), y \in 0..(High(o, W, H) - 1) :
                    Upright!SourceOf(o, W, H, x, y) = <<i, j>>
<1>1. CASE o = 1
  BY <1>1 DEF Wide, High, Upright!Rotated, Upright!SourceOf
<1>2. CASE o = 2
  <2>1. \A i \in 0..(W - 1) : W - 1 - i \in 0..(W - 1) /\ W - 1 - (W - 1 - i) = i
    OBVIOUS
  <2> QED BY <1>2, <2>1 DEF Wide, High, Upright!Rotated, Upright!SourceOf
<1>3. CASE o = 3
  <2>1. \A i \in 0..(W - 1) : W - 1 - i \in 0..(W - 1) /\ W - 1 - (W - 1 - i) = i
    OBVIOUS
  <2>2. \A i \in 0..(H - 1) : H - 1 - i \in 0..(H - 1) /\ H - 1 - (H - 1 - i) = i
    OBVIOUS
  <2> QED BY <1>3, <2>1, <2>2 DEF Wide, High, Upright!Rotated, Upright!SourceOf
<1>4. CASE o = 4
  <2>2. \A i \in 0..(H - 1) : H - 1 - i \in 0..(H - 1) /\ H - 1 - (H - 1 - i) = i
    OBVIOUS
  <2> QED BY <1>4, <2>2 DEF Wide, High, Upright!Rotated, Upright!SourceOf
<1>5. CASE o = 5
  BY <1>5 DEF Wide, High, Upright!Rotated, Upright!SourceOf
<1>6. CASE o = 6
  <2>2. \A i \in 0..(H - 1) : H - 1 - i \in 0..(H - 1) /\ H - 1 - (H - 1 - i) = i
    OBVIOUS
  <2> QED BY <1>6, <2>2 DEF Wide, High, Upright!Rotated, Upright!SourceOf
<1>7. CASE o = 7
  <2>1. \A i \in 0..(W - 1) : W - 1 - i \in 0..(W - 1) /\ W - 1 - (W - 1 - i) = i
    OBVIOUS
  <2>2. \A i \in 0..(H - 1) : H - 1 - i \in 0..(H - 1) /\ H - 1 - (H - 1 - i) = i
    OBVIOUS
  <2> QED BY <1>7, <2>1, <2>2 DEF Wide, High, Upright!Rotated, Upright!SourceOf
<1>8. CASE o = 8
  <2>1. \A i \in 0..(W - 1) : W - 1 - i \in 0..(W - 1) /\ W - 1 - (W - 1 - i) = i
    OBVIOUS
  <2> QED BY <1>8, <2>1 DEF Wide, High, Upright!Rotated, Upright!SourceOf
<1> QED
  BY <1>1, <1>2, <1>3, <1>4, <1>5, <1>6, <1>7, <1>8

\* Row 0 and column 0 are read on the sides the standard names.
LEMMA SourceSides ==
    ASSUME NEW W \in Nat \ {0}, NEW H \in Nat \ {0}, NEW o \in 1..8,
           NEW image, image.w = Wide(o, W, H), image.h = High(o, W, H),
           NEW x \in 0..(image.w - 1), NEW y \in 0..(image.h - 1)
    PROVE  /\ Upright!SourceOf(o, W, H, x, y)[2] = 0 <=>
                 Upright!OnSide(Upright!Sides[o][1], image, <<x, y>>)
           /\ Upright!SourceOf(o, W, H, x, y)[1] = 0 <=>
                 Upright!OnSide(Upright!Sides[o][2], image, <<x, y>>)
<1>1. CASE o = 1
  BY <1>1 DEF Wide, High, Upright!Rotated, Upright!SourceOf, Upright!Sides,
     Upright!OnSide
<1>2. CASE o = 2
  BY <1>2 DEF Wide, High, Upright!Rotated, Upright!SourceOf, Upright!Sides,
     Upright!OnSide
<1>3. CASE o = 3
  BY <1>3 DEF Wide, High, Upright!Rotated, Upright!SourceOf, Upright!Sides,
     Upright!OnSide
<1>4. CASE o = 4
  BY <1>4 DEF Wide, High, Upright!Rotated, Upright!SourceOf, Upright!Sides,
     Upright!OnSide
<1>5. CASE o = 5
  BY <1>5 DEF Wide, High, Upright!Rotated, Upright!SourceOf, Upright!Sides,
     Upright!OnSide
<1>6. CASE o = 6
  BY <1>6 DEF Wide, High, Upright!Rotated, Upright!SourceOf, Upright!Sides,
     Upright!OnSide
<1>7. CASE o = 7
  BY <1>7 DEF Wide, High, Upright!Rotated, Upright!SourceOf, Upright!Sides,
     Upright!OnSide
<1>8. CASE o = 8
  BY <1>8 DEF Wide, High, Upright!Rotated, Upright!SourceOf, Upright!Sides,
     Upright!OnSide
<1>9. \/ o = 1 \/ o = 2 \/ o = 3 \/ o = 4 \/ o = 5 \/ o = 6 \/ o = 7 \/ o = 8
  OBVIOUS
<1> QED
  BY <1>1, <1>2, <1>3, <1>4, <1>5, <1>6, <1>7, <1>8, <1>9

\* thumbnail.go:131-152: whatever the size and the orientation, every stored pixel is
\* shown once more or less never: all of them, with the stored row 0 and column 0 on
\* the sides EXIF names.
THEOREM OrientedUpright ==
    ASSUME NEW W \in Nat \ {0}, NEW H \in Nat \ {0}
    PROVE  Upright!OrientUpright(W, H)
<1> DEFINE cells == (0..(W - 1)) \X (0..(H - 1))
           stored == [w |-> W, h |-> H, px |-> [c \in cells |-> c]]
<1> SUFFICES ASSUME NEW o \in 1..8
             PROVE  LET shown == Upright!Orient(stored, o)
                    IN  /\ {shown.px[c] : c \in DOMAIN shown.px} = DOMAIN stored.px
                        /\ \A c \in DOMAIN shown.px :
                              /\ shown.px[c][2] = 0 <=>
                                    Upright!OnSide(Upright!Sides[o][1], shown, c)
                              /\ shown.px[c][1] = 0 <=>
                                    Upright!OnSide(Upright!Sides[o][2], shown, c)
  BY DEF Upright!OrientUpright
<1> DEFINE w == Wide(o, W, H)
           h == High(o, W, H)
           frame == (0..(w - 1)) \X (0..(h - 1))
           src(c) == Upright!SourceOf(o, W, H, c[1], c[2])
           shown == Upright!Orient(stored, o)
<1>0. w \in Nat \ {0} /\ h \in Nat \ {0}
  BY DEF Wide, High
<1>a. /\ \A x \in 0..(w - 1), y \in 0..(h - 1) : Upright!SourceOf(o, W, H, x, y) \in cells
      /\ \A i \in 0..(W - 1), j \in 0..(H - 1) :
            \E x \in 0..(w - 1), y \in 0..(h - 1) : Upright!SourceOf(o, W, H, x, y) = <<i, j>>
  BY SourceOfStored
<1>1. \A c \in frame : src(c) \in cells
  BY <1>a
<1>2. \A d \in cells : \E c \in frame : src(c) = d
  <2>1. ASSUME NEW d \in cells PROVE \E c \in frame : src(c) = d
    <3>1. d[1] \in 0..(W - 1) /\ d[2] \in 0..(H - 1) /\ d = <<d[1], d[2]>>
      OBVIOUS
    <3>2. PICK x \in 0..(w - 1), y \in 0..(h - 1) :
             Upright!SourceOf(o, W, H, x, y) = <<d[1], d[2]>>
      BY <1>a, <3>1
    <3>3. <<x, y>> \in frame /\ <<x, y>>[1] = x /\ <<x, y>>[2] = y
      OBVIOUS
    <3>4. src(<<x, y>>) = d
      BY <3>1, <3>2, <3>3
    <3> QED BY <3>3, <3>4
  <2> QED BY <2>1
<1>3. shown.w = w /\ shown.h = h /\ shown.px = [c \in frame |-> src(c)]
  <2>1. shown.w = w /\ shown.h = h
    BY DEF Upright!Orient, Wide, High
  <2>2. shown.px = [c \in frame |-> stored.px[src(c)]]
    BY DEF Upright!Orient, Wide, High
  <2>3. \A c \in frame : stored.px[src(c)] = src(c)
    BY <1>1
  <2> HIDE DEF shown, src, frame, stored
  <2> QED BY <2>1, <2>2, <2>3
<1>4. ASSUME NEW c \in frame
      PROVE  /\ src(c)[2] = 0 <=> Upright!OnSide(Upright!Sides[o][1], shown, c)
             /\ src(c)[1] = 0 <=> Upright!OnSide(Upright!Sides[o][2], shown, c)
  <2>1. c[1] \in 0..(w - 1) /\ c[2] \in 0..(h - 1) /\ c = <<c[1], c[2]>>
    OBVIOUS
  <2> DEFINE x == c[1]
             y == c[2]
  <2>2. /\ shown.w = Wide(o, W, H) /\ shown.h = High(o, W, H)
        /\ x \in 0..(shown.w - 1) /\ y \in 0..(shown.h - 1)
    BY <1>0, <1>3, <2>1
  <2> HIDE DEF shown, x, y
  <2>3. /\ Upright!SourceOf(o, W, H, x, y)[2] = 0 <=>
              Upright!OnSide(Upright!Sides[o][1], shown, <<x, y>>)
        /\ Upright!SourceOf(o, W, H, x, y)[1] = 0 <=>
              Upright!OnSide(Upright!Sides[o][2], shown, <<x, y>>)
    BY <2>2, SourceSides
  <2> QED BY <2>1, <2>3 DEF x, y
<1>5. \A c \in frame : shown.px[c] = src(c)
  <2> HIDE DEF shown, frame, src
  <2> QED BY <1>3
<1>6. DOMAIN shown.px = frame
  <2> HIDE DEF shown, frame, src
  <2> QED BY <1>3
<1>7. DOMAIN stored.px = cells
  OBVIOUS
<1>8. {shown.px[c] : c \in DOMAIN shown.px} = cells
  <2> HIDE DEF shown, frame, src, cells, stored
  <2> QED BY <1>1, <1>2, <1>5, <1>6
<1>9. \A c \in DOMAIN shown.px :
          /\ shown.px[c][2] = 0 <=> Upright!OnSide(Upright!Sides[o][1], shown, c)
          /\ shown.px[c][1] = 0 <=> Upright!OnSide(Upright!Sides[o][2], shown, c)
  <2> HIDE DEF shown, frame, src, cells, stored
  <2> QED BY <1>4, <1>5, <1>6
<1> HIDE DEF shown, frame, src, cells, stored
<1> QED
  BY <1>7, <1>8, <1>9 DEF shown

\* A stored image.
StoredImage(f) ==
    /\ f.w \in Nat \ {0} /\ f.h \in Nat \ {0}
    /\ f.lat \in Int /\ f.lon \in Int
    /\ f.dates \in Seq({"missing", "old", "time"})

\* A picture that is scaled fits the bound, and neither edge vanishes.
LEMMA ScaledFits ==
    ASSUME NEW w \in Nat \ {0}, NEW h \in Nat \ {0}, NEW maxEdge \in Nat \ {0}
    PROVE  LET s == Upright!Scaled(w, h, maxEdge)
           IN  /\ s.w \in 1..maxEdge /\ s.h \in 1..maxEdge
               /\ s.w <= w /\ s.h <= h
               /\ w <= maxEdge /\ h <= maxEdge => s = [w |-> w, h |-> h]
               /\ (w >= h => s.w >= s.h) /\ (h >= w => s.h >= s.w)
<1>1. CASE w <= maxEdge /\ h <= maxEdge
  BY <1>1 DEF Upright!Scaled
<1>2. ASSUME NEW a \in Nat \ {0}, NEW b \in Nat \ {0}, a >= b, a > maxEdge
      PROVE  LET e == Upright!AtLeastOne((b * maxEdge) \div a)
             IN  /\ e \in 1..maxEdge /\ e <= b
                 /\ b = a => e = maxEdge
  <2> DEFINE q == (b * maxEdge) \div a
  <2>1. b * maxEdge \in Nat
    OBVIOUS
  <2>2. b * maxEdge <= a * maxEdge
    <3>1. PICK d \in Nat : a = b + d
      BY <1>2
    <3>2. a * maxEdge = b * maxEdge + d * maxEdge /\ d * maxEdge >= 0
      BY <3>1
    <3> QED BY <2>1, <3>2
  <2>3. b * maxEdge <= a * b
    <3>1. PICK d \in Nat : a = maxEdge + d
      BY <1>2
    <3>2. a * b = b * maxEdge + d * b /\ d * b >= 0
      BY <3>1
    <3> QED BY <2>1, <3>2
  <2>4. q \in Nat /\ q <= maxEdge /\ q <= b
    BY <2>1, <2>2, <2>3, Division, QuotientBounds
  <2>5. b = a => q >= maxEdge
    BY <2>1, QuotientBounds
  <2> HIDE DEF q
  <2>6. Upright!AtLeastOne(q) \in 1..maxEdge /\ Upright!AtLeastOne(q) <= b
        /\ (b = a => Upright!AtLeastOne(q) = maxEdge)
    BY <2>4, <2>5 DEF Upright!AtLeastOne
  <2> QED BY <2>6 DEF q
<1>3. CASE ~(w <= maxEdge /\ h <= maxEdge) /\ w >= h
  <2> DEFINE e == Upright!AtLeastOne((h * maxEdge) \div w)
  <2>1. Upright!Scaled(w, h, maxEdge) = [w |-> maxEdge, h |-> e]
    BY <1>3 DEF Upright!Scaled
  <2>2. w > maxEdge
    BY <1>3
  <2>3. e \in 1..maxEdge /\ e <= h /\ (h = w => e = maxEdge)
    BY <1>2, <1>3, <2>2
  <2> HIDE DEF e
  <2> QED BY <1>3, <2>1, <2>2, <2>3
<1>4. CASE ~(w <= maxEdge /\ h <= maxEdge) /\ ~(w >= h)
  <2> DEFINE e == Upright!AtLeastOne((w * maxEdge) \div h)
  <2>1. Upright!Scaled(w, h, maxEdge) = [w |-> e, h |-> maxEdge]
    BY <1>4 DEF Upright!Scaled
  <2>2. h > maxEdge /\ h >= w
    BY <1>4
  <2>3. e \in 1..maxEdge /\ e <= w
    BY <1>2, <2>2
  <2> HIDE DEF e
  <2> QED BY <1>4, <2>1, <2>2, <2>3
<1> QED
  BY <1>1, <1>3, <1>4

\* metadata.go:167-175, thumbnail.go:59-63: the row and the thumbnail agree on which
\* way up a picture is, and no thumbnail outgrows its bound or its picture, loses
\* its shape or vanishes, whatever the sizes and the state of the EXIF block.
THEOREM ThumbnailsAgree ==
    ASSUME NEW f, StoredImage(f), NEW maxEdge \in Nat \ {0}
    PROVE  Upright!ThumbnailAgrees(f, maxEdge)
<1> DEFINE s == Upright!Scaled(f.w, f.h, maxEdge)
<1>1. /\ s.w \in 1..maxEdge /\ s.h \in 1..maxEdge
      /\ s.w <= f.w /\ s.h <= f.h
      /\ f.w <= maxEdge /\ f.h <= maxEdge => s = [w |-> f.w, h |-> f.h]
      /\ (f.w >= f.h => s.w >= s.h) /\ (f.h >= f.w => s.h >= s.w)
      /\ f.w \in Nat /\ f.h \in Nat
  BY ScaledFits DEF StoredImage
<1>2. CASE Upright!Rotated(Upright!readOrientation(f))
  <2> HIDE DEF s
  <2>1. Upright!ThumbnailSize(f, maxEdge) = [w |-> s.h, h |-> s.w]
    BY <1>2 DEF Upright!ThumbnailSize, s
  <2>2. Upright!applyOrientation(f) = [w |-> f.h, h |-> f.w]
    BY <1>2 DEF Upright!applyOrientation
  <2> QED BY <1>1, <2>1, <2>2 DEF Upright!ThumbnailAgrees
<1>3. CASE ~Upright!Rotated(Upright!readOrientation(f))
  <2> HIDE DEF s
  <2>1. Upright!ThumbnailSize(f, maxEdge) = s
    BY <1>3 DEF Upright!ThumbnailSize, s
  <2>2. Upright!applyOrientation(f) = [w |-> f.w, h |-> f.h]
    BY <1>3 DEF Upright!applyOrientation
  <2> QED BY <1>1, <2>1, <2>2 DEF Upright!ThumbnailAgrees
<1> QED
  BY <1>2, <1>3

\* metadata.go:156-192, 233-278: for any tags and whatever the state of the block, a
\* capture time and a position are what the camera said or marked as not.
THEOREM CapturesTrusted ==
    ASSUME NEW f, StoredImage(f), NEW modTime \in BOOLEAN
    PROVE  Upright!CaptureTrusted(f, modTime)
<1> DEFINE usable == {k \in DOMAIN f.dates : Upright!Readable(f) /\ f.dates[k] = "time"}
           t == Upright!readCaptureTime(f)
           at == Upright!CapturedAt(f, modTime)
<1>1. DOMAIN f.dates \subseteq Nat \ {0} /\ usable \subseteq Nat \ {0}
  BY DEF StoredImage
<1>2. usable = {} => t = 0
  BY DEF Upright!readCaptureTime, Upright!NoTime
<1>3. ASSUME usable # {} PROVE t \in usable /\ \A k \in usable : t <= k
  <2>1. \E m \in usable : \A n \in usable : m <= n
    <3> HIDE DEF usable
    <3> QED BY <1>1, <1>3, LeastNatural
  <2> QED
    BY <1>3, <2>1 DEF Upright!readCaptureTime, Upright!Min
<1>4. at = IF t # 0 THEN [source |-> "exif", tag |-> t]
           ELSE IF modTime THEN [source |-> "filesystem", tag |-> 0]
           ELSE [source |-> "none", tag |-> 0]
  BY DEF Upright!CapturedAt, Upright!NoTime
<1>5. usable # {} <=> \E k \in DOMAIN f.dates : Upright!Readable(f) /\ f.dates[k] = "time"
  OBVIOUS
<1>6. t # 0 <=> usable # {}
  BY <1>1, <1>2, <1>3
<1>7. at.source = "exif" <=> t # 0
  BY <1>4
<1>8. at.source = "exif" => at.tag = t
  BY <1>4
<1>9. at.source = "none" <=> ~modTime /\ t = 0
  BY <1>4
<1>10. at.source = "exif" => \A k \in DOMAIN f.dates : f.dates[k] = "time" => at.tag <= k
  <2>1. Upright!Readable(f) => \A k \in DOMAIN f.dates : f.dates[k] = "time" => k \in usable
    OBVIOUS
  <2>2. usable # {} => Upright!Readable(f)
    OBVIOUS
  <2> HIDE DEF usable, t, at
  <2> QED BY <1>3, <1>6, <1>7, <1>8, <2>1, <2>2
<1>11. Upright!Located(f) => /\ f.lat * f.lat <= 8100 /\ f.lon * f.lon <= 32400
                             /\ f.lat # 0 \/ f.lon # 0
  <2>1. ASSUME Upright!Located(f)
        PROVE  f.lat \in -90..90 /\ f.lon \in -180..180 /\ ~(f.lat = 0 /\ f.lon = 0)
    BY <2>1 DEF Upright!Located, Upright!readLocation
  <2> QED
    BY <2>1, SquareBound
<1>12. at.source = "exif" <=> \E k \in DOMAIN f.dates : Upright!Readable(f) /\ f.dates[k] = "time"
  <2> HIDE DEF usable, t, at
  <2> QED BY <1>5, <1>6, <1>7
<1>13. at.source = "none" <=> ~modTime /\ t = Upright!NoTime
  BY <1>9 DEF Upright!NoTime
<1>14. SUFFICES
         /\ at.source = "exif" <=> \E k \in DOMAIN f.dates : Upright!Readable(f) /\ f.dates[k] = "time"
         /\ at.source = "exif" => \A k \in DOMAIN f.dates : f.dates[k] = "time" => at.tag <= k
         /\ at.source = "none" <=> ~modTime /\ t = Upright!NoTime
         /\ Upright!Located(f) => /\ f.lat * f.lat <= 8100 /\ f.lon * f.lon <= 32400
                                  /\ f.lat # 0 \/ f.lon # 0
  BY DEF Upright!CaptureTrusted
<1> HIDE DEF usable, at, t
<1> QED
  BY <1>10, <1>11, <1>12, <1>13

-----------------------------------------------------------------------------
(* Scores: sums.  SumFunctionOnSet takes the elements of a set one by one in *)
(* some order; SumLaw says that any order gives the same.                   *)

\* What is summed.
Sum(f, S) == Quality!SumFunctionOnSet(f, S)

\* The next element taken, and one turn of the fold.
Pick(S) == CHOOSE x \in S : TRUE
Turn(f, g, s) == IF s = {} THEN 0 ELSE f[Pick(s)] + g[s \ {Pick(s)}]

\* g is the sums of f over the subsets of S.
Sums(f, S, g) == g = [s \in SUBSET S |-> Turn(f, g, s)]

\* Over those of at most m elements.
Adds(f, S, g, m) ==
    g = [s \in {s \in SUBSET S : Cardinality(s) <= m} |-> Turn(f, g, s)]

LEMMA PickIn == ASSUME NEW S, S # {} PROVE Pick(S) \in S
BY DEF Pick

\* From the subsets of m elements to those of m + 1.
LEMMA AddsStep ==
    ASSUME NEW f, NEW S, IsFiniteSet(S), NEW m \in Nat, \E g : Adds(f, S, g, m)
    PROVE  \E g : Adds(f, S, g, m + 1)
<1>1. PICK g : Adds(f, S, g, m)
  OBVIOUS
<1> DEFINE Fewer == {s \in SUBSET S : Cardinality(s) <= m}
           Most == {s \in SUBSET S : Cardinality(s) <= m + 1}
           h == [s \in Most |-> IF s \in Fewer THEN g[s] ELSE Turn(f, g, s)]
<1>2. \A s \in SUBSET S : IsFiniteSet(s) /\ Cardinality(s) \in Nat
  BY FS_Subset, FS_CardinalityType
<1>3. Fewer \subseteq Most
  BY <1>2
<1>4. \A s \in Most : s # {} => s \ {Pick(s)} \in Fewer
  <2> SUFFICES ASSUME NEW s \in Most, s # {} PROVE s \ {Pick(s)} \in Fewer
    OBVIOUS
  <2>1. Pick(s) \in s /\ s \in SUBSET S
    BY PickIn
  <2>2. Cardinality(s \ {Pick(s)}) = Cardinality(s) - 1
    BY <1>2, <2>1, FS_RemoveElement
  <2> QED BY <1>2, <2>1, <2>2
<1>5. \A s \in Fewer : g[s] = Turn(f, g, s)
  BY <1>1 DEF Adds
<1> HIDE DEF Fewer, Most
<1>6. \A s \in Most : h[s] = Turn(f, h, s)
  <2> SUFFICES ASSUME NEW s \in Most PROVE h[s] = Turn(f, h, s)
    OBVIOUS
  <2>1. h[s] = Turn(f, g, s)
    BY <1>5
  <2>2. s # {} => h[s \ {Pick(s)}] = g[s \ {Pick(s)}]
    BY <1>3, <1>4
  <2> HIDE DEF h
  <2> QED BY <2>1, <2>2 DEF Turn
<1>7. h = [s \in Most |-> Turn(f, h, s)]
  <2> DEFINE k == h
  <2>1. k = [s \in Most |-> h[s]]
    OBVIOUS
  <2> HIDE DEF h
  <2> QED BY <1>6, <2>1 DEF k
<1> HIDE DEF h
<1> QED BY <1>7 DEF Adds, Most

\* The sum of a finite set is one turn of the fold, and the sum of the rest.
LEMMA SumUnfolds ==
    ASSUME NEW f, NEW S, IsFiniteSet(S)
    PROVE  \E g : Sums(f, S, g) /\ Sum(f, S) = g[S]
<1> DEFINE n == Cardinality(S)
           T == {m \in Nat : \E g : Adds(f, S, g, m)}
<1>0. n \in Nat
  BY FS_CardinalityType
<1>1. 0 \in T
  <2> DEFINE h == [s \in {s \in SUBSET S : Cardinality(s) <= 0} |-> 0]
  <2>1. \A s \in SUBSET S : Cardinality(s) <= 0 => s = {}
    BY FS_Subset, FS_EmptySet, FS_CardinalityType
  <2>2. Adds(f, S, h, 0)
    BY <2>1 DEF Adds, Turn
  <2> QED BY <2>2
<1>2. ASSUME NEW m \in Nat, m \in T PROVE m + 1 \in T
  BY <1>2, AddsStep
<1>3. n \in T
  <2> HIDE DEF T, n
  <2> QED BY <1>0, <1>1, <1>2, Always
<1>4. PICK g : Adds(f, S, g, n)
  BY <1>3
<1>5. {s \in SUBSET S : Cardinality(s) <= n} = SUBSET S
  BY FS_Subset
<1>6. Sums(f, S, g)
  BY <1>4, <1>5 DEF Adds, Sums
<1>7. Sum(f, S) = (CHOOSE h : Sums(f, S, h))[S]
  BY Zenon DEF Sum, Quality!SumFunctionOnSet, Quality!FoldFunctionOnSet, Quality!MapThenFoldSet,
               Sums, Turn, Pick
<1>8. Sums(f, S, CHOOSE h : Sums(f, S, h))
  BY <1>6
<1> QED BY <1>7, <1>8

\* The equation of the fold has one solution.
LEMMA SumsAgree ==
    ASSUME NEW f, NEW S, IsFiniteSet(S), NEW R \in SUBSET S,
           NEW g, Sums(f, S, g), NEW h, Sums(f, R, h)
    PROVE  g[R] = h[R]
<1> DEFINE T == {m \in Nat : \A s \in SUBSET R : Cardinality(s) = m => g[s] = h[s]}
<1>1. \A s \in SUBSET R : s \in SUBSET S /\ IsFiniteSet(s) /\ Cardinality(s) \in Nat
  BY FS_Subset, FS_CardinalityType
<1>2. \A s \in SUBSET R : g[s] = Turn(f, g, s) /\ h[s] = Turn(f, h, s)
  BY <1>1 DEF Sums
<1>3. 0 \in T
  <2> SUFFICES ASSUME NEW s \in SUBSET R, Cardinality(s) = 0 PROVE g[s] = h[s]
    OBVIOUS
  <2>1. s = {}
    BY <1>1, FS_EmptySet
  <2> QED BY <1>2, <2>1 DEF Turn
<1>4. ASSUME NEW m \in Nat, m \in T PROVE m + 1 \in T
  <2> SUFFICES ASSUME NEW s \in SUBSET R, Cardinality(s) = m + 1 PROVE g[s] = h[s]
    OBVIOUS
  <2>1. s # {}
    BY FS_EmptySet
  <2>2. Pick(s) \in s
    BY <2>1, PickIn
  <2>3. Cardinality(s \ {Pick(s)}) = Cardinality(s) - 1
    BY <1>1, <2>2, FS_RemoveElement
  <2>4. g[s \ {Pick(s)}] = h[s \ {Pick(s)}]
    BY <1>4, <2>3
  <2> QED BY <1>2, <2>1, <2>4 DEF Turn
<1>5. \A m \in Nat : m \in T
  <2> HIDE DEF T
  <2> QED BY <1>3, <1>4, Always
<1> QED BY <1>1, <1>5

\* The fold as a law.
LEMMA SumPicks ==
    ASSUME NEW f, NEW S, IsFiniteSet(S)
    PROVE  Sum(f, S) = IF S = {} THEN 0 ELSE f[Pick(S)] + Sum(f, S \ {Pick(S)})
<1>1. PICK g : Sums(f, S, g) /\ Sum(f, S) = g[S]
  BY SumUnfolds
<1> DEFINE R == S \ {Pick(S)}
<1>2. IsFiniteSet(R) /\ R \in SUBSET S
  BY FS_Subset
<1>3. PICK h : Sums(f, R, h) /\ Sum(f, R) = h[R]
  BY <1>2, SumUnfolds
<1>4. g[R] = h[R]
  <2> HIDE DEF R
  <2> QED BY <1>1, <1>2, <1>3, SumsAgree
<1>5. g[S] = Turn(f, g, S)
  BY <1>1 DEF Sums
<1> QED BY <1>1, <1>3, <1>4, <1>5 DEF Turn

LEMMA SumEmpty == ASSUME NEW f PROVE Sum(f, {}) = 0
BY FS_EmptySet, SumPicks

\* A sum takes its elements in any order.
LEMMA SumLaw ==
    ASSUME NEW S, IsFiniteSet(S), NEW f, \A x \in S : f[x] \in Int
    PROVE  /\ Sum(f, S) \in Int
           /\ \A x \in S : Sum(f, S) = f[x] + Sum(f, S \ {x})
<1> DEFINE Law(s) == /\ Sum(f, s) \in Int
                     /\ \A x \in s : Sum(f, s) = f[x] + Sum(f, s \ {x})
           T == {m \in Nat : \A s \in SUBSET S : Cardinality(s) <= m => Law(s)}
<1>1. \A s \in SUBSET S : IsFiniteSet(s) /\ Cardinality(s) \in Nat
  BY FS_Subset, FS_CardinalityType
<1>2. 0 \in T
  <2> SUFFICES ASSUME NEW s \in SUBSET S, Cardinality(s) <= 0 PROVE Law(s)
    OBVIOUS
  <2>1. s = {}
    BY <1>1, FS_EmptySet
  <2> QED BY <2>1, SumEmpty
<1>3. ASSUME NEW m \in Nat, m \in T PROVE m + 1 \in T
  <2> SUFFICES ASSUME NEW s \in SUBSET S, Cardinality(s) <= m + 1, s # {}
                  PROVE  Law(s)
    BY SumEmpty
  <2> DEFINE y == Pick(s)
  <2>2. y \in s /\ y \in S
    BY PickIn
  <2>3. \A x \in s : /\ s \ {x} \in SUBSET S
                     /\ Cardinality(s \ {x}) <= m
    BY <1>1, <1>3, FS_RemoveElement
  <2>4. \A x \in s : Law(s \ {x})
    <3> HIDE DEF Law
    <3> QED BY <1>3, <2>3
  <2>5. Sum(f, s) = f[y] + Sum(f, s \ {y})
    BY <1>1, SumPicks
  <2> HIDE DEF y
  <2>6. Sum(f, s) \in Int
    BY <2>2, <2>4, <2>5
  <2>7. ASSUME NEW x \in s PROVE Sum(f, s) = f[x] + Sum(f, s \ {x})
    <3>1. CASE x = y
      BY <2>5, <3>1
    <3>2. CASE x # y
      <4> DEFINE both == s \ {x, y}
      <4>1. (s \ {x}) \ {y} = both /\ (s \ {y}) \ {x} = both /\ y \in s \ {x} /\ x \in s \ {y}
        BY <2>2, <3>2
      <4>2. Sum(f, s \ {x}) = f[y] + Sum(f, both) /\ Sum(f, s \ {x}) \in Int
        BY <2>4, <4>1
      <4>3. Sum(f, s \ {y}) = f[x] + Sum(f, both)
        BY <2>2, <2>4, <4>1
      <4>4. Sum(f, both) \in Int
        <5>1. both \in SUBSET S /\ both = (s \ {x}) \ {y} /\ s \ {x} \in SUBSET S
          BY <4>1
        <5>2. Cardinality(both) <= m
          <6>1. Cardinality(s \ {x}) <= m /\ Cardinality(s \ {x}) \in Nat /\ IsFiniteSet(s \ {x})
            BY <1>1, <2>3, <5>1
          <6>2. Cardinality((s \ {x}) \ {y}) = Cardinality(s \ {x}) - 1
            <7> DEFINE w == s \ {x}
            <7>1. IsFiniteSet(w) /\ y \in w
              BY <4>1, <6>1
            <7> HIDE DEF w
            <7>2. Cardinality(w \ {y}) = Cardinality(w) - 1
              BY <7>1, FS_RemoveElement
            <7> QED BY <7>2 DEF w
          <6> HIDE DEF both
          <6> QED BY <1>3, <5>1, <6>1, <6>2
        <5>3. Law(both)
          <6> HIDE DEF Law, both
          <6> QED BY <1>3, <5>1, <5>2
        <5> QED BY <5>3
      <4> HIDE DEF both
      <4> QED BY <2>2, <2>5, <4>2, <4>3, <4>4
    <3> QED BY <3>1, <3>2
  <2> QED BY <2>6, <2>7
<1>4. \A m \in Nat : m \in T
  <2> HIDE DEF T
  <2> QED BY <1>2, <1>3, Always
<1> QED BY <1>1, <1>4

\* What the empty set has, and a set when it has it without one of its elements,
\* every finite set has.
LEMMA BySubsets ==
    ASSUME NEW S, IsFiniteSet(S), NEW T, {} \in T,
           \A s \in SUBSET S : \A x \in s : s \ {x} \in T => s \in T
    PROVE  S \in T
<1> DEFINE N == {m \in Nat : \A s \in SUBSET S : Cardinality(s) = m => s \in T}
<1>1. \A s \in SUBSET S : IsFiniteSet(s) /\ Cardinality(s) \in Nat
  BY FS_Subset, FS_CardinalityType
<1>2. 0 \in N
  <2> SUFFICES ASSUME NEW s \in SUBSET S, Cardinality(s) = 0 PROVE s \in T
    OBVIOUS
  <2> QED BY <1>1, FS_EmptySet
<1>3. ASSUME NEW m \in Nat, m \in N PROVE m + 1 \in N
  <2> SUFFICES ASSUME NEW s \in SUBSET S, Cardinality(s) = m + 1 PROVE s \in T
    OBVIOUS
  <2>0. s # {}
    <3>1. Cardinality({}) = 0 /\ m + 1 # 0
      BY FS_EmptySet
    <3> HIDE DEF N
    <3> QED BY <3>1
  <2>1. PICK x \in s : TRUE
    BY <2>0
  <2>2. Cardinality(s \ {x}) = Cardinality(s) - 1
    BY <1>1, FS_RemoveElement
  <2>3. s \ {x} \in T
    BY <1>3, <2>2
  <2> QED BY <2>3
<1>4. \A m \in Nat : m \in N
  <2> HIDE DEF N
  <2> QED BY <1>2, <1>3, Always
<1> QED BY <1>1, <1>4

\* Values counted under other names have the same sum.
LEMMA SumRenamed ==
    ASSUME NEW R, IsFiniteSet(R), NEW f, NEW g, NEW phi,
           \A x \in R : f[phi[x]] \in Int /\ g[x] = f[phi[x]],
           \A x, y \in R : x # y => phi[x] # phi[y]
    PROVE  Sum(g, R) = Sum(f, {phi[x] : x \in R})
<1> DEFINE image(r) == {phi[x] : x \in r}
           T == {r \in SUBSET R : Sum(g, r) = Sum(f, image(r))}
<1>1. \A r \in SUBSET R : IsFiniteSet(r) /\ IsFiniteSet(image(r))
  <2>1. ASSUME NEW r \in SUBSET R PROVE IsFiniteSet(r) /\ IsFiniteSet(image(r))
    <3>1. IsFiniteSet(r)
      BY FS_Subset
    <3> DEFINE h == [x \in r |-> phi[x]]
    <3>2. h \in Surjection(r, image(r))
      BY DEF Surjection
    <3> HIDE DEF h
    <3>3. IsFiniteSet(image(r))
      <4> DEFINE w == image(r)
      <4> HIDE DEF w
      <4>1. \E k : k \in Surjection(r, w)
        BY <3>2 DEF w
      <4>2. IsFiniteSet(w)
        BY <3>1, <4>1, FS_Surjection
      <4> QED BY <4>2 DEF w
    <3> QED BY <3>1, <3>3
  <2> QED BY <2>1
<1>2. {} \in T
  BY SumEmpty
<1>3. ASSUME NEW r \in SUBSET R, NEW y \in r, r \ {y} \in T PROVE r \in T
  <2>1. image(r) \ {phi[y]} = image(r \ {y})
    OBVIOUS
  <2>2. Sum(g, r) = g[y] + Sum(g, r \ {y})
    BY <1>1, SumLaw
  <2>3. Sum(f, image(r)) = f[phi[y]] + Sum(f, image(r) \ {phi[y]})
    <3>1. \A z \in image(r) : f[z] \in Int
      OBVIOUS
    <3>2. phi[y] \in image(r)
      OBVIOUS
    <3> DEFINE w == image(r)
    <3>3. IsFiniteSet(w)
      BY <1>1
    <3> HIDE DEF w
    <3>4. Sum(f, w) = f[phi[y]] + Sum(f, w \ {phi[y]})
      BY <3>1, <3>2, <3>3, SumLaw DEF w
    <3> QED BY <3>4 DEF w
  <2> QED BY <1>3, <2>1, <2>2, <2>3
<1>4. R \in T
  <2> HIDE DEF T
  <2> QED BY <1>2, <1>3, BySubsets
<1> QED BY <1>4

\* n times one value.
LEMMA SumConstant ==
    ASSUME NEW S, IsFiniteSet(S), NEW v \in Int, NEW f, \A x \in S : f[x] = v
    PROVE  Sum(f, S) = v * Cardinality(S)
<1> DEFINE T == {s \in SUBSET S : Sum(f, s) = v * Cardinality(s)}
<1>1. \A s \in SUBSET S : IsFiniteSet(s) /\ Cardinality(s) \in Nat
  BY FS_Subset, FS_CardinalityType
<1>2. {} \in T
  <2>1. v * 0 = 0
    OBVIOUS
  <2> QED BY <2>1, SumEmpty, FS_EmptySet
<1>3. ASSUME NEW s \in SUBSET S, NEW y \in s, s \ {y} \in T PROVE s \in T
  <2>1. Sum(f, s) = v + Sum(f, s \ {y})
    <3>1. IsFiniteSet(s) /\ f[y] = v /\ \A x \in s : f[x] \in Int
      BY <1>1
    <3>2. Sum(f, s) = f[y] + Sum(f, s \ {y})
      BY <3>1, SumLaw
    <3> QED BY <3>1, <3>2
  <2>2. Cardinality(s \ {y}) = Cardinality(s) - 1
    BY <1>1, FS_RemoveElement
  <2>3. \A n \in Int : v + v * (n - 1) = v * n
    OBVIOUS
  <2> QED BY <1>1, <1>3, <2>1, <2>2, <2>3
<1>4. S \in T
  <2> HIDE DEF T
  <2> QED BY <1>2, <1>3, BySubsets
<1> QED BY <1>4

-----------------------------------------------------------------------------
(* Scores: turning.                                                        *)

\* A luminance plane, whatever its values.
Plane(g) ==
    /\ g.w \in Nat \ {0} /\ g.h \in Nat \ {0}
    /\ g.px \in [Quality!Pixels(g) -> Int]

\* The pixel of g that the pixel c of g turned by o is.
From(o, g, c) == Upright!SourceOf(o, g.w, g.h, c[1], c[2])

\* t is g turned by o.
IsTurned(o, g, t) ==
    /\ t.w = Wide(o, g.w, g.h) /\ t.h = High(o, g.w, g.h)
    /\ t.px \in [Quality!Pixels(t) -> Int]
    /\ \A c \in Quality!Pixels(t) : t.px[c] = g.px[From(o, g, c)]

\* The two instances of ImageUpright have one map of coordinates.
LEMMA TurnedSource ==
    \A o, W, H, x, y : Quality!Turned!SourceOf(o, W, H, x, y) = Upright!SourceOf(o, W, H, x, y)
BY DEF Quality!Turned!SourceOf, Upright!SourceOf

\* Turning is a renaming of the pixels.
LEMMA FromRenames ==
    ASSUME NEW g, Plane(g), NEW o \in 1..8, NEW t, t.w = Wide(o, g.w, g.h), t.h = High(o, g.w, g.h)
    PROVE  /\ t.w \in Nat \ {0} /\ t.h \in Nat \ {0}
           /\ {From(o, g, c) : c \in Quality!Pixels(t)} = Quality!Pixels(g)
           /\ \A c, d \in Quality!Pixels(t) : c # d => From(o, g, c) # From(o, g, d)
<1> DEFINE W == g.w
           H == g.h
<1>1. W \in Nat \ {0} /\ H \in Nat \ {0} /\ t.w \in Nat \ {0} /\ t.h \in Nat \ {0}
  BY DEF Plane, Wide, High
<1>2. \A c \in Quality!Pixels(t) : From(o, g, c) \in Quality!Pixels(g)
  BY <1>1, SourceOfStored DEF Quality!Pixels, From
<1>3. \A e \in Quality!Pixels(g) : \E c \in Quality!Pixels(t) : From(o, g, c) = e
  <2> SUFFICES ASSUME NEW e \in Quality!Pixels(g)
               PROVE  \E c \in Quality!Pixels(t) : From(o, g, c) = e
    OBVIOUS
  <2>1. e[1] \in 0..(W - 1) /\ e[2] \in 0..(H - 1) /\ e = <<e[1], e[2]>>
    BY DEF Quality!Pixels
  <2>2. PICK x \in 0..(Wide(o, W, H) - 1), y \in 0..(High(o, W, H) - 1) :
             Upright!SourceOf(o, W, H, x, y) = <<e[1], e[2]>>
    <3> HIDE DEF W, H
    <3>1. W \in Nat \ {0} /\ H \in Nat \ {0} /\ e[1] \in 0..(W - 1) /\ e[2] \in 0..(H - 1)
      BY <1>1, <2>1
    <3>2. \A i \in 0..(W - 1), j \in 0..(H - 1) :
             \E x \in 0..(Wide(o, W, H) - 1), y \in 0..(High(o, W, H) - 1) :
                Upright!SourceOf(o, W, H, x, y) = <<i, j>>
      BY <3>1, SourceOfStored
    <3> QED BY <3>1, <3>2
  <2>3. <<x, y>> \in Quality!Pixels(t)
    BY DEF Quality!Pixels
  <2>4. From(o, g, <<x, y>>) = e
    BY <2>1, <2>2 DEF From
  <2> QED BY <2>3, <2>4
<1>4. ASSUME NEW c \in Quality!Pixels(t), NEW d \in Quality!Pixels(t),
             From(o, g, c) = From(o, g, d)
      PROVE  c = d
  <2>1. /\ c[1] \in Int /\ c[2] \in Int /\ c = <<c[1], c[2]>>
        /\ d[1] \in Int /\ d[2] \in Int /\ d = <<d[1], d[2]>>
    BY <1>1 DEF Quality!Pixels
  <2>2. c[1] = d[1] /\ c[2] = d[2]
    <3>1. o = 1 \/ o = 2 \/ o = 3 \/ o = 4 \/ o = 5 \/ o = 6 \/ o = 7 \/ o = 8
      OBVIOUS
    <3> QED BY <1>1, <1>4, <2>1, <3>1 DEF From, Upright!SourceOf
  <2> QED BY <2>1, <2>2
<1> QED
  BY <1>1, <1>2, <1>3, <1>4

\* A step of one in either direction, seen before the turn.
Before(o, d) == Upright!SourceOf(o, 1, 1, d[1], d[2])

LEMMA Eight == ASSUME NEW o \in 1..8
               PROVE  o = 1 \/ o = 2 \/ o = 3 \/ o = 4 \/ o = 5 \/ o = 6 \/ o = 7 \/ o = 8
OBVIOUS

\* Turning permutes the nine neighbours, and keeps their weights.
LEMMA BeforeRenames ==
    ASSUME NEW o \in 1..8
    PROVE  /\ \A d \in Quality!Kernel : Before(o, d) \in Quality!Kernel
           /\ \A d, e \in Quality!Kernel : d # e => Before(o, d) # Before(o, e)
           /\ \A e \in Quality!Kernel : \E d \in Quality!Kernel : Before(o, d) = e
           /\ \A d \in Quality!Kernel : Quality!Weight(Before(o, d)) = Quality!Weight(d)
<1> DEFINE K == (-1..1) \X (-1..1)
<1>1. \A x, y \in -1..1 : -x \in -1..1 /\ -y \in -1..1 /\ -(-x) = x /\ (-x) * (-x) = x * x
  OBVIOUS
<1>2. \A d \in K : d[1] \in -1..1 /\ d[2] \in -1..1 /\ d = <<d[1], d[2]>>
  OBVIOUS
<1>3. Quality!Kernel = K
  BY DEF Quality!Kernel
<1>4. \A d \in K : Before(o, d) \in K
  BY <1>2, Eight DEF Before, Upright!SourceOf
<1>5. ASSUME NEW d \in K, NEW e \in K, Before(o, d) = Before(o, e) PROVE d = e
  <2>1. d[1] = e[1] /\ d[2] = e[2]
    BY <1>2, <1>5, Eight DEF Before, Upright!SourceOf
  <2> QED BY <1>2, <2>1
<1>6. ASSUME NEW e \in K PROVE \E d \in K : Before(o, d) = e
  <2> DEFINE x == e[1]
             y == e[2]
  <2>1. x \in -1..1 /\ y \in -1..1 /\ e = <<x, y>>
    BY <1>2
  <2> HIDE DEF x, y
  <2>2. /\ Before(1, <<x, y>>) = e /\ Before(2, <<-x, y>>) = e /\ Before(3, <<-x, -y>>) = e
        /\ Before(4, <<x, -y>>) = e /\ Before(5, <<y, x>>) = e /\ Before(6, <<-y, x>>) = e
        /\ Before(7, <<-y, -x>>) = e /\ Before(8, <<y, -x>>) = e
    BY <2>1 DEF Before, Upright!SourceOf
  <2>3. /\ <<x, y>> \in K /\ <<-x, y>> \in K /\ <<-x, -y>> \in K /\ <<x, -y>> \in K
        /\ <<y, x>> \in K /\ <<-y, x>> \in K /\ <<-y, -x>> \in K /\ <<y, -x>> \in K
    BY <2>1
  <2> HIDE DEF K
  <2> QED BY <2>2, <2>3, Eight
<1>7. ASSUME NEW d \in K PROVE Quality!Weight(Before(o, d)) = Quality!Weight(d)
  <2> DEFINE x == d[1]
             y == d[2]
  <2>1. x \in -1..1 /\ y \in -1..1
    BY <1>2
  <2>2. \/ Before(o, d) \in {<<x, y>>, <<-x, y>>, <<-x, -y>>, <<x, -y>>}
        \/ Before(o, d) \in {<<y, x>>, <<-y, x>>, <<-y, -x>>, <<y, -x>>}
    BY <2>1, Eight DEF Before, Upright!SourceOf
  <2>3. /\ x * x = (-x) * (-x) /\ y * y = (-y) * (-y)
        /\ (2 - x * x) * (2 - y * y) = (2 - y * y) * (2 - x * x)
    BY <2>1
  <2> QED BY <2>2, <2>3 DEF Quality!Weight
<1> HIDE DEF K
<1> QED BY <1>3, <1>4, <1>5, <1>6, <1>7

\* A neighbour, or the pixel at the edge, is a pixel.
LEMMA NearIsPixel ==
    ASSUME NEW g, Plane(g), NEW c \in Quality!Pixels(g), NEW d \in Quality!Kernel
    PROVE  \E e \in Quality!Pixels(g) : Quality!Near(g, c, d) = g.px[e]
<1>1. /\ c[1] \in Int /\ c[2] \in Int /\ d[1] \in Int /\ d[2] \in Int
      /\ g.w \in Nat \ {0} /\ g.h \in Nat \ {0} /\ g.px \in [Quality!Pixels(g) -> Int]
  BY DEF Quality!Pixels, Quality!Kernel, Plane
<1>2. /\ Quality!Clamp(c[1] + d[1], g.w - 1) \in 0..(g.w - 1)
      /\ Quality!Clamp(c[2] + d[2], g.h - 1) \in 0..(g.h - 1)
  BY <1>1 DEF Quality!Clamp, Quality!Larger, Quality!Smaller
<1>3. <<Quality!Clamp(c[1] + d[1], g.w - 1), Quality!Clamp(c[2] + d[2], g.h - 1)>>
        \in Quality!Pixels(g)
  BY <1>2 DEF Quality!Pixels
<1> QED
  BY <1>3 DEF Quality!Near

LEMMA NearIsValue ==
    ASSUME NEW g, Plane(g), NEW c \in Quality!Pixels(g), NEW d \in Quality!Kernel
    PROVE  Quality!Near(g, c, d) \in Int /\ Quality!Weight(d) \in Int
<1>1. d[1] \in Int /\ d[2] \in Int /\ g.px \in [Quality!Pixels(g) -> Int]
  BY DEF Quality!Kernel, Plane
<1>2. Quality!Near(g, c, d) \in Int
  BY <1>1, NearIsPixel
<1>3. d[1] * d[1] \in Int /\ d[2] * d[2] \in Int
  BY <1>1
<1> QED
  BY <1>2, <1>3 DEF Quality!Weight

\* The neighbours of a turned pixel are those of the pixel it was, edges included.
LEMMA NearTurned ==
    ASSUME NEW g, Plane(g), NEW o \in 1..8, NEW t, IsTurned(o, g, t),
           NEW c \in Quality!Pixels(t), NEW d \in Quality!Kernel
    PROVE  Quality!Near(t, c, d) = Quality!Near(g, From(o, g, c), Before(o, d))
<1> DEFINE W == g.w
           H == g.h
           x == c[1]
           y == c[2]
           dx == d[1]
           dy == d[2]
           cx == Quality!Clamp(x + dx, t.w - 1)
           cy == Quality!Clamp(y + dy, t.h - 1)
           e == <<cx, cy>>
<1>1. W \in Nat \ {0} /\ H \in Nat \ {0} /\ t.w \in Nat \ {0} /\ t.h \in Nat \ {0}
  BY DEF Plane, Wide, High, IsTurned
<1>2. x \in 0..(t.w - 1) /\ y \in 0..(t.h - 1) /\ dx \in -1..1 /\ dy \in -1..1
  BY DEF Quality!Pixels, Quality!Kernel
<1>3. cx \in 0..(t.w - 1) /\ cy \in 0..(t.h - 1)
  BY <1>1, <1>2 DEF Quality!Clamp, Quality!Larger, Quality!Smaller
<1>4. e \in Quality!Pixels(t)
  BY <1>3 DEF Quality!Pixels
<1>5. Quality!Near(t, c, d) = g.px[From(o, g, e)]
  BY <1>4 DEF Quality!Near, IsTurned
<1>6. From(o, g, e) = <<Quality!Clamp(From(o, g, c)[1] + Before(o, d)[1], W - 1),
                        Quality!Clamp(From(o, g, c)[2] + Before(o, d)[2], H - 1)>>
  <2>1. /\ t.w = Wide(o, W, H) /\ t.h = High(o, W, H)
    BY DEF IsTurned
  <2> DEFINE Clamp(v, top) == Quality!Clamp(v, top)
  <2>2. \A n \in Nat \ {0} : \A v \in 0..(n - 1) : \A dv \in -1..1 :
           n - 1 - Clamp(v + dv, n - 1) = Clamp((n - 1 - v) - dv, n - 1)
    BY DEF Quality!Clamp, Quality!Larger, Quality!Smaller
  <2> QED BY <1>1, <1>2, <1>3, <2>1, <2>2, Eight
          DEF From, Before, Upright!SourceOf, Wide, High, Upright!Rotated
<1> QED BY <1>5, <1>6 DEF Quality!Near

KernelRow(y) == (-1..1) \X {y}

LEMMA RowIsThree == ASSUME NEW y PROVE KernelRow(y) = {<<-1, y>>, <<0, y>>, <<1, y>>}
<1>1. ASSUME NEW e \in KernelRow(y) PROVE e \in {<<-1, y>>, <<0, y>>, <<1, y>>}
  <2>1. e = <<e[1], e[2]>> /\ e[1] \in -1..1 /\ e[2] = y
    BY DEF KernelRow
  <2>2. e[1] = -1 \/ e[1] = 0 \/ e[1] = 1
    BY <2>1
  <2> QED BY <2>1, <2>2
<1>2. ASSUME NEW e \in {<<-1, y>>, <<0, y>>, <<1, y>>} PROVE e \in KernelRow(y)
  BY DEF KernelRow
<1> QED BY <1>1, <1>2

\* A row of the kernel adds up to three terms.
LEMMA RowIsSummed ==
    ASSUME NEW f, NEW S, IsFiniteSet(S), NEW y, KernelRow(y) \subseteq S,
           \A d \in S : f[d] \in Int
    PROVE  /\ Sum(f, S) = f[<<-1, y>>] + f[<<0, y>>] + f[<<1, y>>] + Sum(f, S \ KernelRow(y))
           /\ Sum(f, S \ KernelRow(y)) \in Int
           /\ IsFiniteSet(S \ KernelRow(y))
<1> DEFINE a == <<-1, y>>
           b == <<0, y>>
           c == <<1, y>>
<1>1. a # b /\ b # c /\ a # c
  OBVIOUS
<1>2. KernelRow(y) = {a, b, c}
  BY RowIsThree
<1> HIDE DEF a, b, c
<1>3. IsFiniteSet(S \ {a}) /\ IsFiniteSet((S \ {a}) \ {b}) /\ IsFiniteSet(((S \ {a}) \ {b}) \ {c})
  BY FS_Subset
<1>4. a \in S /\ b \in S \ {a} /\ c \in (S \ {a}) \ {b}
  BY <1>1, <1>2
<1>5. Sum(f, S) = f[a] + Sum(f, S \ {a})
  BY <1>4, SumLaw
<1>6. Sum(f, S \ {a}) = f[b] + Sum(f, (S \ {a}) \ {b})
  BY <1>3, <1>4, SumLaw
<1>7. Sum(f, (S \ {a}) \ {b}) = f[c] + Sum(f, ((S \ {a}) \ {b}) \ {c})
  BY <1>3, <1>4, SumLaw
<1>8. Sum(f, ((S \ {a}) \ {b}) \ {c}) \in Int
  BY <1>3, SumLaw
<1>9. ((S \ {a}) \ {b}) \ {c} = S \ KernelRow(y)
  BY <1>2
<1>10. f[a] \in Int /\ f[b] \in Int /\ f[c] \in Int
  BY <1>4
<1>11. Sum(f, S) = f[a] + f[b] + f[c] + Sum(f, S \ KernelRow(y))
  <2> DEFINE total == Sum(f, S)
             afterA == Sum(f, S \ {a})
             afterB == Sum(f, (S \ {a}) \ {b})
             rest == Sum(f, S \ KernelRow(y))
  <2>1. total = f[a] + afterA /\ afterA = f[b] + afterB
    BY <1>5, <1>6
  <2>2. afterB = f[c] + rest /\ rest \in Int
    BY <1>7, <1>8, <1>9
  <2> HIDE DEF total, afterA, afterB, rest
  <2>3. total = f[a] + f[b] + f[c] + rest
    BY <1>10, <2>1, <2>2
  <2> QED BY <2>3 DEF total, rest
<1> QED BY <1>3, <1>8, <1>9, <1>11 DEF a, b, c

LEMMA KernelFinite == IsFiniteSet(Quality!Kernel)
<1>1. \A i, j \in Int : IsFiniteSet(i..j)
  BY FS_Interval
<1>2. IsFiniteSet(-1..1)
  <2>1. -1 \in Int /\ 1 \in Int
    OBVIOUS
  <2> QED BY ONLY <1>1, <2>1
<1> DEFINE I == -1..1
<1> HIDE DEF I
<1>3. IsFiniteSet(I \X I)
  BY <1>2, FS_Product DEF I
<1> QED
  BY <1>3 DEF I, Quality!Kernel

\* The nine values of a kernel, row by row.
LEMMA SumOfNine ==
    ASSUME NEW f, \A d \in Quality!Kernel : f[d] \in Int
    PROVE  Sum(f, Quality!Kernel) =
             f[<<-1, -1>>] + f[<<0, -1>>] + f[<<1, -1>>]
               + f[<<-1, 0>>] + f[<<0, 0>>] + f[<<1, 0>>]
               + f[<<-1, 1>>] + f[<<0, 1>>] + f[<<1, 1>>]
<1> DEFINE K == Quality!Kernel
           K2 == K \ KernelRow(-1)
           K3 == K2 \ KernelRow(0)
<1>1. IsFiniteSet(K)
  BY KernelFinite
<1>2. /\ KernelRow(-1) \subseteq K /\ KernelRow(0) \subseteq K2 /\ KernelRow(1) \subseteq K3
      /\ K3 \ KernelRow(1) = {}
  BY DEF Quality!Kernel, KernelRow
<1>3. \A x, y \in -1..1 : f[<<x, y>>] \in Int
  BY DEF Quality!Kernel
<1> HIDE DEF K, K2, K3
<1>4. \A d \in K : f[d] \in Int
  BY DEF K
<1>5. /\ Sum(f, K) = f[<<-1, -1>>] + f[<<0, -1>>] + f[<<1, -1>>] + Sum(f, K2)
      /\ IsFiniteSet(K2) /\ Sum(f, K2) \in Int
  BY <1>1, <1>2, <1>4, RowIsSummed DEF K2
<1>6. \A d \in K2 : f[d] \in Int
  BY <1>4 DEF K2
<1>7. /\ Sum(f, K2) = f[<<-1, 0>>] + f[<<0, 0>>] + f[<<1, 0>>] + Sum(f, K3)
      /\ IsFiniteSet(K3) /\ Sum(f, K3) \in Int
  BY <1>2, <1>5, <1>6, RowIsSummed DEF K3
<1>8. \A d \in K3 : f[d] \in Int
  BY <1>6 DEF K3
<1>9. Sum(f, K3) = f[<<-1, 1>>] + f[<<0, 1>>] + f[<<1, 1>>] + Sum(f, {})
  <2>1. Sum(f, K3) = f[<<-1, 1>>] + f[<<0, 1>>] + f[<<1, 1>>] + Sum(f, K3 \ KernelRow(1))
    BY <1>2, <1>7, <1>8, RowIsSummed
  <2> QED BY <1>2, <2>1
<1> QED
  BY <1>3, <1>5, <1>7, <1>9, SumEmpty DEF K

\* What two passes along an axis make of a pixel.
LEMMA SmoothConvolves ==
    ASSUME NEW g, Plane(g), g.w >= 3, g.h >= 3
    PROVE  Quality!smooth(g).px = Quality!Convolved(g)
<1> DEFINE P == Quality!Pixels(g)
           left(x) == Quality!Larger(x - 1, 0)
           right(x, n) == Quality!Smaller(x + 1, n - 1)
           along == [c \in P |-> g.px[<<left(c[1]), c[2]>>] + 2 * g.px[c]
                                   + g.px[<<right(c[1], g.w), c[2]>>]]
           down == [c \in P |-> along[<<c[1], left(c[2])>>] + 2 * along[c]
                                  + along[<<c[1], right(c[2], g.h)>>]]
<1>1. Quality!smooth(g).px = down
  <2>1. ~(g.w < 3 \/ g.h < 3)
    BY DEF Plane
  <2> QED BY <2>1 DEF Quality!smooth
<1>2. g.w \in Nat /\ g.h \in Nat /\ g.px \in [P -> Int]
  BY DEF Plane
<1>3. ASSUME NEW c \in P
      PROVE  down[c] = Quality!Convolved(g)[c]
  <2> DEFINE x == c[1]
             y == c[2]
             l == left(x)
             r == right(x, g.w)
             u == left(y)
             d == right(y, g.h)
             f == [e \in Quality!Kernel |-> Quality!Weight(e) * Quality!Near(g, c, e)]
  <2>1. /\ x \in 0..(g.w - 1) /\ y \in 0..(g.h - 1) /\ c = <<x, y>>
    BY DEF Quality!Pixels
  <2>2. /\ l \in 0..(g.w - 1) /\ r \in 0..(g.w - 1) /\ u \in 0..(g.h - 1) /\ d \in 0..(g.h - 1)
    BY <1>2, <2>1 DEF Quality!Larger, Quality!Smaller
  <2>3. /\ Quality!Clamp(x - 1, g.w - 1) = l /\ Quality!Clamp(x, g.w - 1) = x
        /\ Quality!Clamp(x + 1, g.w - 1) = r
        /\ Quality!Clamp(y - 1, g.h - 1) = u /\ Quality!Clamp(y, g.h - 1) = y
        /\ Quality!Clamp(y + 1, g.h - 1) = d
    BY <1>2, <2>1 DEF Quality!Clamp, Quality!Larger, Quality!Smaller
  <2>4. \A i \in {l, x, r}, j \in {u, y, d} : <<i, j>> \in P /\ g.px[<<i, j>>] \in Int
    BY <1>2, <2>1, <2>2 DEF Quality!Pixels
  <2>5. \A j \in {u, y, d} :
           along[<<x, j>>] = g.px[<<l, j>>] + 2 * g.px[<<x, j>>] + g.px[<<r, j>>]
    BY <2>4
  <2>6. down[c] = along[<<x, u>>] + 2 * along[<<x, y>>] + along[<<x, d>>]
    BY <2>1
  <2>7. /\ f[<<-1, -1>>] = g.px[<<l, u>>] /\ f[<<0, -1>>] = 2 * g.px[<<x, u>>]
        /\ f[<<1, -1>>] = g.px[<<r, u>>] /\ f[<<-1, 0>>] = 2 * g.px[<<l, y>>]
        /\ f[<<0, 0>>] = 4 * g.px[<<x, y>>] /\ f[<<1, 0>>] = 2 * g.px[<<r, y>>]
        /\ f[<<-1, 1>>] = g.px[<<l, d>>] /\ f[<<0, 1>>] = 2 * g.px[<<x, d>>]
        /\ f[<<1, 1>>] = g.px[<<r, d>>]
    <3> DEFINE near(i, j) == Quality!Near(g, c, <<i, j>>)
    <3>1. /\ near(-1, -1) = g.px[<<l, u>>] /\ near(0, -1) = g.px[<<x, u>>]
          /\ near(1, -1) = g.px[<<r, u>>] /\ near(-1, 0) = g.px[<<l, y>>]
          /\ near(0, 0) = g.px[<<x, y>>] /\ near(1, 0) = g.px[<<r, y>>]
          /\ near(-1, 1) = g.px[<<l, d>>] /\ near(0, 1) = g.px[<<x, d>>]
          /\ near(1, 1) = g.px[<<r, d>>]
      <4>1. \A i, j \in -1..1 : near(i, j) = g.px[<<Quality!Clamp(x + i, g.w - 1),
                                                    Quality!Clamp(y + j, g.h - 1)>>]
        BY DEF Quality!Near
      <4>2. x + (-1) = x - 1 /\ x + 0 = x /\ y + (-1) = y - 1 /\ y + 0 = y
        BY <2>1
      <4> HIDE DEF near, x, y, l, r, u, d
      <4> QED BY <2>3, <4>1, <4>2
    <3>2. \A i, j \in -1..1 : f[<<i, j>>] = ((2 - i * i) * (2 - j * j)) * near(i, j)
      BY DEF Quality!Weight, Quality!Kernel
    <3> HIDE DEF near, f, x, y, l, r, u, d
    <3> QED BY <2>4, <3>1, <3>2
  <2>8. Quality!Convolved(g)[c] = Sum(f, Quality!Kernel)
    BY DEF Quality!Convolved, Quality!SumFunction, Sum
  <2>9. \A e \in Quality!Kernel : f[e] \in Int
    <3>1. \A i, j \in -1..1 : f[<<i, j>>] \in Int
      <4> HIDE DEF f, x, y, l, r, u, d
      <4>1. \A i, j \in -1..1 : i \in {-1, 0, 1} /\ j \in {-1, 0, 1}
        OBVIOUS
      <4> QED BY <2>4, <2>7, <4>1
    <3> HIDE DEF f
    <3> QED BY <3>1 DEF Quality!Kernel
  <2> HIDE DEF f, x, y, l, r, u, d, along, down
  <2> QED BY <2>4, <2>5, <2>6, <2>7, <2>8, <2>9, SumOfNine
<1>4. Quality!Convolved(g) = [c \in P |-> Quality!Convolved(g)[c]]
  BY DEF Quality!Convolved
<1>5. down = [c \in P |-> down[c]]
  OBVIOUS
<1> HIDE DEF down
<1> QED BY <1>1, <1>3, <1>4, <1>5

-----------------------------------------------------------------------------
(* Scores: pictures that are stored turned.                                *)

LEMMA BoxFinite ==
    ASSUME NEW a \in Int, NEW b \in Int, NEW c \in Int, NEW d \in Int
    PROVE  IsFiniteSet((a..b) \X (c..d))
<1> DEFINE I == a..b
           J == c..d
<1>1. IsFiniteSet(I) /\ IsFiniteSet(J)
  BY FS_Interval
<1> HIDE DEF I, J
<1> QED
  BY <1>1, FS_Product DEF I, J

LEMMA PlaneFinite ==
    ASSUME NEW g, Plane(g)
    PROVE  IsFiniteSet(Quality!Pixels(g)) /\ IsFiniteSet(Quality!Inner(g))
<1> DEFINE w == g.w
           h == g.h
<1>1. w - 1 \in Int /\ h - 1 \in Int /\ w - 2 \in Int /\ h - 2 \in Int /\ 0 \in Int /\ 1 \in Int
  BY DEF Plane
<1> HIDE DEF w, h
<1>2. IsFiniteSet((0..(w - 1)) \X (0..(h - 1)))
  BY <1>1, BoxFinite
<1>3. IsFiniteSet((1..(w - 2)) \X (1..(h - 2)))
  BY <1>1, BoxFinite
<1> QED
  BY <1>2, <1>3 DEF Quality!Pixels, Quality!Inner, w, h

\* What is smoothed is a plane.
LEMMA SmoothIsPlane ==
    ASSUME NEW g, Plane(g)
    PROVE  /\ Plane(Quality!smooth(g))
           /\ Quality!smooth(g).w = g.w /\ Quality!smooth(g).h = g.h
           /\ Quality!Pixels(Quality!smooth(g)) = Quality!Pixels(g)
<1> DEFINE P == Quality!Pixels(g)
           s == Quality!smooth(g)
<1>1. s.w = g.w /\ s.h = g.h
  BY DEF Quality!smooth
<1>2. Quality!Pixels(s) = P
  BY <1>1 DEF Quality!Pixels
<1>3. s.px \in [P -> Int]
  <2>1. CASE g.w >= 3 /\ g.h >= 3
    <3>1. s.px = Quality!Convolved(g)
      BY <2>1, SmoothConvolves
    <3>2. ASSUME NEW c \in P PROVE Quality!Convolved(g)[c] \in Int
      <4> DEFINE f == [e \in Quality!Kernel |-> Quality!Weight(e) * Quality!Near(g, c, e)]
      <4>1. Quality!Convolved(g)[c] = Sum(f, Quality!Kernel)
        BY DEF Quality!Convolved, Quality!SumFunction, Sum
      <4>2. \A e \in Quality!Kernel : f[e] \in Int
        BY NearIsValue
      <4>3. IsFiniteSet(Quality!Kernel)
        BY KernelFinite
      <4> HIDE DEF f
      <4> QED BY <4>1, <4>2, <4>3, SumLaw
    <3>3. Quality!Convolved(g) = [c \in P |-> Quality!Convolved(g)[c]]
      BY DEF Quality!Convolved
    <3> QED BY <3>1, <3>2, <3>3
  <2>2. CASE ~(g.w >= 3 /\ g.h >= 3)
    <3>1. g.w < 3 \/ g.h < 3
      BY <2>2 DEF Plane
    <3>2. s.px = [c \in P |-> 16 * g.px[c]]
      BY <3>1 DEF Quality!smooth
    <3> QED BY <3>2 DEF Plane
  <2> QED BY <2>1, <2>2
<1> QED
  BY <1>1, <1>2, <1>3 DEF Plane

\* Smoothing a turned picture turns the smoothed one.
LEMMA SmoothTurned ==
    ASSUME NEW g, Plane(g), NEW o \in 1..8, NEW t, IsTurned(o, g, t)
    PROVE  IsTurned(o, Quality!smooth(g), Quality!smooth(t))
<1> DEFINE P == Quality!Pixels(g)
           Q == Quality!Pixels(t)
           sg == Quality!smooth(g)
           st == Quality!smooth(t)
<1>1. Plane(t)
  BY FromRenames DEF IsTurned, Plane
<1>2. /\ sg.w = g.w /\ sg.h = g.h /\ st.w = t.w /\ st.h = t.h
      /\ st.px \in [Q -> Int] /\ Quality!Pixels(st) = Q
  BY <1>1, SmoothIsPlane DEF Plane
<1>3. ASSUME NEW c \in Q PROVE st.px[c] = sg.px[From(o, sg, c)]
  <2> DEFINE p == From(o, g, c)
  <2>1. From(o, sg, c) = p
    BY <1>2 DEF From
  <2>2. p \in P
    BY FromRenames DEF IsTurned
  <2>3. t.w >= 3 /\ t.h >= 3 <=> g.w >= 3 /\ g.h >= 3
    BY DEF IsTurned, Wide, High
  <2>4. CASE g.w >= 3 /\ g.h >= 3
    <3> DEFINE f == [e \in Quality!Kernel |-> Quality!Weight(e) * Quality!Near(g, p, e)]
               h == [d \in Quality!Kernel |-> Quality!Weight(d) * Quality!Near(t, c, d)]
               phi == [d \in Quality!Kernel |-> Before(o, d)]
    <3>1. st.px[c] = Sum(h, Quality!Kernel) /\ sg.px[p] = Sum(f, Quality!Kernel)
      <4>1. st.px = Quality!Convolved(t) /\ sg.px = Quality!Convolved(g)
        BY <1>1, <2>3, <2>4, SmoothConvolves
      <4> QED BY <2>2, <4>1 DEF Quality!Convolved, Quality!SumFunction, Sum
    <3>2. \A d \in Quality!Kernel : f[phi[d]] \in Int /\ h[d] = f[phi[d]]
      <4> SUFFICES ASSUME NEW d \in Quality!Kernel PROVE f[phi[d]] \in Int /\ h[d] = f[phi[d]]
        OBVIOUS
      <4>1. phi[d] \in Quality!Kernel /\ Quality!Weight(phi[d]) = Quality!Weight(d)
        BY BeforeRenames
      <4>2. Quality!Near(t, c, d) = Quality!Near(g, p, phi[d])
        BY NearTurned
      <4>3. f[phi[d]] \in Int
        BY <2>2, <4>1, NearIsValue
      <4> HIDE DEF phi, p
      <4> QED BY <4>1, <4>2, <4>3
    <3>3. \A d, e \in Quality!Kernel : d # e => phi[d] # phi[e]
      BY BeforeRenames
    <3>4. {phi[d] : d \in Quality!Kernel} = Quality!Kernel
      <4>1. /\ \A d \in Quality!Kernel : phi[d] \in Quality!Kernel
            /\ \A e \in Quality!Kernel : \E d \in Quality!Kernel : phi[d] = e
        BY BeforeRenames
      <4> HIDE DEF phi
      <4> QED BY <4>1
    <3> HIDE DEF f, h, phi, p
    <3>5. Sum(h, Quality!Kernel) = Sum(f, {phi[d] : d \in Quality!Kernel})
      BY <3>2, <3>3, KernelFinite, SumRenamed
    <3> QED BY <2>1, <3>1, <3>4, <3>5
  <2>5. CASE ~(g.w >= 3 /\ g.h >= 3)
    <3>1. (g.w < 3 \/ g.h < 3) /\ (t.w < 3 \/ t.h < 3)
      BY <1>1, <2>3, <2>5 DEF Plane
    <3>2. st.px[c] = 16 * t.px[c] /\ sg.px[p] = 16 * g.px[p]
      BY <2>2, <3>1 DEF Quality!smooth
    <3> QED BY <2>1, <3>2 DEF IsTurned
  <2> QED BY <2>4, <2>5
<1> QED
  BY <1>2, <1>3 DEF IsTurned

\* The response of the Laplacian at a pixel off the edge.
Steps == {<<0, -1>>, <<0, 1>>, <<-1, 0>>, <<1, 0>>}

\* Off the borders, the response is made of neighbours that are not clamped.
LEMMA ResponseIsNear ==
    ASSUME NEW g, Plane(g), NEW c \in Quality!Inner(g)
    PROVE  /\ c \in Quality!Pixels(g)
           /\ Quality!Response(g)[c] =
                Quality!Near(g, c, <<0, -1>>) + Quality!Near(g, c, <<0, 1>>)
                  + Quality!Near(g, c, <<-1, 0>>) + Quality!Near(g, c, <<1, 0>>) - 4 * g.px[c]
           /\ Quality!Response(g)[c] \in Int
<1> DEFINE x == c[1]
           y == c[2]
           clamp(v, top) == Quality!Clamp(v, top)
<1>1. /\ x \in 1..(g.w - 2) /\ y \in 1..(g.h - 2) /\ c = <<x, y>>
      /\ g.w \in Nat \ {0} /\ g.h \in Nat \ {0}
  BY DEF Quality!Inner, Plane
<1>2. c \in Quality!Pixels(g)
  BY <1>1 DEF Quality!Pixels
<1>3. /\ clamp(x + 0, g.w - 1) = x /\ clamp(x + (-1), g.w - 1) = x - 1
      /\ clamp(x + 1, g.w - 1) = x + 1
      /\ clamp(y + 0, g.h - 1) = y /\ clamp(y + (-1), g.h - 1) = y - 1
      /\ clamp(y + 1, g.h - 1) = y + 1
  BY <1>1 DEF Quality!Clamp, Quality!Larger, Quality!Smaller
<1>4. \A i, j : Quality!Near(g, c, <<i, j>>) = g.px[<<clamp(x + i, g.w - 1), clamp(y + j, g.h - 1)>>]
  BY DEF Quality!Near
<1>5. /\ Quality!Near(g, c, <<0, -1>>) = g.px[<<x, y - 1>>]
      /\ Quality!Near(g, c, <<0, 1>>) = g.px[<<x, y + 1>>]
      /\ Quality!Near(g, c, <<-1, 0>>) = g.px[<<x - 1, y>>]
      /\ Quality!Near(g, c, <<1, 0>>) = g.px[<<x + 1, y>>]
  <2> HIDE DEF x, y
  <2> QED BY <1>3, <1>4
<1>6. Quality!Response(g)[c] = g.px[<<x, y - 1>>] + g.px[<<x, y + 1>>]
                                 + g.px[<<x - 1, y>>] + g.px[<<x + 1, y>>] - 4 * g.px[c]
  BY DEF Quality!Response
<1>7. /\ Quality!Near(g, c, <<0, -1>>) \in Int /\ Quality!Near(g, c, <<0, 1>>) \in Int
      /\ Quality!Near(g, c, <<-1, 0>>) \in Int /\ Quality!Near(g, c, <<1, 0>>) \in Int
  <2>1. \A d \in Quality!Kernel : Quality!Near(g, c, d) \in Int
    BY <1>2, NearIsValue
  <2>2. Steps \subseteq Quality!Kernel
    BY DEF Steps, Quality!Kernel
  <2> QED BY <2>1, <2>2 DEF Steps
<1>8. g.px[c] \in Int
  BY <1>2 DEF Plane
<1> HIDE DEF x, y
<1>9. Quality!Response(g)[c] =
        Quality!Near(g, c, <<0, -1>>) + Quality!Near(g, c, <<0, 1>>)
          + Quality!Near(g, c, <<-1, 0>>) + Quality!Near(g, c, <<1, 0>>) - 4 * g.px[c]
  BY <1>5, <1>6
<1>10. Quality!Response(g)[c] \in Int
  BY <1>7, <1>8, <1>9
<1> QED
  BY <1>2, <1>9, <1>10

\* Turning maps the inside of a picture onto the inside.
LEMMA InnerTurned ==
    ASSUME NEW g, Plane(g), NEW o \in 1..8, NEW t, IsTurned(o, g, t)
    PROVE  {From(o, g, c) : c \in Quality!Inner(t)} = Quality!Inner(g)
<1>1. /\ g.w \in Nat \ {0} /\ g.h \in Nat \ {0} /\ t.w \in Nat \ {0} /\ t.h \in Nat \ {0}
      /\ t.w = Wide(o, g.w, g.h) /\ t.h = High(o, g.w, g.h)
  BY DEF Plane, IsTurned, Wide, High
<1>2. Quality!Inner(t) \subseteq Quality!Pixels(t) /\ Quality!Inner(g) \subseteq Quality!Pixels(g)
  BY <1>1 DEF Quality!Inner, Quality!Pixels
<1>3. \A c \in Quality!Pixels(t) : c \in Quality!Inner(t) <=> From(o, g, c) \in Quality!Inner(g)
  <2> SUFFICES ASSUME NEW c \in Quality!Pixels(t)
               PROVE  c \in Quality!Inner(t) <=> From(o, g, c) \in Quality!Inner(g)
    OBVIOUS
  <2>1. c[1] \in 0..(t.w - 1) /\ c[2] \in 0..(t.h - 1) /\ c = <<c[1], c[2]>>
    BY DEF Quality!Pixels
  <2>2. c \in Quality!Inner(t) <=> c[1] \in 1..(t.w - 2) /\ c[2] \in 1..(t.h - 2)
    BY <2>1 DEF Quality!Inner
  <2> QED BY <1>1, <2>1, <2>2, Eight
          DEF From, Upright!SourceOf, Wide, High, Upright!Rotated, Quality!Inner
<1>4. \A e \in Quality!Pixels(g) : \E c \in Quality!Pixels(t) : From(o, g, c) = e
  <2>1. {From(o, g, c) : c \in Quality!Pixels(t)} = Quality!Pixels(g)
    BY FromRenames DEF IsTurned
  <2> QED BY <2>1
<1> QED
  BY <1>2, <1>3, <1>4

\* Sums, squares and numbers of renamed values.
LEMMA CountRenamed ==
    ASSUME NEW R, IsFiniteSet(R), NEW phi, \A x, y \in R : x # y => phi[x] # phi[y]
    PROVE  Cardinality({phi[x] : x \in R}) = Cardinality(R)
<1> DEFINE S == {phi[x] : x \in R}
           h == [x \in R |-> phi[x]]
<1>1. h \in Surjection(R, S) /\ h \in Injection(R, S)
  BY DEF Surjection, Injection, IsInjective
<1> HIDE DEF h, S
<1>2. Cardinality(S) <= Cardinality(R) /\ (Cardinality(S) = Cardinality(R) <=> h \in Injection(R, S))
  BY <1>1, FS_Surjection
<1> QED
  BY <1>1, <1>2 DEF S

LEMMA ScoreCount == \A S : Quality!Cardinality(S) = Cardinality(S)
BY DEF Quality!Cardinality, Cardinality

\* The variance does not change when what it is of is renamed.
LEMMA SpreadRenamed ==
    ASSUME NEW R, IsFiniteSet(R), NEW S, NEW phi,
           NEW f, DOMAIN f = S, NEW g, DOMAIN g = R,
           \A x \in R : f[phi[x]] \in Int /\ g[x] = f[phi[x]],
           \A x, y \in R : x # y => phi[x] # phi[y],
           {phi[x] : x \in R} = S
    PROVE  /\ Quality!SumFunction(g) = Quality!SumFunction(f)
           /\ Quality!Spread(g) = Quality!Spread(f)
<1> DEFINE f2 == [c \in S |-> f[c] * f[c]]
           g2 == [c \in R |-> g[c] * g[c]]
<1>1. \A x \in R : phi[x] \in S
  OBVIOUS
<1>2. Sum(g, R) = Sum(f, S)
  BY SumRenamed
<1>3. \A x \in R : f2[phi[x]] \in Int /\ g2[x] = f2[phi[x]]
  BY <1>1
<1>4. DOMAIN f2 = S /\ DOMAIN g2 = R
  OBVIOUS
<1> HIDE DEF f2, g2
<1>5. Sum(g2, R) = Sum(f2, S)
  BY <1>3, SumRenamed
<1>6. Cardinality(S) = Cardinality(R)
  BY CountRenamed
<1>7. \A k : Quality!SumFunction(k) = Sum(k, DOMAIN k)
  BY DEF Quality!SumFunction, Sum
<1>8. /\ Quality!Spread(f) = Cardinality(S) * Quality!SumFunction(f2)
                               - Quality!SumFunction(f) * Quality!SumFunction(f)
      /\ Quality!Spread(g) = Cardinality(R) * Quality!SumFunction(g2)
                               - Quality!SumFunction(g) * Quality!SumFunction(g)
  BY ScoreCount DEF Quality!Spread, f2, g2
<1> QED
  BY <1>2, <1>4, <1>5, <1>6, <1>7, <1>8

\* The frame left out, the picture is as sharp from every side.
LEMMA LaplacianTurned ==
    ASSUME NEW g, Plane(g), NEW o \in 1..8, NEW t, IsTurned(o, g, t)
    PROVE  Quality!laplacianVariance(t) = Quality!laplacianVariance(g)
<1> DEFINE R == Quality!Inner(t)
           S == Quality!Inner(g)
           phi == [c \in R |-> From(o, g, c)]
           a == Quality!Response(g)
           b == Quality!Response(t)
<1>1. Plane(t)
  BY FromRenames DEF IsTurned, Plane
<1>2. IsFiniteSet(R)
  BY <1>1, PlaneFinite
<1>3. R \subseteq Quality!Pixels(t)
  BY <1>1, ResponseIsNear
<1>4. {phi[c] : c \in R} = S
  BY InnerTurned
<1>5. \A c, d \in R : c # d => phi[c] # phi[d]
  BY <1>3, FromRenames DEF IsTurned
<1>6. ASSUME NEW c \in R PROVE a[phi[c]] \in Int /\ b[c] = a[phi[c]]
  <2> DEFINE p == From(o, g, c)
  <2>1. p \in S /\ phi[c] = p
    BY <1>4
  <2>2. /\ a[p] \in Int
        /\ a[p] = Quality!Near(g, p, <<0, -1>>) + Quality!Near(g, p, <<0, 1>>)
                    + Quality!Near(g, p, <<-1, 0>>) + Quality!Near(g, p, <<1, 0>>) - 4 * g.px[p]
    BY <2>1, ResponseIsNear
  <2>3. b[c] = Quality!Near(t, c, <<0, -1>>) + Quality!Near(t, c, <<0, 1>>)
                 + Quality!Near(t, c, <<-1, 0>>) + Quality!Near(t, c, <<1, 0>>) - 4 * t.px[c]
    BY <1>1, ResponseIsNear
  <2>4. t.px[c] = g.px[p] /\ g.px[p] \in Int
    BY <1>3, <2>1, ResponseIsNear DEF IsTurned, Plane
  <2>5. Steps \subseteq Quality!Kernel
    BY DEF Steps, Quality!Kernel
  <2>6. \A d \in Steps : Quality!Near(t, c, d) = Quality!Near(g, p, Before(o, d))
    BY <1>3, <2>5, NearTurned
  <2>7. \A d \in Steps : Quality!Near(g, p, d) \in Int
    BY <2>1, <2>5, ResponseIsNear, NearIsValue
  <2>8. Quality!Near(g, p, Before(o, <<0, -1>>)) + Quality!Near(g, p, Before(o, <<0, 1>>))
          + Quality!Near(g, p, Before(o, <<-1, 0>>)) + Quality!Near(g, p, Before(o, <<1, 0>>))
        = Quality!Near(g, p, <<0, -1>>) + Quality!Near(g, p, <<0, 1>>)
            + Quality!Near(g, p, <<-1, 0>>) + Quality!Near(g, p, <<1, 0>>)
    <3>1. /\ Quality!Near(g, p, <<0, -1>>) \in Int /\ Quality!Near(g, p, <<0, 1>>) \in Int
          /\ Quality!Near(g, p, <<-1, 0>>) \in Int /\ Quality!Near(g, p, <<1, 0>>) \in Int
      BY <2>7 DEF Steps
    <3>2. /\ Before(1, <<0, -1>>) = <<0, -1>> /\ Before(1, <<0, 1>>) = <<0, 1>>
          /\ Before(1, <<-1, 0>>) = <<-1, 0>> /\ Before(1, <<1, 0>>) = <<1, 0>>
      BY DEF Before, Upright!SourceOf
    <3> QED BY <3>1, Eight DEF Before, Upright!SourceOf
  <2>9. b[c] = a[p]
    <3> HIDE DEF p, a, b
    <3>1. /\ Quality!Near(t, c, <<0, -1>>) = Quality!Near(g, p, Before(o, <<0, -1>>))
          /\ Quality!Near(t, c, <<0, 1>>) = Quality!Near(g, p, Before(o, <<0, 1>>))
          /\ Quality!Near(t, c, <<-1, 0>>) = Quality!Near(g, p, Before(o, <<-1, 0>>))
          /\ Quality!Near(t, c, <<1, 0>>) = Quality!Near(g, p, Before(o, <<1, 0>>))
      BY <2>6 DEF Steps
    <3> DEFINE n1 == Quality!Near(g, p, Before(o, <<0, -1>>))
               n2 == Quality!Near(g, p, Before(o, <<0, 1>>))
               n3 == Quality!Near(g, p, Before(o, <<-1, 0>>))
               n4 == Quality!Near(g, p, Before(o, <<1, 0>>))
    <3>2. b[c] = n1 + n2 + n3 + n4 - 4 * g.px[p]
      BY <2>3, <2>4, <3>1
    <3>3. n1 \in Int /\ n2 \in Int /\ n3 \in Int /\ n4 \in Int
      <4>1. p \in Quality!Pixels(g)
        BY <2>1, ResponseIsNear
      <4>2. \A d \in Quality!Kernel : Quality!Near(g, p, Before(o, d)) \in Int
        BY <4>1, BeforeRenames, NearIsValue
      <4> QED BY <2>5, <4>2 DEF Steps
    <3>4. a[p] = n1 + n2 + n3 + n4 - 4 * g.px[p]
      <4>1. /\ Quality!Near(g, p, <<0, -1>>) \in Int /\ Quality!Near(g, p, <<0, 1>>) \in Int
            /\ Quality!Near(g, p, <<-1, 0>>) \in Int /\ Quality!Near(g, p, <<1, 0>>) \in Int
        BY <2>7 DEF Steps
      <4>2. n1 + n2 + n3 + n4 = Quality!Near(g, p, <<0, -1>>) + Quality!Near(g, p, <<0, 1>>)
                                  + Quality!Near(g, p, <<-1, 0>>) + Quality!Near(g, p, <<1, 0>>)
        BY <2>8
      <4> HIDE DEF n1, n2, n3, n4
      <4> QED BY <2>2, <2>4, <3>3, <4>1, <4>2
    <3> QED BY <3>2, <3>4
  <2> HIDE DEF p
  <2> QED BY <2>1, <2>2, <2>9
<1>7. DOMAIN a = S /\ DOMAIN b = R
  BY DEF Quality!Response
<1>8. t.w < 3 \/ t.h < 3 <=> g.w < 3 \/ g.h < 3
  BY DEF IsTurned, Wide, High
<1>9. Quality!Spread(b) = Quality!Spread(a)
  <2> HIDE DEF R, S, phi, a, b
  <2> QED BY <1>2, <1>4, <1>5, <1>6, <1>7, SpreadRenamed
<1> QED
  BY <1>8, <1>9 DEF Quality!laplacianVariance

\* The histogram does not know where a pixel is.
LEMMA LuminanceTurned ==
    ASSUME NEW g, Plane(g), NEW o \in 1..8, NEW t, IsTurned(o, g, t)
    PROVE  Quality!luminanceStats(t) = Quality!luminanceStats(g)
<1> DEFINE P == Quality!Pixels(g)
           Q == Quality!Pixels(t)
           phi == [c \in Q |-> From(o, g, c)]
<1>1. Plane(t)
  BY FromRenames DEF IsTurned, Plane
<1>2. {phi[c] : c \in Q} = P
  BY FromRenames DEF IsTurned
<1>3. \A c, d \in Q : c # d => phi[c] # phi[d]
  BY FromRenames DEF IsTurned
<1>4. \A c \in Q : phi[c] \in P /\ g.px[phi[c]] \in Int /\ t.px[c] = g.px[phi[c]]
  <2>1. \A c \in Q : phi[c] \in P /\ t.px[c] = g.px[phi[c]]
    BY <1>2 DEF IsTurned
  <2> QED BY <2>1 DEF Plane
<1>5. IsFiniteSet(Q) /\ DOMAIN g.px = P /\ DOMAIN t.px = Q
  BY <1>1, PlaneFinite DEF Plane
<1>6. t.w * t.h = g.w * g.h
  <2>1. g.w \in Int /\ g.h \in Int
    BY DEF Plane
  <2>2. g.w * g.h = g.h * g.w
    BY <2>1
  <2> QED BY <2>2 DEF IsTurned, Wide, High
<1> HIDE DEF phi
<1>7. /\ Quality!SumFunction(t.px) = Quality!SumFunction(g.px)
      /\ Quality!Spread(t.px) = Quality!Spread(g.px)
  <2> DEFINE a == g.px
             b == t.px
  <2>1. \A c \in Q : a[phi[c]] \in Int /\ b[c] = a[phi[c]]
    BY <1>4
  <2>2. DOMAIN a = P /\ DOMAIN b = Q
    BY <1>5
  <2> HIDE DEF a, b, P, Q
  <2>3. /\ Quality!SumFunction(b) = Quality!SumFunction(a)
        /\ Quality!Spread(b) = Quality!Spread(a)
    BY <1>2, <1>3, <1>5, <2>1, <2>2, SpreadRenamed
  <2> QED BY <2>3 DEF a, b
<1>8. ASSUME NEW V
      PROVE  Cardinality({c \in Q : t.px[c] \in V}) = Cardinality({c \in P : g.px[c] \in V})
  <2> DEFINE R == {c \in Q : t.px[c] \in V}
  <2>1. IsFiniteSet(R)
    BY <1>5, FS_Subset
  <2>2. {phi[c] : c \in R} = {c \in P : g.px[c] \in V}
    BY <1>2, <1>4
  <2>3. \A c, d \in R : c # d => phi[c] # phi[d]
    BY <1>3
  <2> HIDE DEF R
  <2>4. Cardinality({phi[c] : c \in R}) = Cardinality(R)
    BY <2>1, <2>3, CountRenamed
  <2> QED BY <2>2, <2>4 DEF R
<1>9. /\ Cardinality({c \in Q : t.px[c] <= 2}) = Cardinality({c \in P : g.px[c] <= 2})
      /\ Cardinality({c \in Q : t.px[c] >= 253}) = Cardinality({c \in P : g.px[c] >= 253})
  <2> DEFINE dark == {v \in Int : v <= 2}
             bright == {v \in Int : v >= 253}
  <2>1. /\ {c \in Q : t.px[c] <= 2} = {c \in Q : t.px[c] \in dark}
        /\ {c \in P : g.px[c] <= 2} = {c \in P : g.px[c] \in dark}
        /\ {c \in Q : t.px[c] >= 253} = {c \in Q : t.px[c] \in bright}
        /\ {c \in P : g.px[c] >= 253} = {c \in P : g.px[c] \in bright}
    BY <1>1 DEF Plane
  <2>2. /\ Cardinality({c \in Q : t.px[c] \in dark}) = Cardinality({c \in P : g.px[c] \in dark})
        /\ Cardinality({c \in Q : t.px[c] \in bright}) = Cardinality({c \in P : g.px[c] \in bright})
    BY <1>8
  <2> QED BY <2>1, <2>2
<1> QED
  BY <1>6, <1>7, <1>9, ScoreCount DEF Quality!luminanceStats

\* What Orient draws is the picture turned.
LEMMA OrientTurns ==
    ASSUME NEW g, Plane(g), NEW o \in 1..8
    PROVE  IsTurned(o, g, Quality!Turned!Orient(g, o))
<1> DEFINE t == Quality!Turned!Orient(g, o)
           P == Quality!Pixels(g)
           Q == Quality!Pixels(t)
<1>1. t.w = Wide(o, g.w, g.h) /\ t.h = High(o, g.w, g.h)
  BY DEF Quality!Turned!Orient, Quality!Turned!Rotated, Wide, High, Upright!Rotated
<1>2. t.px = [c \in Q |-> g.px[From(o, g, c)]]
  BY <1>1, TurnedSource
     DEF Quality!Turned!Orient, Quality!Turned!Rotated, Quality!Pixels, From
<1> HIDE DEF t
<1>3. \A c \in Q : From(o, g, c) \in P
  BY <1>1, FromRenames
<1>4. \A c \in Q : g.px[From(o, g, c)] \in Int
  BY <1>3 DEF Plane
<1> QED
  BY <1>1, <1>2, <1>4 DEF IsTurned, t

\* Flags are told by the product of the sides, not by which is which.
LEMMA FlagsDepend ==
    ASSUME NEW m, NEW n, m.lum = n.lum, m.inner = n.inner, m.sharp = n.sharp,
           m.width * m.height = n.width * n.height
    PROVE  Quality!flagsFor(m) = Quality!flagsFor(n)
BY DEF Quality!flagsFor, Quality!Blurred

\* A picture that is stored turned is analysed like the upright one.
LEMMA AnalysisTurned ==
    ASSUME NEW width \in Nat \ {0}, NEW height \in Nat \ {0},
           NEW g, Plane(g), NEW o \in 1..8, NEW t, IsTurned(o, g, t),
           NEW w, NEW h, <<w, h>> \in {<<width, height>>, <<height, width>>}
    PROVE  LET a == Quality!Analyze(width, height, g)
               b == Quality!Analyze(w, h, t)
           IN  /\ a.exposure = b.exposure /\ a.flags = b.flags
               /\ a.metrics.lum = b.metrics.lum /\ a.metrics.sharp = b.metrics.sharp
<1> DEFINE a == Quality!Analyze(width, height, g)
           b == Quality!Analyze(w, h, t)
           m == a.metrics
           n == b.metrics
<1>1. /\ m.lum = Quality!luminanceStats(g) /\ n.lum = Quality!luminanceStats(t)
      /\ m.width = width /\ m.height = height /\ n.width = w /\ n.height = h
      /\ m.sharp = Quality!laplacianVariance(Quality!smooth(g))
      /\ n.sharp = Quality!laplacianVariance(Quality!smooth(t))
      /\ m.inner = Quality!Larger(g.w - 2, 0) * Quality!Larger(g.h - 2, 0)
      /\ n.inner = Quality!Larger(t.w - 2, 0) * Quality!Larger(t.h - 2, 0)
  BY DEF Quality!Analyze
<1>2. /\ a.exposure = Quality!scoreExposure(m.lum) /\ a.flags = Quality!flagsFor(m)
      /\ b.exposure = Quality!scoreExposure(n.lum) /\ b.flags = Quality!flagsFor(n)
  BY DEF Quality!Analyze
<1> HIDE DEF a, b
<1>3. m.lum = n.lum
  BY <1>1, LuminanceTurned
<1>4. m.sharp = n.sharp
  <2>1. Plane(Quality!smooth(g))
    BY SmoothIsPlane
  <2>2. IsTurned(o, Quality!smooth(g), Quality!smooth(t))
    BY SmoothTurned
  <2> QED BY <1>1, <2>1, <2>2, LaplacianTurned
<1>5. m.inner = n.inner
  <2>1. \A x, y \in Int : Quality!Larger(x - 2, 0) * Quality!Larger(y - 2, 0)
                            = Quality!Larger(y - 2, 0) * Quality!Larger(x - 2, 0)
    BY DEF Quality!Larger
  <2>2. g.w \in Int /\ g.h \in Int
    BY DEF Plane
  <2> QED BY <1>1, <2>1, <2>2 DEF IsTurned, Wide, High
<1>6. m.width * m.height = n.width * n.height
  <2>1. width * height = height * width
    OBVIOUS
  <2>2. (w = width /\ h = height) \/ (w = height /\ h = width)
    OBVIOUS
  <2> QED BY <1>1, <2>1, <2>2
<1>7. Quality!flagsFor(m) = Quality!flagsFor(n)
  <2> HIDE DEF m, n
  <2> QED BY <1>3, <1>4, <1>5, <1>6, FlagsDepend
<1> QED
  BY <1>2, <1>3, <1>4, <1>7 DEF a, b

\* A copy of k times the size has the same quotients.
LEMMA ScaledQuotient ==
    ASSUME NEW a \in Nat, NEW b \in Nat \ {0}, NEW k \in Nat \ {0}
    PROVE  (k * a) \div (k * b) = a \div b
<1> DEFINE q == a \div b
           r == a % b
           p == (k * a) \div (k * b)
           s == (k * a) % (k * b)
<1>1. q \in Nat /\ r \in 0..(b - 1) /\ a = b * q + r
  BY Division
<1>2. k * a \in Nat /\ k * b \in Nat \ {0}
  OBVIOUS
<1>3. p \in Nat /\ s \in 0..(k * b - 1) /\ k * a = (k * b) * p + s
  <2> DEFINE A == k * a
             B == k * b
  <2>1. A \in Nat /\ B \in Nat \ {0}
    BY <1>2
  <2> HIDE DEF A, B
  <2>2. A \div B \in Nat /\ A = B * (A \div B) + (A % B) /\ A % B \in 0..(B - 1)
    BY <2>1, Division
  <2> QED BY <2>2 DEF A, B
<1> HIDE DEF q, r, p, s
<1>4. k * a = (k * b) * q + k * r
  BY <1>1
<1>5. k * r \in 0..(k * b - 1)
  <2>1. PICK d \in Nat : b = r + 1 + d
    BY <1>1
  <2>2. k * b = k * r + k + k * d /\ k * d >= 0 /\ k * r >= 0
    BY <1>1, <2>1
  <2> QED BY <1>1, <2>2
<1>6. q = p
  <2> DEFINE B == k * b
             R == k * r
  <2>1. B \in Nat \ {0} /\ R \in 0..(B - 1) /\ s \in 0..(B - 1) /\ B * q + R = B * p + s
    BY <1>2, <1>3, <1>4, <1>5
  <2> HIDE DEF B, R
  <2> QED BY <1>1, <1>3, <2>1, DivisionUnique
<1> QED
  BY <1>6 DEF q, p

\* A picture k times the size is measured on the same grid.
LEMMA SameGrid ==
    ASSUME NEW w \in Nat \ {0}, NEW h \in Nat \ {0}, NEW k \in Nat \ {0}
    PROVE  Quality!scaleForAnalysis(k * w, k * h) = Quality!scaleForAnalysis(w, h)
<1> DEFINE n == Quality!analysisSize
<1>1. n \in Nat
  BY DEF Quality!analysisSize
<1> HIDE DEF n
<1>2. k * w >= k * h <=> w >= h
  <2>1. ASSUME w >= h PROVE k * w >= k * h
    <3>1. PICK d \in Nat : w = h + d
      BY <2>1
    <3>2. k * w = k * h + k * d /\ k * d >= 0
      BY <3>1
    <3> QED BY <3>2
  <2>2. ASSUME ~(w >= h) PROVE ~(k * w >= k * h)
    <3>1. PICK d \in Nat : h = w + 1 + d
      BY <2>2
    <3>2. k * h = k * w + k + k * d /\ k * d >= 0
      BY <3>1
    <3> QED BY <3>2
  <2> QED BY <2>1, <2>2
<1>3. (k * h * n) \div (k * w) = (h * n) \div w
  <2>1. h * n \in Nat /\ k * h * n = k * (h * n)
    BY <1>1
  <2> QED BY <2>1, ScaledQuotient
<1>4. (k * w * n) \div (k * h) = (w * n) \div h
  <2>1. w * n \in Nat /\ k * w * n = k * (w * n)
    BY <1>1
  <2> QED BY <2>1, ScaledQuotient
<1> QED
  BY <1>2, <1>3, <1>4 DEF Quality!scaleForAnalysis, n

\* quality.go:206-209, 251-279, 330-356: whatever the plane and the size, a photo that
\* is stored turned or mirrored gets the same metrics and flags, one of k times
\* the size the same grid, and the two passes of the blur are the convolution.
THEOREM ScoresCompare ==
    ASSUME NEW width \in Nat \ {0}, NEW height \in Nat \ {0}, NEW grey, Plane(grey)
    PROVE  Quality!ScoresComparable(width, height, grey)
<1>1. ASSUME NEW o \in 1..8
      PROVE  LET turned == Quality!Turned!Orient(grey, o)
                 a == Quality!Analyze(width, height, grey)
                 b == IF Quality!Turned!Rotated(o) THEN Quality!Analyze(height, width, turned)
                      ELSE Quality!Analyze(width, height, turned)
             IN  /\ a.exposure = b.exposure /\ a.flags = b.flags
                 /\ a.metrics.lum = b.metrics.lum /\ a.metrics.sharp = b.metrics.sharp
  <2> DEFINE turned == Quality!Turned!Orient(grey, o)
  <2>1. IsTurned(o, grey, turned)
    BY OrientTurns
  <2> HIDE DEF turned
  <2>2. CASE Quality!Turned!Rotated(o)
    BY <2>1, <2>2, AnalysisTurned DEF turned
  <2>3. CASE ~Quality!Turned!Rotated(o)
    BY <2>1, <2>3, AnalysisTurned DEF turned
  <2> QED BY <2>2, <2>3
<1>2. \A k \in 2..3 : Quality!scaleForAnalysis(k * width, k * height)
                        = Quality!scaleForAnalysis(width, height)
  BY SameGrid
<1>3. grey.w >= 3 /\ grey.h >= 3 => Quality!smooth(grey).px = Quality!Convolved(grey)
  BY SmoothConvolves
<1> QED
  BY <1>1, <1>2, <1>3 DEF Quality!ScoresComparable

-----------------------------------------------------------------------------
(* Scores: what they say of one plane.                                     *)

\* One value has no variance.
LEMMA SpreadOfConstant ==
    ASSUME NEW f, IsFiniteSet(DOMAIN f), NEW v \in Int, \A c \in DOMAIN f : f[c] = v
    PROVE  Quality!Spread(f) = 0
<1> DEFINE S == DOMAIN f
           f2 == [c \in S |-> f[c] * f[c]]
           n == Cardinality(S)
<1>1. n \in Nat
  BY FS_CardinalityType
<1>2. Sum(f, S) = v * n
  BY SumConstant
<1>3. v * v \in Int /\ \A c \in S : f2[c] = v * v
  OBVIOUS
<1>4. Sum(f2, S) = (v * v) * n
  <2> HIDE DEF f2
  <2> QED BY <1>3, SumConstant
<1>5. Quality!Spread(f) = n * Sum(f2, S) - Sum(f, S) * Sum(f, S)
  BY ScoreCount DEF Quality!Spread, Quality!SumFunction, Sum
<1> HIDE DEF n, f2
<1>6. n * ((v * v) * n) = (v * n) * (v * n) /\ (v * n) * (v * n) \in Int
  BY <1>1
<1> QED
  BY <1>2, <1>4, <1>5, <1>6

\* A plane without detail stays one when it is smoothed, and its Laplacian is zero.
LEMMA FlatIsBlurred ==
    ASSUME NEW g, Plane(g), \A c, d \in Quality!Pixels(g) : g.px[c] = g.px[d]
    PROVE  /\ Quality!laplacianVariance(Quality!smooth(g)) = 0
           /\ Quality!Spread(g.px) = 0
<1> DEFINE P == Quality!Pixels(g)
           s == Quality!smooth(g)
           v == g.px[<<0, 0>>]
<1>1. <<0, 0>> \in P
  BY DEF Quality!Pixels, Plane
<1>2. v \in Int /\ (\A c \in P : g.px[c] = v) /\ DOMAIN g.px = P /\ IsFiniteSet(P)
  BY <1>1, PlaneFinite DEF Plane
<1>3. Quality!Spread(g.px) = 0
  BY <1>2, SpreadOfConstant
<1>4. CASE s.w < 3 \/ s.h < 3
  BY <1>3, <1>4 DEF Quality!laplacianVariance
<1>5. CASE ~(s.w < 3 \/ s.h < 3)
  <2>1. Plane(s) /\ s.w = g.w /\ s.h = g.h /\ Quality!Pixels(s) = P
    BY SmoothIsPlane
  <2>2. g.w >= 3 /\ g.h >= 3
    BY <1>5, <2>1 DEF Plane
  <2>3. ASSUME NEW c \in P PROVE s.px[c] = 16 * v
    <3> DEFINE f == [e \in Quality!Kernel |-> Quality!Weight(e) * Quality!Near(g, c, e)]
    <3>1. s.px[c] = Sum(f, Quality!Kernel)
      BY <2>2, SmoothConvolves DEF Quality!Convolved, Quality!SumFunction, Sum
    <3>2. \A e \in Quality!Kernel : Quality!Near(g, c, e) = v
      BY <1>2, NearIsPixel
    <3>3. \A i, j \in -1..1 : f[<<i, j>>] = ((2 - i * i) * (2 - j * j)) * v
      BY <3>2 DEF Quality!Weight, Quality!Kernel
    <3> HIDE DEF f, v
    <3>4. /\ f[<<-1, -1>>] = v /\ f[<<0, -1>>] = 2 * v /\ f[<<1, -1>>] = v
          /\ f[<<-1, 0>>] = 2 * v /\ f[<<0, 0>>] = 4 * v /\ f[<<1, 0>>] = 2 * v
          /\ f[<<-1, 1>>] = v /\ f[<<0, 1>>] = 2 * v /\ f[<<1, 1>>] = v
      BY <1>2, <3>3
    <3>5. \A e \in Quality!Kernel : f[e] \in Int
      <4>1. \A i, j \in -1..1 : f[<<i, j>>] \in Int
        <5>1. \A i, j \in -1..1 : i \in {-1, 0, 1} /\ j \in {-1, 0, 1}
          OBVIOUS
        <5> QED BY <1>2, <3>4, <5>1
      <4> QED BY <4>1 DEF Quality!Kernel
    <3> QED BY <1>2, <3>1, <3>4, <3>5, SumOfNine
  <2>4. ASSUME NEW c \in Quality!Inner(s) PROVE Quality!Response(s)[c] = 0
    <3>1. c \in P
      BY <2>1, ResponseIsNear
    <3>2. \A d \in Steps : Quality!Near(s, c, d) = 16 * v
      <4>1. Steps \subseteq Quality!Kernel
        BY DEF Steps, Quality!Kernel
      <4> QED BY <2>1, <2>3, <3>1, <4>1, NearIsPixel
    <3> DEFINE u == 16 * v
    <3>3. /\ Quality!Near(s, c, <<0, -1>>) = u /\ Quality!Near(s, c, <<0, 1>>) = u
          /\ Quality!Near(s, c, <<-1, 0>>) = u /\ Quality!Near(s, c, <<1, 0>>) = u
          /\ s.px[c] = u /\ u \in Int
      BY <1>2, <2>3, <3>1, <3>2 DEF Steps
    <3>4. Quality!Response(s)[c] =
            Quality!Near(s, c, <<0, -1>>) + Quality!Near(s, c, <<0, 1>>)
              + Quality!Near(s, c, <<-1, 0>>) + Quality!Near(s, c, <<1, 0>>) - 4 * s.px[c]
      BY <2>1, ResponseIsNear
    <3> HIDE DEF u, s, v
    <3> QED BY <3>3, <3>4
  <2>5. DOMAIN Quality!Response(s) = Quality!Inner(s) /\ IsFiniteSet(Quality!Inner(s))
    BY <2>1, PlaneFinite DEF Quality!Response
  <2>6. Quality!Spread(Quality!Response(s)) = 0
    <3> DEFINE a == Quality!Response(s)
    <3>1. IsFiniteSet(DOMAIN a) /\ \A c \in DOMAIN a : a[c] = 0
      BY <2>4, <2>5
    <3> HIDE DEF a
    <3>2. Quality!Spread(a) = 0
      BY <3>1, SpreadOfConstant
    <3> QED BY <3>2 DEF a
  <2> QED BY <1>3, <1>5, <2>6 DEF Quality!laplacianVariance
<1> QED
  BY <1>3, <1>4, <1>5 

\* Of how many pixels what sum, and how many of them at either end.
Lum(l) == l.n \in Nat \ {0} /\ l.sum \in Int /\ l.shadow \in Nat /\ l.highlight \in Nat

LEMMA LuminanceTypes ==
    ASSUME NEW g, Plane(g)
    PROVE  /\ Lum(Quality!luminanceStats(g))
           /\ Quality!luminanceStats(g).spread = Quality!Spread(g.px)
<1> DEFINE P == Quality!Pixels(g)
           dark == {c \in P : g.px[c] <= 2}
           bright == {c \in P : g.px[c] >= 253}
           l == Quality!luminanceStats(g)
<1>1. IsFiniteSet(P)
  BY PlaneFinite
<1>2. Cardinality(dark) \in Nat /\ Cardinality(bright) \in Nat
  <2>1. IsFiniteSet(dark) /\ IsFiniteSet(bright)
    BY <1>1, FS_Subset
  <2> HIDE DEF dark, bright
  <2> QED BY <2>1, FS_CardinalityType
<1>3. Quality!SumFunction(g.px) \in Int
  <2> DEFINE f == g.px
  <2>1. DOMAIN f = P /\ \A c \in P : f[c] \in Int
    BY DEF Plane
  <2> HIDE DEF f
  <2>2. Sum(f, P) \in Int
    BY <1>1, <2>1, SumLaw
  <2> QED BY <2>1, <2>2 DEF Quality!SumFunction, Sum, f
<1>4. g.w * g.h \in Nat \ {0}
  BY DEF Plane
<1>5. /\ l.n = g.w * g.h /\ l.sum = Quality!SumFunction(g.px)
      /\ l.shadow = Cardinality(dark) /\ l.highlight = Cardinality(bright)
      /\ l.spread = Quality!Spread(g.px)
  BY ScoreCount DEF Quality!luminanceStats
<1> HIDE DEF l
<1>6. Lum(l)
  BY <1>2, <1>3, <1>4, <1>5 DEF Lum
<1> QED
  BY <1>5, <1>6 DEF l

\* The score of the exposure is whole when nothing is taken off.
LEMMA ExposureScore ==
    ASSUME NEW l, Lum(l)
    PROVE  /\ Quality!scoreExposure(l) \in 0..Quality!ExposureUnit(l.n)
           /\ Quality!scoreExposure(l) = Quality!ExposureUnit(l.n) <=>
                /\ ~(l.sum < 46 * l.n) /\ ~(l.sum > 190 * l.n)
                /\ l.shadow = 0 /\ l.highlight = 0
<1> DEFINE n == l.n
           top == Quality!ExposureUnit(n)
           off == IF l.sum < 46 * n THEN 130 * (46 * n - l.sum)
                  ELSE IF l.sum > 190 * n THEN 92 * (l.sum - 190 * n) ELSE 0
           clipped == 2990 * (l.shadow + l.highlight)
<1>1. n \in Nat \ {0} /\ l.sum \in Int /\ l.shadow \in Nat /\ l.highlight \in Nat
  BY DEF Lum
<1>2. top = 5980 * n
  BY <1>1 DEF Quality!ExposureUnit, Quality!DarkLuminance, Quality!BrightLuminance
<1>3. Quality!scoreExposure(l) = Quality!Clamp(top - off - clipped, top)
  BY <1>1 DEF Quality!scoreExposure, Quality!DarkLuminance, Quality!BrightLuminance
<1>4. /\ off \in Nat /\ clipped \in Nat
      /\ off = 0 <=> ~(l.sum < 46 * n) /\ ~(l.sum > 190 * n)
      /\ clipped = 0 <=> l.shadow = 0 /\ l.highlight = 0
  BY <1>1
<1>5. top \in Nat \ {0}
  BY <1>1, <1>2
<1> HIDE DEF top, off, clipped
<1>6. Quality!Clamp(top - off - clipped, top) \in 0..top
  BY <1>4, <1>5 DEF Quality!Clamp, Quality!Larger, Quality!Smaller
<1>7. Quality!Clamp(top - off - clipped, top) = top <=> off = 0 /\ clipped = 0
  BY <1>4, <1>5 DEF Quality!Clamp, Quality!Larger, Quality!Smaller
<1> QED
  BY <1>3, <1>4, <1>6, <1>7 DEF top

\* What each flag says.
LEMMA FlagsSay ==
    ASSUME NEW m
    PROVE  /\ "possibly_blurry" \in Quality!flagsFor(m) <=> Quality!Blurred(m)
           /\ "possibly_underexposed" \in Quality!flagsFor(m) <=> m.lum.sum < 46 * m.lum.n
           /\ "possibly_overexposed" \in Quality!flagsFor(m) <=> m.lum.sum > 190 * m.lum.n
           /\ "possibly_low_contrast" \in Quality!flagsFor(m)
                <=> 100 * m.lum.spread < 4096 * m.lum.n * m.lum.n
BY DEF Quality!flagsFor, Quality!DarkLuminance, Quality!BrightLuminance

\* quality.go:526-549, 615-643: whatever the plane and the size, no photo is called too
\* dark and too bright; the exposure score keeps its range and is whole exactly when
\* nothing is said against it; and a plane without detail is called blurred and flat.
THEOREM FlagsAndScores ==
    ASSUME NEW width \in Nat \ {0}, NEW height \in Nat \ {0}, NEW grey, Plane(grey)
    PROVE  Quality!FlagsAgree(width, height, grey)
<1> DEFINE a == Quality!Analyze(width, height, grey)
           m == a.metrics
           l == m.lum
<1>1. /\ l = Quality!luminanceStats(grey)
      /\ m.sharp = Quality!laplacianVariance(Quality!smooth(grey))
      /\ a.exposure = Quality!scoreExposure(l) /\ a.flags = Quality!flagsFor(m)
  BY DEF Quality!Analyze
<1> HIDE DEF a
<1>2. Lum(l) /\ l.spread = Quality!Spread(grey.px)
  BY <1>1, LuminanceTypes
<1>3. l.n \in Nat \ {0} /\ l.sum \in Int
  BY <1>2 DEF Lum
<1>4. /\ "possibly_blurry" \in a.flags <=> Quality!Blurred(m)
      /\ "possibly_underexposed" \in a.flags <=> l.sum < 46 * l.n
      /\ "possibly_overexposed" \in a.flags <=> l.sum > 190 * l.n
      /\ "possibly_low_contrast" \in a.flags <=> 100 * l.spread < 4096 * l.n * l.n
  BY <1>1, FlagsSay
<1> DEFINE dark == "possibly_underexposed" \in a.flags
           bright == "possibly_overexposed" \in a.flags
<1>5. ~({"possibly_underexposed", "possibly_overexposed"} \subseteq a.flags)
  <2>1. ~(l.sum < 46 * l.n /\ l.sum > 190 * l.n)
    BY <1>3
  <2> QED BY <1>4, <2>1
<1>6. a.flags \cap {"possibly_underexposed", "possibly_overexposed"} = {} <=> ~dark /\ ~bright
  OBVIOUS
<1>7. /\ a.exposure \in 0..Quality!ExposureUnit(l.n)
      /\ a.exposure = Quality!ExposureUnit(l.n) <=>
           /\ ~(l.sum < 46 * l.n) /\ ~(l.sum > 190 * l.n)
           /\ l.shadow = 0 /\ l.highlight = 0
  BY <1>1, <1>2, ExposureScore
<1>8. ASSUME \A c, d \in Quality!Pixels(grey) : grey.px[c] = grey.px[d]
      PROVE  m.sharp = 0 /\ {"possibly_blurry", "possibly_low_contrast"} \subseteq a.flags
  <2>1. m.sharp = 0 /\ l.spread = 0
    BY <1>1, <1>2, <1>8, FlatIsBlurred
  <2>2. Quality!Blurred(m)
    BY <2>1 DEF Quality!Blurred
  <2>3. 4096 * l.n * l.n > 0
    <3> DEFINE n == l.n
    <3> HIDE DEF n
    <3>1. n \in Nat \ {0}
      BY <1>3 DEF n
    <3>2. PICK k \in Nat : n = k + 1
      BY <3>1
    <3>3. n * n = k * k + 2 * k + 1 /\ k * k >= 0
      BY <3>2
    <3>4. 4096 * n * n = 4096 * (n * n)
      BY <3>1
    <3>5. 4096 * n * n > 0
      BY <3>1, <3>2, <3>3, <3>4
    <3> QED BY <3>5 DEF n
  <2>4. 100 * l.spread < 4096 * l.n * l.n
    BY <2>1, <2>3
  <2> QED BY <1>4, <2>1, <2>2, <2>4
<1>9. a.exposure = Quality!ExposureUnit(l.n) <=>
        /\ a.flags \cap {"possibly_underexposed", "possibly_overexposed"} = {}
        /\ l.shadow = 0 /\ l.highlight = 0
  BY <1>4, <1>6, <1>7
<1> HIDE DEF m, dark, bright
<1> QED
  BY <1>5, <1>7, <1>8, <1>9 DEF Quality!FlagsAgree, a, m

=============================================================================
