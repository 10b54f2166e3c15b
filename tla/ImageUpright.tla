---------------------------- MODULE ImageUpright ----------------------------
(***************************************************************************)
(* What Extract (internal/metadata) reads of a file and what Render         *)
(* (internal/thumbnail) draws of it.  A file is [w, h, exif, orientation,   *)
(* dates, lat, lon]: the stored size, whether the EXIF block is absent,      *)
(* damaged or readable, the raw orientation (0: no tag), the state of the    *)
(* three date tags in the order of preference, and the position in whole     *)
(* degrees, each half of it possibly NoTag.                                  *)
(***************************************************************************)
EXTENDS Integers, Sequences, FiniteSets, FiniteSetsExt

NoTag == 1000
NoTime == 0

Readable(f) == f.exif = "readable"

readOrientation(f) ==
    IF Readable(f) /\ f.orientation \in 1..8 THEN f.orientation ELSE 0

Rotated(orientation) == orientation \in 5..8

\* The dimensions a viewer would display.
applyOrientation(f) ==
    IF Rotated(readOrientation(f)) THEN [w |-> f.h, h |-> f.w] ELSE [w |-> f.w, h |-> f.h]

\* A date tag is missing, empty, garbled, older than 1900, or a time.
readCaptureTime(f) ==
    LET usable == {k \in DOMAIN f.dates : Readable(f) /\ f.dates[k] = "time"}
    IN  IF usable = {} THEN NoTime ELSE Min(usable)

\* The tag it was taken from, the file's time, or nothing.
CapturedAt(f, modTime) ==
    IF readCaptureTime(f) # NoTime THEN [source |-> "exif", tag |-> readCaptureTime(f)]
    ELSE IF modTime THEN [source |-> "filesystem", tag |-> 0]
    ELSE [source |-> "none", tag |-> 0]

\* Both halves, in range, and not the place a receiver without a fix reports.
readLocation(f) ==
    IF /\ Readable(f) /\ f.lat # NoTag /\ f.lon # NoTag
       /\ f.lat \in -90..90 /\ f.lon \in -180..180
       /\ ~(f.lat = 0 /\ f.lon = 0)
    THEN <<f.lat, f.lon>> ELSE <<>>

\* What the row's reader takes for a fix (store LoadClusteringPoints).
Located(f) == readLocation(f) # <<>>

-----------------------------------------------------------------------------
(* Rendering.                                                              *)

AtLeastOne(n) == IF n < 1 THEN 1 ELSE n

\* The long edge is brought down to maxEdge, never up.
Scaled(w, h, maxEdge) ==
    IF w <= maxEdge /\ h <= maxEdge THEN [w |-> w, h |-> h]
    ELSE IF w >= h THEN [w |-> maxEdge, h |-> AtLeastOne((h * maxEdge) \div w)]
    ELSE [w |-> AtLeastOne((w * maxEdge) \div h), h |-> maxEdge]

\* mutant: the two quarter turns are swapped
SourceOf_Swapped(o, W, H, x, y) ==
    CASE o = 2 -> <<W - 1 - x, y>>
      [] o = 3 -> <<W - 1 - x, H - 1 - y>>
      [] o = 4 -> <<x, H - 1 - y>>
      [] o = 5 -> <<y, x>>
      [] o = 6 -> <<W - 1 - y, x>>
      [] o = 7 -> <<W - 1 - y, H - 1 - x>>
      [] o = 8 -> <<y, H - 1 - x>>
      [] OTHER -> <<x, y>>

\* The source coordinate that the pixel (x, y) of the result is read from.
SourceOf(o, W, H, x, y) ==
    CASE o = 2 -> <<W - 1 - x, y>>
      [] o = 3 -> <<W - 1 - x, H - 1 - y>>
      [] o = 4 -> <<x, H - 1 - y>>
      [] o = 5 -> <<y, x>>
      [] o = 6 -> <<y, H - 1 - x>>
      [] o = 7 -> <<W - 1 - y, H - 1 - x>>
      [] o = 8 -> <<W - 1 - y, x>>
      [] OTHER -> <<x, y>>

\* An image is [w, h, px], px a function of 0-based coordinates.
Orient(image, o) ==
    LET w == IF Rotated(o) THEN image.h ELSE image.w
        h == IF Rotated(o) THEN image.w ELSE image.h
    IN  [w |-> w, h |-> h,
         px |-> [c \in (0..(w - 1)) \X (0..(h - 1)) |->
                    image.px[SourceOf(o, image.w, image.h, c[1], c[2])]]]

\* FromReader: the orientation is read from the file again, not from the row.
ThumbnailSize(f, maxEdge) ==
    LET s == Scaled(f.w, f.h, maxEdge)
    IN  IF Rotated(readOrientation(f)) THEN [w |-> s.h, h |-> s.w] ELSE s

-----------------------------------------------------------------------------
(* References, and what is to hold of every file.                          *)

\* EXIF 2.3, 4.6.4: the sides of the picture on which the stored row 0 and the
\* stored column 0 are seen.
Sides == <<<<"top", "left">>, <<"top", "right">>, <<"bottom", "right">>, <<"bottom", "left">>,
           <<"left", "top">>, <<"right", "top">>, <<"right", "bottom">>, <<"left", "bottom">>>>

OnSide(side, image, c) ==
    CASE side = "top" -> c[2] = 0
      [] side = "bottom" -> c[2] = image.h - 1
      [] side = "left" -> c[1] = 0
      [] side = "right" -> c[1] = image.w - 1

\* thumbnail.go:131-152: for each orientation, the result shows every stored pixel
\* once, row 0 and column 0 on the sides the standard names.
OrientUpright(W, H) ==
    LET stored == [w |-> W, h |-> H, px |-> [c \in (0..(W - 1)) \X (0..(H - 1)) |-> c]]
    IN  \A o \in 1..8 :
          LET shown == Orient(stored, o)
          IN  /\ {shown.px[c] : c \in DOMAIN shown.px} = DOMAIN stored.px
              /\ \A c \in DOMAIN shown.px :
                    /\ shown.px[c][2] = 0 <=> OnSide(Sides[o][1], shown, c)
                    /\ shown.px[c][1] = 0 <=> OnSide(Sides[o][2], shown, c)

\* metadata.go:167-175, thumbnail.go:59-63: the stored dimensions and the
\* thumbnail's, from two readings of the file by two stages that do not wait
\* for each other, agree on which way up the picture is; the thumbnail is
\* no larger than the original or the bound, keeps its shape and never vanishes.
ThumbnailAgrees(f, maxEdge) ==
    LET row == applyOrientation(f)
        t == ThumbnailSize(f, maxEdge)
    IN  /\ t.w \in 1..maxEdge /\ t.h \in 1..maxEdge
        /\ t.w <= row.w /\ t.h <= row.h
        /\ row.w <= maxEdge /\ row.h <= maxEdge => t = row
        /\ (row.w >= row.h => t.w >= t.h) /\ (row.h >= row.w => t.h >= t.w)

\* metadata.go:156-165, 176-192, 233-278: a capture time is the camera's if any tag is
\* usable, from the most preferred one that is, and is marked with where it came
\* from; a damaged block changes nothing but its own facts; and a position
\* is never half, out of range or the empty one.
CaptureTrusted(f, modTime) ==
    LET at == CapturedAt(f, modTime)
    IN  /\ at.source = "exif" <=> \E k \in DOMAIN f.dates : Readable(f) /\ f.dates[k] = "time"
        /\ at.source = "exif" => \A k \in DOMAIN f.dates : f.dates[k] = "time" => at.tag <= k
        /\ at.source = "none" <=> ~modTime /\ readCaptureTime(f) = NoTime
        /\ Located(f) => /\ f.lat * f.lat <= 8100 /\ f.lon * f.lon <= 32400
                         /\ f.lat # 0 \/ f.lon # 0
=============================================================================
