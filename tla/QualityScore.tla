---------------------------- MODULE QualityScore ----------------------------
(***************************************************************************)
(* Analyze (internal/quality) after the resampling: what it measures of a   *)
(* luminance plane, in integers.  An image is [w, h, px], px a function of  *)
(* 0-based coordinates into 0..255.  Sharpness and contrast are roots of a  *)
(* variance; roots keep order, so the variances stand for them.  Variances  *)
(* are per n * n, where n counts the values, and smoothing multiplies       *)
(* luminance by 16.                                                        *)
(***************************************************************************)
EXTENDS Integers, Sequences, FiniteSets, Functions

analysisSize == 512
DarkLuminance == 46
BrightLuminance == 190
MinPixels == 640 * 480

Larger(a, b) == IF a > b THEN a ELSE b
Smaller(a, b) == IF a < b THEN a ELSE b
Clamp(v, top) == Larger(0, Smaller(v, top))

Pixels(g) == (0..(g.w - 1)) \X (0..(g.h - 1))

\* The grid an image is measured on: its long edge is brought to one size.
scaleForAnalysis(w, h) ==
    IF w >= h THEN <<analysisSize, Larger(1, (h * analysisSize) \div w)>>
    ELSE <<Larger(1, (w * analysisSize) \div h), analysisSize>>

\* mutant: the second pass runs along the rows again
smooth_RowsTwice(g) ==
    LET along(f) == [c \in Pixels(g) |->
                       f[<<Larger(c[1] - 1, 0), c[2]>>] + 2 * f[c]
                         + f[<<Smaller(c[1] + 1, g.w - 1), c[2]>>]]
    IN  IF g.w < 3 \/ g.h < 3
        THEN [w |-> g.w, h |-> g.h, px |-> [c \in Pixels(g) |-> 16 * g.px[c]]]
        ELSE [w |-> g.w, h |-> g.h, px |-> along(along(g.px))]

\* 1-2-1 along the rows, then along the columns, edges clamped.
smooth(g) ==
    LET along == [c \in Pixels(g) |->
                    g.px[<<Larger(c[1] - 1, 0), c[2]>>] + 2 * g.px[c]
                      + g.px[<<Smaller(c[1] + 1, g.w - 1), c[2]>>]]
        down  == [c \in Pixels(g) |->
                    along[<<c[1], Larger(c[2] - 1, 0)>>] + 2 * along[c]
                      + along[<<c[1], Smaller(c[2] + 1, g.h - 1)>>]]
    IN  IF g.w < 3 \/ g.h < 3
        THEN [w |-> g.w, h |-> g.h, px |-> [c \in Pixels(g) |-> 16 * g.px[c]]]
        ELSE [w |-> g.w, h |-> g.h, px |-> down]

\* n * n times the variance of the values of f, n their number.
Spread(f) ==
    LET sum == SumFunction(f)
    IN  Cardinality(DOMAIN f) * SumFunction([c \in DOMAIN f |-> f[c] * f[c]]) - sum * sum

\* Borders are skipped.
Inner(g) == (1..(g.w - 2)) \X (1..(g.h - 2))

Response(g) ==
    [c \in Inner(g) |-> g.px[<<c[1], c[2] - 1>>] + g.px[<<c[1], c[2] + 1>>]
                          + g.px[<<c[1] - 1, c[2]>>] + g.px[<<c[1] + 1, c[2]>>] - 4 * g.px[c]]

laplacianVariance(g) == IF g.w < 3 \/ g.h < 3 THEN 0 ELSE Spread(Response(g))

luminanceStats(g) ==
    [n |-> g.w * g.h, sum |-> SumFunction(g.px), spread |-> Spread(g.px),
     shadow |-> Cardinality({c \in Pixels(g) : g.px[c] <= 2}),
     highlight |-> Cardinality({c \in Pixels(g) : g.px[c] >= 253})]

\* Both ranges of luminance have a common multiple of 46 * 65; scores are in
\* parts of ExposureUnit(n).
ExposureUnit(n) == 2 * DarkLuminance * (255 - BrightLuminance) * n

scoreExposure(l) ==
    LET top == ExposureUnit(l.n)
        off == IF l.sum < DarkLuminance * l.n
               THEN 2 * (255 - BrightLuminance) * (DarkLuminance * l.n - l.sum)
               ELSE IF l.sum > BrightLuminance * l.n
               THEN 2 * DarkLuminance * (l.sum - BrightLuminance * l.n) ELSE 0
        clipped == DarkLuminance * (255 - BrightLuminance) * (l.shadow + l.highlight)
    IN  Clamp(top - off - clipped, top)

\* Sharpness < 0.12, where 1 is a variance of 310: below 0.12 ^ 2 * 310 = 558 / 125,
\* per n * n and 16 * 16.  Contrast < 0.10, where 1 is a deviation of 64.
Blurred(m) ==
    m.sharp = 0 \/ m.sharp <= (558 * 256 * m.inner * m.inner - 1) \div 125

flagsFor(m) ==
    LET l == m.lum
    IN  {f \in {"possibly_blurry", "possibly_underexposed", "possibly_overexposed",
                "possibly_low_contrast", "low_resolution", "shadows_clipped",
                "highlights_clipped"} :
           CASE f = "possibly_blurry"       -> Blurred(m)
             [] f = "possibly_underexposed" -> l.sum < DarkLuminance * l.n
             [] f = "possibly_overexposed"  -> l.sum > BrightLuminance * l.n
             [] f = "possibly_low_contrast" -> 100 * l.spread < 4096 * l.n * l.n
             [] f = "low_resolution"        -> m.width * m.height < MinPixels
             [] f = "shadows_clipped"       -> 20 * l.shadow > l.n
             [] f = "highlights_clipped"    -> 20 * l.highlight > l.n}

\* grey is the luminance plane of a stored image of that width and height.
Analyze(width, height, grey) ==
    LET lum == luminanceStats(grey)
        m == [width |-> width, height |-> height, lum |-> lum,
              inner |-> Larger(grey.w - 2, 0) * Larger(grey.h - 2, 0),
              sharp |-> laplacianVariance(smooth(grey))]
    IN  [metrics |-> m, exposure |-> scoreExposure(lum), flags |-> flagsFor(m)]

-----------------------------------------------------------------------------
(* References, and what is to hold of every image.                         *)

Turned == INSTANCE ImageUpright

\* The 3 x 3 convolution that the two passes stand for.
Kernel == (-1..1) \X (-1..1)

Weight(d) == (2 - d[1] * d[1]) * (2 - d[2] * d[2])

Near(g, c, d) == g.px[<<Clamp(c[1] + d[1], g.w - 1), Clamp(c[2] + d[2], g.h - 1)>>]

Convolved(g) ==
    [c \in Pixels(g) |-> SumFunction([d \in Kernel |-> Weight(d) * Near(g, c, d)])]

\* quality.go:206-209, 251-279, 330-356: scores are comparable across a library.  A
\* photo and the copy of it that a tool stored turned or mirrored - the image
\* is analysed as it is stored - get the same metrics and flags; a copy of k
\* times the size is measured on the same grid; and the two passes of the blur
\* are the convolution they stand for, at the edges too.
ScoresComparable(width, height, grey) ==
    /\ \A o \in 1..8 :
         LET turned == Turned!Orient(grey, o)
             a == Analyze(width, height, grey)
             b == IF Turned!Rotated(o) THEN Analyze(height, width, turned)
                  ELSE Analyze(width, height, turned)
         IN  /\ a.exposure = b.exposure /\ a.flags = b.flags
             /\ a.metrics.lum = b.metrics.lum /\ a.metrics.sharp = b.metrics.sharp
    /\ \A k \in 2..3 : scaleForAnalysis(k * width, k * height) = scaleForAnalysis(width, height)
    /\ grey.w >= 3 /\ grey.h >= 3 => smooth(grey).px = Convolved(grey)

\* quality.go:526-549, 615-643: flags and scores tell one story.  An image is not
\* called both too dark and too bright; the exposure score is whole exactly
\* when neither is said and nothing is clipped, and never leaves its range; and
\* an image without detail is called blurred and flat, its frame adding none.
FlagsAgree(width, height, grey) ==
    LET a == Analyze(width, height, grey)
        l == a.metrics.lum
    IN  /\ ~({"possibly_underexposed", "possibly_overexposed"} \subseteq a.flags)
        /\ a.exposure \in 0..ExposureUnit(l.n)
        /\ a.exposure = ExposureUnit(l.n) <=>
             /\ a.flags \cap {"possibly_underexposed", "possibly_overexposed"} = {}
             /\ l.shadow = 0 /\ l.highlight = 0
        /\ (\A c, d \in Pixels(grey) : grey.px[c] = grey.px[d]) =>
             /\ a.metrics.sharp = 0
             /\ {"possibly_blurry", "possibly_low_contrast"} \subseteq a.flags
=============================================================================
