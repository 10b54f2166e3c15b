------------------------------ MODULE MCDerived -----------------------------
(***************************************************************************)
(* What is derived from a scanned library, part by part in one run: the     *)
(* parts share no state, so a behaviour is that of one of them, and the     *)
(* others rest in one initial state.  The pure parts read one input, from a *)
(* small set, and stop.                                                     *)
(***************************************************************************)
EXTENDS LibraryPass, GroupRebuild, ThumbnailFile, Sequences

Similar == INSTANCE SimilarGrouping
Event   == INSTANCE EventClustering
Listing == INSTANCE PhotoListing
Upright == INSTANCE ImageUpright
Quality == INSTANCE QualityScore

VARIABLES part,    \* the part this behaviour is of
          input    \* of a pure part: nothing yet, or the one input

vars == <<part, input, passVars, groupVars, thumbVars>>

-----------------------------------------------------------------------------
(* The inputs.                                                             *)

\* Four photos with hashes on a line, neighbours one bit apart; the last may be a
\* copy of the first.  Or three with one hash, ranked by scores and the rest.
SimilarInputs ==
    {[photos |-> [k \in 1..4 |-> [sha |-> IF k \in copies THEN "same" ELSE Similar!NoSha,
                                  hash |-> h[k], score |-> Similar!Unscored, worth |-> k]],
      threshold |-> 1] : h \in [1..4 -> {1..n : n \in 0..3}], copies \in {{}, {1, 4}}}
    \cup
    {[photos |-> [k \in 1..3 |-> [sha |-> Similar!NoSha, hash |-> {},
                                  score |-> f[k][1], worth |-> f[k][2]]],
      threshold |-> -1] : f \in [1..3 -> {Similar!Unscored, 50, 52, 54} \X (0..2)]}

\* Three photos around a gap of 2 and a radius of 1; those without a place were
\* dated by the file system.
EventInputs ==
    {[points |-> [k \in 1..3 |-> [at |-> f[k][1], place |-> f[k][2],
                     source |-> IF f[k][2] = Event!NoFix THEN "filesystem" ELSE "exif"]],
      options |-> [gap |-> 2, radius |-> 1]] :
        f \in [1..3 -> {Event!Undated, 0, 2, 3} \X {Event!NoFix, 0, 1, 3}]}

\* Three rows in the order of a nullable column, a page of one or two rows.
ListingInputs ==
    {[rows |-> [k \in 1..3 |-> [key |-> f[k][1], captured |-> f[k][1], fix |-> f[k][2],
                                grouped |-> f[k][1] = 1]],
      query |-> [gps |-> gps, duplicates |-> "any", from |-> from, to |-> Listing!Null,
                 descending |-> down, limit |-> limit, offset |-> 0]] :
        f \in [1..3 -> {Listing!Null, 1, 2} \X {{}, {"latitude"}, {"latitude", "longitude"}}],
        gps \in {"any", "no"}, from \in {Listing!Null, 1}, down \in BOOLEAN, limit \in {1, 2}}

\* Sizes around a bound of 2 with every kind of orientation; or one size with
\* every kind of date and position.
PictureInputs ==
    {[file |-> [w |-> w, h |-> h, exif |-> e, orientation |-> o,
                dates |-> <<"missing", "missing", "missing">>,
                lat |-> Upright!NoTag, lon |-> Upright!NoTag], mtime |-> TRUE] :
        w \in {1, 2, 5}, h \in {1, 2, 5}, e \in {"absent", "damaged", "readable"},
        o \in 0..9}
    \cup
    {[file |-> [w |-> 3, h |-> 2, exif |-> e, orientation |-> 0, dates |-> d,
                lat |-> lat, lon |-> lon], mtime |-> m] :
        e \in {"absent", "damaged", "readable"}, d \in [1..3 -> {"missing", "old", "time"}],
        lat \in {0, 91, Upright!NoTag}, lon \in {0, 5, Upright!NoTag}, m \in BOOLEAN}

\* Planes of 4 by 3 on which at most two pixels differ from the others.
Spotted(spots, tone) ==
    [w |-> 4, h |-> 3, px |-> [c \in (0..3) \X (0..2) |-> IF c \in spots THEN tone[1] ELSE tone[2]]]

Spots == {{c, d} : c, d \in (0..3) \X (0..2)} \cup {{}}

QualityInputs ==
    {Spotted(spots, tone) : spots \in Spots, tone \in {<<0, 255>>, <<100, 0>>, <<90, 110>>}}

Inputs == [similar |-> SimilarInputs, events |-> EventInputs,
           listing |-> ListingInputs, picture |-> PictureInputs,
           quality |-> QualityInputs]

-----------------------------------------------------------------------------
Init ==
    /\ part \in {"pass", "rebuild", "thumbnail"} \cup DOMAIN Inputs
    /\ input = {}
    /\ PassInit /\ (part # "pass" => broken = {})
    /\ GroupInit /\ (part # "rebuild" => feature = "similar" /\ value = NothingLoaded)
    /\ ThumbInit /\ (part # "thumbnail" => source = "image")

Read ==
    /\ part \in DOMAIN Inputs /\ input = {}
    /\ \E i \in Inputs[part] : input' = {i}
    /\ UNCHANGED <<part, passVars, groupVars, thumbVars>>

Next ==
    \/ part = "pass"      /\ PassNext  /\ UNCHANGED <<part, input, groupVars, thumbVars>>
    \/ part = "rebuild"   /\ GroupNext /\ UNCHANGED <<part, input, passVars, thumbVars>>
    \/ part = "thumbnail" /\ ThumbNext /\ UNCHANGED <<part, input, passVars, groupVars>>
    \/ Read

Spec == Init /\ [][Next]_vars /\ PassFairness

-----------------------------------------------------------------------------
(* Type invariant of the three parts with state.                           *)
DerivedTypeOK == PassTypeOK /\ GroupTypeOK /\ ThumbTypeOK

\* similar.go: the groups are the connected components over distinct files, a
\* chained group is marked, and nobody is ranked behind a photo it beats.
SimilarGroupsExact ==
    part = "similar" => \A i \in input :
        /\ Similar!GroupsAreComponents(i.photos, i.threshold)
        /\ Similar!ChainsAreMarked(i.photos, i.threshold)
        /\ Similar!RankedPairwise(i.photos, i.threshold)

\* clustering.go: every dated photo is in one event, in order; an event is
\* bounded in space and in silence, and ends only where one of the two ends it.
EventsExact ==
    part = "events" => \A i \in input :
        /\ Event!EventsPartition(i.points, i.options)
        /\ Event!EventsBounded(i.points, i.options)

\* photoview.go: pages show every photo that matches once; a filter and its
\* opposite split the library; what is not measured comes last.
PagesExact ==
    part = "listing" => \A i \in input :
        /\ Listing!PagesPartition(i.rows, i.query)
        /\ Listing!PresenceSplits(i.rows, i.query)

\* metadata.go, thumbnail.go: pictures are shown upright, with the shape the row
\* gives them, and dates and places are those of the camera or marked as not.
PicturesUpright ==
    part = "picture" => \A i \in input :
        /\ Upright!OrientUpright(i.file.w, i.file.h)
        /\ Upright!ThumbnailAgrees(i.file, 2)
        /\ Upright!CaptureTrusted(i.file, i.mtime)

\* quality.go: a photo and a turned, mirrored or enlarged copy of it are measured
\* alike, and scores and flags tell one story.
ScoresFair ==
    part = "quality" => \A i \in input :
        /\ Quality!ScoresComparable(40, 31, i)
        /\ Quality!FlagsAgree(40, 31, i)
=============================================================================
