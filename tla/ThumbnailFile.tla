---------------------------- MODULE ThumbnailFile ---------------------------
(***************************************************************************)
(* One photo's thumbnail: the file ThumbnailOne renders and WriteAtomic     *)
(* stores, the columns SetPhotoThumbnail and MarkThumbnailFailed write, and *)
(* handleGetThumbnail, which reads the row and then opens the file.  Several*)
(* attempts at the job may run at once after a lease lapsed; processes die  *)
(* between any two steps, and so may the machine that holds the volume.     *)
(***************************************************************************)
EXTENDS Integers

CONSTANTS Attempt,     \* goroutines that may render the photo at one time
          MaxRenames   \* bound: how often the file is replaced

ASSUME ThumbnailAssumption == MaxRenames \in Nat

VARIABLES
    source,     \* what is at the photo's path
    try,        \* try[a]: where an attempt is, and the number of its rename
    temp,       \* temp[a]: the file it writes beside the target
    target,     \* the directory entry a reader opens
    settled,    \* what of it is known to outlast a loss of power
    renames,    \* how often the target was replaced
    dims,       \* the row: thumbnail_width and thumbnail_height are set
    tagged,     \* the row: the rename of the attempt that wrote it
    viewer,     \* a GET between its two steps: the row it read, or 0
    sent,       \* the file the last GET sent, and what the row had told it
    outage      \* history: the volume's machine lost power

thumbVars == <<source, try, temp, target, settled, renames, dims, tagged,
               viewer, sent, outage>>

NoFile == [bytes |-> "none", nr |-> 0]
Resting == [pc |-> "idle", nr |-> 0]

ThumbInit ==
    /\ source \in {"image", "garbage"}
    /\ try = [a \in Attempt |-> Resting]
    /\ temp = [a \in Attempt |-> "none"]
    /\ target = NoFile /\ settled = NoFile /\ renames = 0
    /\ dims = FALSE /\ tagged = 0
    /\ viewer = 0 /\ sent = [file |-> NoFile, tag |-> 0]
    /\ outage = FALSE

Goes(a, to) == try' = [try EXCEPT ![a].pc = to]

-----------------------------------------------------------------------------
(* ThumbnailOne and WriteAtomic.                                           *)

\* os.Open, then decode: what is not there and what is no image is recorded as
\* failed, an image is rendered.
Render(a) ==
    /\ try[a].pc = "idle"
    /\ Goes(a, IF source = "image" THEN "rendered" ELSE "hopeless")
    /\ UNCHANGED <<source, temp, target, settled, renames, dims, tagged, viewer, sent, outage>>

\* MarkThumbnailFailed leaves the row without dimensions.
MarkFailed(a) ==
    /\ try[a].pc = "hopeless"
    /\ dims' = FALSE /\ tagged' = 0
    /\ try' = [try EXCEPT ![a] = Resting]
    /\ UNCHANGED <<source, temp, target, settled, renames, viewer, sent, outage>>

CreateTemp(a) ==
    /\ try[a].pc = "rendered"
    /\ temp' = [temp EXCEPT ![a] = "part"]
    /\ Goes(a, "writing")
    /\ UNCHANGED <<source, target, settled, renames, dims, tagged, viewer, sent, outage>>

\* Encode and Flush: all bytes are written, in the kernel's memory so far.
Flush(a) ==
    /\ try[a].pc = "writing"
    /\ temp' = [temp EXCEPT ![a] = "unsynced"]
    /\ Goes(a, "flushed")
    /\ UNCHANGED <<source, target, settled, renames, dims, tagged, viewer, sent, outage>>

\* mutant: the file is renamed without being synced
Sync_Skipped(a) ==
    /\ try[a].pc = "flushed"
    /\ Goes(a, "synced")
    /\ UNCHANGED <<source, temp, target, settled, renames, dims, tagged, viewer, sent, outage>>

Sync(a) ==
    /\ try[a].pc = "flushed"
    /\ temp' = [temp EXCEPT ![a] = "whole"]
    /\ Goes(a, "synced")
    /\ UNCHANGED <<source, target, settled, renames, dims, tagged, viewer, sent, outage>>

Rename(a) ==
    /\ try[a].pc = "synced" /\ renames < MaxRenames
    /\ renames' = renames + 1
    /\ target' = [bytes |-> temp[a], nr |-> renames + 1]
    /\ temp' = [temp EXCEPT ![a] = "none"]
    /\ try' = [try EXCEPT ![a] = [pc |-> "renamed", nr |-> renames + 1]]
    /\ UNCHANGED <<source, settled, dims, tagged, viewer, sent, outage>>

\* mutant: the row is written before the rename
Record_Early(a) ==
    /\ try[a].pc = "synced" /\ renames < MaxRenames
    /\ dims' = TRUE /\ tagged' = renames + 1
    /\ UNCHANGED <<source, try, temp, target, settled, renames, viewer, sent, outage>>

\* SetPhotoThumbnail.
Record(a) ==
    /\ try[a].pc = "renamed"
    /\ dims' = TRUE /\ tagged' = try[a].nr
    /\ try' = [try EXCEPT ![a] = Resting]
    /\ UNCHANGED <<source, temp, target, settled, renames, viewer, sent, outage>>

\* An error on the way, or the process dies: the temp file is removed by the
\* deferred call, or stays as litter no one opens.
Abandon(a) ==
    /\ try[a].pc # "idle"
    /\ try' = [try EXCEPT ![a] = Resting]
    /\ temp' = [temp EXCEPT ![a] = "none"]
    /\ UNCHANGED <<source, target, settled, renames, dims, tagged, viewer, sent, outage>>

-----------------------------------------------------------------------------
(* The photo's file, and the machine under the volume.                      *)

Replace(s) ==
    /\ s # source /\ source' = s
    /\ UNCHANGED <<try, temp, target, settled, renames, dims, tagged, viewer, sent, outage>>

\* The file system gets round to the directory.
Settle ==
    /\ settled # target /\ settled' = target
    /\ UNCHANGED <<source, try, temp, target, renames, dims, tagged, viewer, sent, outage>>

\* A rename may be undone, and what was not synced is gone.
LosePower ==
    /\ \E entry \in {target, settled} :
         target' = IF entry.bytes = "unsynced" THEN [entry EXCEPT !.bytes = "part"] ELSE entry
    /\ settled' = target'
    /\ try' = [a \in Attempt |-> Resting]
    /\ temp' = [a \in Attempt |-> "none"]
    /\ viewer' = 0 /\ outage' = TRUE
    /\ UNCHANGED <<source, renames, dims, tagged, sent>>

-----------------------------------------------------------------------------
(* handleGetThumbnail.                                                     *)

\* GetThumbnailGeneratedAt: no dimensions, no thumbnail.
LookUp ==
    /\ viewer = 0 /\ dims
    /\ viewer' = tagged
    /\ UNCHANGED <<source, try, temp, target, settled, renames, dims, tagged, sent, outage>>

\* The file is opened and sent under the tag of the row; none is a 404.
Send ==
    /\ viewer # 0
    /\ sent' = IF target = NoFile THEN sent ELSE [file |-> target, tag |-> viewer]
    /\ viewer' = 0
    /\ UNCHANGED <<source, try, temp, target, settled, renames, dims, tagged, outage>>

ThumbNext ==
    \/ \E a \in Attempt :
         \/ Render(a) \/ MarkFailed(a) \/ CreateTemp(a) \/ Flush(a) \/ Sync(a)
         \/ Rename(a) \/ Record(a) \/ Abandon(a)
    \/ \E s \in {"image", "garbage", "gone"} : Replace(s)
    \/ Settle \/ LosePower \/ LookUp \/ Send

ThumbSpec == ThumbInit /\ [][ThumbNext]_thumbVars

-----------------------------------------------------------------------------
(* Properties.                                                             *)

ThumbFile == [bytes : {"none", "part", "unsynced", "whole"}, nr : 0..MaxRenames]

ThumbTypeOK ==
    /\ source \in {"image", "garbage", "gone"}
    /\ try \in [Attempt -> [pc : {"idle", "hopeless", "rendered", "writing", "flushed",
                                  "synced", "renamed"}, nr : 0..MaxRenames]]
    /\ temp \in [Attempt -> {"none", "part", "unsynced", "whole"}]
    /\ target \in ThumbFile /\ settled \in ThumbFile
    /\ renames \in 0..MaxRenames /\ tagged \in 0..MaxRenames /\ viewer \in 0..MaxRenames
    /\ sent \in [file : ThumbFile, tag : 0..MaxRenames]
    /\ dims \in BOOLEAN /\ outage \in BOOLEAN

\* thumbnail.go:233-242, 273-275: whatever dies in the middle of writing, the
\* machine included, no reader is ever sent a truncated or empty thumbnail, and
\* a file that a loss of power left truncated is never in its place.
SentWhole == /\ sent.file.bytes \in {"none", "whole"}
             /\ target.bytes \in {"none", "whole"}

\* thumbnails.go:72-79, media.go:107-110: what is sent under a row's tag is the
\* file of the attempt that wrote the row, or a later one, never an earlier one
\* or none - unless the rename itself was lost with the power.
TagNeverAhead ==
    ~outage => /\ dims => target.nr >= tagged
               /\ target.nr >= viewer
               /\ sent.file.nr >= sent.tag
=============================================================================
