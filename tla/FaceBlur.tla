------------------------------ MODULE FaceBlur ------------------------------
(***************************************************************************)
(* Blurring the faces of one photo: src/ai-engine/app/services/image_ops   *)
(* and face_blur.  Geometry is exact, in pixels; what a blur leaves of a   *)
(* region is an input, since it depends on the pixels: the Laplacian       *)
(* energy of each region before the blur and after each escalation, in     *)
(* tenths.                                                                 *)
(***************************************************************************)
EXTENDS Integers, Sequences, SequencesExt

CONSTANTS
    Width, Height,   \* of the photo
    MaxEscalations   \* max_blur_escalations

ASSUME PhotoAssumption ==
    /\ Width \in Nat \ {0} /\ Height \in Nat \ {0}
    /\ MaxEscalations \in Nat

\* The thresholds of core/config.py: energies in tenths, fractions in hundredths.
MaxResidualDetail == 30
FlatRegionEnergy  == 40
MaxHighfreqRatio  == 45
FaceMargin        == 35
IouThreshold      == 35

Lesser(a, b)    == IF a < b THEN a ELSE b
Greatest(a, b) == IF a > b THEN a ELSE b

-----------------------------------------------------------------------------
(* decode_image: every check in its order; a file that fails one is        *)
(* rejected, whatever the later ones would say.                            *)

Decodes(file, limits) ==
    /\ file.bytes > 0 /\ file.bytes <= limits.bytes
    /\ file.sniffed \in limits.formats
    /\ file.format = file.sniffed   \* the header agrees with the magic bytes
    /\ file.width > 0 /\ file.height > 0
    /\ file.width * file.height <= limits.pixels
    /\ Greatest(file.width, file.height) <= limits.dimension
    /\ file.intact

-----------------------------------------------------------------------------
(* Detections. *)

\* A detector's box may reach over the edge; only its corner is clamped
\* before it is cut off at the far edge.
Clamped(box) ==
    LET x == Greatest(0, box.x)
        y == Greatest(0, box.y)
    IN  [x |-> x, y |-> y, w |-> Lesser(Lesser(Width, box.w), Width - x),
         h |-> Lesser(Lesser(Height, box.h), Height - y)]

Area(b) == b.w * b.h

Intersection(a, b) ==
    LET w == Lesser(a.x + a.w, b.x + b.w) - Greatest(a.x, b.x)
        h == Lesser(a.y + a.h, b.y + b.h) - Greatest(a.y, b.y)
    IN  Greatest(0, w) * Greatest(0, h)

\* Mutant: the overlap is compared with the smaller box, so that a face beside
\* a large one counts as seen.
DistinctBySmaller(a, b) ==
    100 * Intersection(a, b) < IouThreshold * Lesser(Area(a), Area(b))

\* IoU below the threshold: two faces, not one seen twice.
Distinct(a, b) ==
    100 * Intersection(a, b)
        < IouThreshold * (Area(a) + Area(b) - Intersection(a, b))

\* Largest first, each box unless it is a kept one seen again.
MergeOverlapping(boxes) ==
    LET Keep(kept, b) ==
            IF \A i \in DOMAIN kept : Distinct(b, kept[i]) THEN Append(kept, b) ELSE kept
    IN  FoldLeft(Keep, <<>>, SortSeq(boxes, LAMBDA a, b : Area(a) > Area(b)))

\* Both models' detections, less slivers.
Detect(found) ==
    LET clamped == [i \in DOMAIN found |-> Clamped(found[i])]
    IN  MergeOverlapping(SelectSeq(clamped, LAMBDA b : b.w > 1 /\ b.h > 1))

-----------------------------------------------------------------------------
(* The blurred area. *)

Expand(b) ==
    LET dx == (b.w * FaceMargin) \div 100
        dy == (b.h * FaceMargin) \div 100
    IN  [x1 |-> Greatest(0, b.x - dx), y1 |-> Greatest(0, b.y - dy),
         x2 |-> Lesser(Width, b.x + b.w + dx), y2 |-> Lesser(Height, b.y + b.h + dy)]

\* The ellipse inscribed in an expanded box.
InEllipse(px, py, r) ==
    LET cx == (r.x1 + r.x2) \div 2
        cy == (r.y1 + r.y2) \div 2
        ax == Greatest(1, (r.x2 - r.x1) \div 2)
        ay == Greatest(1, (r.y2 - r.y1) \div 2)
    IN  (px - cx) * (px - cx) * ay * ay + (py - cy) * (py - cy) * ax * ax
            <= ax * ax * ay * ay

Blurred(px, py, boxes) == \E i \in DOMAIN boxes : InEllipse(px, py, Expand(boxes[i]))

-----------------------------------------------------------------------------
(* Verification: before[r] and after[e][r] are the energies of region r.   *)

RegionVerified(before, after) ==
    /\ after <= MaxResidualDetail
    /\ ~(before > FlatRegionEnergy /\ 100 * after > MaxHighfreqRatio * before)

\* Mutant: the last region's measurement overwrites the verdict.
VerifiedLast(before, after) ==
    before # <<>> => RegionVerified(before[Len(before)], after[Len(before)])

Verified(before, after) == \A r \in DOMAIN before : RegionVerified(before[r], after[r])

\* The first escalation that verifies everywhere is published; if there is
\* none the photo is refused, and a photo without faces goes to a human.
BlurFaces(before, after) ==
    LET verifying == {e \in 0..MaxEscalations : Verified(before, after[e])}
    IN  IF before = <<>>
        THEN [outcome |-> "no_faces_detected", escalations |-> 0]
        ELSE IF verifying = {}
        THEN [outcome |-> "verification_failed", escalations |-> MaxEscalations + 1]
        ELSE [outcome |-> "blurred_verified",
              escalations |-> CHOOSE e \in verifying : \A f \in verifying : e <= f]

IsPublishable(report) == report.outcome = "blurred_verified"

\* The synchronous endpoint: no bytes unless the blur verified.
BlurEndpoint(file, limits, before, after) ==
    LET report == BlurFaces(before, after)
    IN  IF ~Decodes(file, limits) THEN [code |-> 400, next |-> "none"]
        ELSE IF IsPublishable(report) THEN [code |-> 200, next |-> "publish"]
        ELSE [code |-> 409,
              next |-> IF report.outcome = "no_faces_detected"
                       THEN "route_to_human_review" ELSE "reject_asset"]
=============================================================================
