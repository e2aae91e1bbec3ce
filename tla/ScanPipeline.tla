---------------------------- MODULE ScanPipeline ----------------------------
(***************************************************************************)
(* What a scan of a few camera frames comes to                             *)
(* (backend/app/cv_pipeline: CVPipeline.process_scan_frames with the       *)
(* detector, the quality gate and the liveness check it calls).            *)
(*                                                                         *)
(* A frame is its shape, the mean level of its pixels and the faces the    *)
(* detector's model reports; a face is who it is, its confidence in        *)
(* percent, its area, and the sharpness and brightness of the aligned      *)
(* crop.  Levels are in steps of 1 / Scale of a grey level, and two frames *)
(* of one shape differ by the difference of their levels: every sequence   *)
(* of mean differences is that of some levels, and a mean over the bytes   *)
(* of a frame is a multiple of a step when Scale is their number.          *)
(***************************************************************************)
EXTENDS Integers, Sequences, FiniteSets, FiniteSetsExt

CONSTANT Scale
ASSUME ScaleAssumption == Scale \in Nat \ {0}

ScanConfidence == 80          \* SCAN_CONFIDENCE_THRESHOLD, in percent

\* An upload: a frame's level is a number of steps and the model reports finitely
\* many faces, each with its confidence and its area.
IsUpload(frames) ==
  /\ frames \in Seq({frames[i] : i \in DOMAIN frames})
  /\ \A i \in DOMAIN frames :
       /\ frames[i].level \in Nat /\ IsFiniteSet(frames[i].faces)
       /\ \A d \in frames[i].faces : d.conf \in Nat /\ d.area \in Nat

\* Frames that do not decode are dropped before anything else looks at them.
Decoded(frames) ==
  LET kept[n \in 0..Len(frames)] ==
        IF n = 0 THEN <<>>
        ELSE IF frames[n].readable THEN Append(kept[n - 1], frames[n])
                                   ELSE kept[n - 1]
  IN kept[Len(frames)]

\* FaceDetector.detect: the confident faces, the dominant one first.
Confident(frame) == {d \in frame.faces : d.conf >= ScanConfidence}
Prominence(d) == d.conf * d.area
DominantFace(frame) ==
  CHOOSE d \in Confident(frame) :
    \A c \in Confident(frame) : Prominence(c) <= Prominence(d)

\* assess_quality.  Crops are aligned to 112 x 112 pixels, so its third
\* threshold, an area above 400, holds of every face.
QualityPassed(d) == d.sharp > 40 /\ 30 < d.light /\ d.light < 220

UsableFaces(frames) ==
  {DominantFace(frames[i]) : i \in {j \in DOMAIN frames :
                                      Confident(frames[j]) # {}}}
GoodFaces(frames) == {d \in UsableFaces(frames) : QualityPassed(d)}

-----------------------------------------------------------------------------
(* LivenessChecker.check *)

Abs(n) == IF n < 0 THEN -n ELSE n

\* Only neighbours of one shape are compared.
Compared(frames) ==
  {i \in 2..Len(frames) : frames[i - 1].shape = frames[i].shape}
Diff(frames, i) == Abs(frames[i].level - frames[i - 1].level)
Diffs(frames) == {Diff(frames, i) : i \in Compared(frames)}

\* The largest value not above the cap, 0 when there is nothing to compare.
Capped(S, cap) == IF S = {} THEN 0 ELSE Min({Max(S), cap})

BlinkDetected(frames) == \E d \in Diffs(frames) : d > 5 * Scale

\* In steps: at most one grey level.
HeadPoseVariation(frames) == Capped(Diffs(frames), Scale)

\* texture_score is the mean difference over 50 levels, at most 1: the numerator of
\* it over the denominator 50 * Scale * n.
Pairs(frames) == Max({1, Cardinality(Compared(frames))})
TextureDenominator(frames) == 50 * Scale * Pairs(frames)
TextureNumerator(frames) ==
  Min({MapThenSumSet(LAMBDA i : Diff(frames, i), Compared(frames)),
       TextureDenominator(frames)})

\* The weighted sum of the three signals, in percent of TextureDenominator.
Signals(frames) ==
  15 * TextureDenominator(frames) * (IF BlinkDetected(frames) THEN 1 ELSE 0)
    + 25 * 50 * Pairs(frames) * HeadPoseVariation(frames)
    + 15 * TextureNumerator(frames)

\* score >= 0.65.  Without the anti-spoofing model its weight of 0.15 is spread
\* over the others, which multiplies each by 0.70 / 0.55 = 14 / 11.
FusionPasses(frames, model) ==
  LET unit == TextureDenominator(frames) IN
  IF model
    THEN 10 * Signals(frames) + 105 * unit + 300 * unit >= 650 * unit
    ELSE 14 * Signals(frames) + 330 * unit >= 715 * unit

StillFramesBug(frames, model) == Len(frames) >= 2
LivenessPassed(frames, model) == Len(frames) >= 2 /\ FusionPasses(frames, model)

-----------------------------------------------------------------------------
(* process_scan_frames *)

\* The people whose embeddings are averaged into the probe: none if the scan is
\* refused.
ProbeOf(frames, model) ==
  LET good == GoodFaces(Decoded(frames)) IN
  IF good # {} /\ LivenessPassed(Decoded(frames), model)
    THEN {d.who : d \in good}
    ELSE {}

-----------------------------------------------------------------------------
(* What the sum of signals means *)

\* Without the model a scan passes exactly if two neighbouring frames differ by
\* more than 5 levels.  With it, it passes if two differ by one level, and only if
\* two differ by 245 / 253 of a level: in between, the texture decides.
ReferenceLiveness(frames, model) ==
  \E d \in Diffs(frames) : IF model THEN 253 * d >= 245 * Scale ELSE d > 5 * Scale
EnoughMovement(frames, model) ==
  \E d \in Diffs(frames) : IF model THEN d >= Scale ELSE d > 5 * Scale

=============================================================================
