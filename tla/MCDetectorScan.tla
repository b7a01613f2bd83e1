--------------------------- MODULE MCDetectorScan ---------------------------
(* DetectorScan for TLC: a scheduled and a manual scan. *)
EXTENDS DetectorScan, TLC

CONSTANTS k1, k2, job, manual

AllFamilies == {"reviews", "stored", "tax"}
Reviews == {"reviews"}
OneManual == {manual}
=============================================================================
