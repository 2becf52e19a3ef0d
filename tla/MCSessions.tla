----------------------------- MODULE MCSessions -----------------------------
(***************************************************************************)
(* An instance of Sessions for TLC: the second grill starts a day after    *)
(* the first.                                                              *)
(***************************************************************************)
EXTENDS Artifacts, Integers

CONSTANTS Retention, MaxReports
VARIABLES object, off, points, reports, faults

S == INSTANCE Sessions

ASSUME WindowsAssumption == S!SessionsAssumption

MCStartedAt == [j \in Jobs |-> j - 1]

SessionsSpec == S!Spec
FairSessions == S!FairSpec

\* See Sessions: a session's window is its run's own, and what has ended, and its
\* fork points, are gone in the end.
WindowKept == S!WindowKept
ReclaimedEventually == S!ReclaimedEventually
PointsForgotten == S!PointsForgotten
=============================================================================
