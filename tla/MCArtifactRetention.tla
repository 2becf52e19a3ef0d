------------------------ MODULE MCArtifactRetention ------------------------
(***************************************************************************)
(* Instances of ArtifactRetention for TLC: a recording sent in either of   *)
(* two formats, or two recordings a day apart in one, and deployments with *)
(* a bucket configured or not, which keep recordings for one day or two.   *)
(***************************************************************************)
EXTENDS ArtifactRetention, TLC

CONSTANTS a, b

DayApart == [j \in Jobs |-> IF j = a THEN 0 ELSE 1]

EveryKey == Keys

Bucket      == [storage |-> TRUE, retention |-> 1]
NoBucket    == [storage |-> FALSE, retention |-> 1]
Longer      == [storage |-> TRUE, retention |-> 2]
EitherStore == {Bucket, NoBucket}
AnySettings == {Bucket, NoBucket, Longer}
=============================================================================
