------------------------------- MODULE FsdBridge -------------------------------
(***************************************************************************)
(* ChcnavFsdBridge: turns PVT messages into poses of a local frame whose   *)
(* origin is configured, or is the position of the first message with      *)
(* GNSS status 4.  Until then every message is its own origin.             *)
(*                                                                         *)
(* A position is one number.  The projection's radii depend on the         *)
(* latitude of the origin only: a pose records the origin they were        *)
(* computed for.  Attitude, velocity and covariances are left out.         *)
(***************************************************************************)
EXTENDS Integers, Sequences

CONSTANTS
    Stamps,         \* header stamps
    Positions,      \* latitude, longitude and altitude
    Statuses,       \* GNSS statuses (stat[1])
    Origins,        \* how origin_lat, origin_lon, origin_alt may be set
    None,           \* one of them is NaN
    MinGnssStatus,  \* min_gnss_status
    MaxPvts         \* bound: messages received

ASSUME NumbersAssumption == Positions \subseteq Int /\ Statuses \subseteq Nat
ASSUME OriginAssumption == Origins \subseteq Int \cup {None} /\ None \notin Int
ASSUME GateAssumption == MinGnssStatus \in Int
ASSUME BoundAssumption == MaxPvts \in Nat

VARIABLES
    configured,     \* origin_lat_param_, origin_lon_param_, origin_alt_param_
    origin,         \* origin_lat_, origin_lon_, origin_alt_
    originReady,    \* origin_ready_
    radiiAt,        \* the origin for which rn_, rm_, cos_lat0_ were computed
    poses,          \* history: the odometry published, in order
    counters        \* the recorder's counters

frame == <<origin, originReady, radiiAt>>
vars == <<configured, frame, poses, counters>>

\* finite, stdevs: the checks of the values and of the standard deviations pass.
Pvts ==
    [stamp : Stamps, status : Statuses, position : Positions, finite : BOOLEAN, stdevs : BOOLEAN]

Metrics == {"PVT_RECEIVED", "GNSS_REJECTED", "NONFINITE_REJECTED", "STDEV_REJECTED",
            "ODOMETRY_PUBLISHED", "VELOCITY_PUBLISHED"}

Count(S) == counters' = [m \in Metrics |-> IF m \in S THEN counters[m] + 1 ELSE counters[m]]

-----------------------------------------------------------------------------
(* onDevpvt, one action per way it ends *)

GnssReject(m) ==
    /\ m.status < MinGnssStatus
    /\ Count({"PVT_RECEIVED", "GNSS_REJECTED"})
    /\ UNCHANGED <<frame, poses>>

NonfiniteReject(m) ==
    /\ m.status >= MinGnssStatus
    /\ ~m.finite
    /\ Count({"PVT_RECEIVED", "NONFINITE_REJECTED"})
    /\ UNCHANGED <<frame, poses>>

StdevReject(m) ==
    /\ m.status >= MinGnssStatus
    /\ m.finite
    /\ ~m.stdevs
    /\ Count({"PVT_RECEIVED", "STDEV_REJECTED"})
    /\ UNCHANGED <<frame, poses>>

\* (Faulty: stored in single precision.)
FixOriginRounded(m) ==
    /\ origin' = IF configured # None THEN configured ELSE 2 * (m.position \div 2)
    /\ originReady' = (configured # None \/ m.status = 4)
    /\ radiiAt' = origin'
\* (Faulty: every message stays its own origin.)
FixOriginTemporary(m) ==
    /\ origin' = m.position
    /\ originReady' = FALSE
    /\ radiiAt' = origin'
\* (Faulty: the radii are computed once, for the first origin.)
FixOriginStaleRadii(m) ==
    /\ origin' = IF configured # None THEN configured ELSE m.position
    /\ originReady' = (configured # None \/ m.status = 4)
    /\ radiiAt' = IF radiiAt = None THEN origin' ELSE radiiAt
\* The origin for this message, and from which message on it stays.
FixOrigin(m) ==
    /\ origin' = IF configured # None THEN configured ELSE m.position
    /\ originReady' = (configured # None \/ m.status = 4)
    /\ radiiAt' = origin'

Publish(m) ==
    /\ m.status >= MinGnssStatus
    /\ m.finite
    /\ m.stdevs
    /\ IF originReady THEN UNCHANGED frame ELSE FixOrigin(m)
    /\ poses' = Append(poses, [stamp |-> m.stamp, status |-> m.status, position |-> m.position,
                               offset |-> m.position - origin', radii |-> radiiAt'])
    /\ Count({"PVT_RECEIVED", "ODOMETRY_PUBLISHED", "VELOCITY_PUBLISHED"})

OnDevpvt(m) == GnssReject(m) \/ NonfiniteReject(m) \/ StdevReject(m) \/ Publish(m)

Init ==
    /\ configured \in Origins
    /\ origin = None
    /\ originReady = FALSE
    /\ radiiAt = None
    /\ poses = <<>>
    /\ counters = [m \in Metrics |-> 0]

Next ==
    /\ \E m \in Pvts : counters["PVT_RECEIVED"] < MaxPvts /\ OnDevpvt(m)
    /\ UNCHANGED configured

Spec == Init /\ [][Next]_vars

-----------------------------------------------------------------------------
(* Properties *)

Poses ==
    [stamp : Stamps, status : Statuses, position : Positions, offset : Int, radii : Int]

TypeOK ==
    /\ configured \in Origins
    /\ origin \in Positions \cup {configured, None}
    /\ originReady \in BOOLEAN
    /\ radiiAt \in Positions \cup {configured, None}
    /\ poses \in Seq(Poses)
    /\ counters \in [Metrics -> Nat]

\* From pose i on, poses are in one frame: as far apart as the vehicle was, and
\* projected with the same radii.
SameFrameFrom(i) ==
    \A j \in i..Len(poses) :
        /\ poses[j].offset - poses[i].offset = poses[j].position - poses[i].position
        /\ poses[j].radii = poses[i].radii

\* The frame is fixed by the first pose of status 4 and never moves again,
\* whatever comes after it.
FrameIsFixed == \A i \in 1..Len(poses) : poses[i].status = 4 => SameFrameFrom(i)

\* With a configured origin all poses are relative to it.  Otherwise the vehicle
\* stays at 0 until a pose of status 4, so that the frame is fixed without a
\* jump, and the radii are those of the latitude the frame is fixed at.
StartsAtOrigin ==
    \A i \in 1..Len(poses) :
        LET p == poses[i]
            fixedBy == {k \in 1..i : poses[k].status = 4}
        IN  IF configured # None
            THEN p.offset = p.position - configured /\ p.radii = configured
            ELSE /\ fixedBy \ {i} = {} => p.offset = 0 /\ p.radii = p.position
                 /\ \A k \in fixedBy : p.offset = p.position - poses[k].position + poses[k].offset

\* The diagnostics tell where every message went.
Accounted ==
    /\ counters["PVT_RECEIVED"] =
         counters["GNSS_REJECTED"] + counters["NONFINITE_REJECTED"]
         + counters["STDEV_REJECTED"] + counters["ODOMETRY_PUBLISHED"]
    /\ counters["ODOMETRY_PUBLISHED"] = Len(poses)

=============================================================================
