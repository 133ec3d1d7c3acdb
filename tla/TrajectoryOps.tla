--------------------------- MODULE TrajectoryOps ---------------------------
(***************************************************************************)
(* The algorithms of Trajectory and TrajectoryView on the times of the     *)
(* waypoints: ordered insertion, binary search, duration and looping. The  *)
(* states at the waypoints, and their interpolation, are left out. Times   *)
(* are whole numbers; a sequence's index is the array's index plus one.    *)
(***************************************************************************)
EXTENDS Integers, Sequences

\* Fault: a waypoint at the same time counts as later.
FindInsertionIndexBeforeEqual(times, seconds) ==
  LET find[range \in (0 .. Len(times)) \X (-1 .. Len(times))] ==
        LET i == range[1]
            j == range[2]
            middle == (i + j) \div 2
        IN IF i >= j THEN IF seconds <= times[i + 1] THEN i ELSE i + 1
           ELSE IF seconds <= times[middle + 1] THEN find[<<i, middle>>] ELSE find[<<middle + 1, j>>]
  IN find[<<0, Len(times) - 1>>]

\* FindInsertionIndex(seconds, 0, size_ - 1) of a trajectory that is not empty.
FindInsertionIndex(times, seconds) ==
  LET find[range \in (0 .. Len(times)) \X (-1 .. Len(times))] ==
        LET i == range[1]
            j == range[2]
            middle == (i + j) \div 2
        IN IF i >= j THEN IF seconds < times[i + 1] THEN i ELSE i + 1
           ELSE IF seconds < times[middle + 1] THEN find[<<i, middle>>] ELSE find[<<middle + 1, j>>]
  IN find[<<0, Len(times) - 1>>]

\* Fault: every waypoint goes behind the last one.
InsertLast(times, seconds) == Append(times, seconds)

\* Insert(). The first waypoint of all is also written behind itself, outside
\* the trajectory's size.
Insert(times, seconds) ==
  IF times = << >> THEN <<seconds>>
  ELSE LET i == FindInsertionIndex(times, seconds) IN
       SubSeq(times, 1, i) \o <<seconds>> \o SubSeq(times, i + 1, Len(times))

\* The insertions of a creating handler, in the order of the request.
Inserted(waypoints) ==
  LET after[n \in 0 .. Len(waypoints)] ==
        IF n = 0 THEN << >> ELSE Insert(after[n - 1], waypoints[n])
  IN after[Len(waypoints)]

\* FindWaypointAtOrBeforeSeconds()
FindWaypointAtOrBeforeSeconds(times, seconds) ==
  IF times = << >> THEN -1 ELSE FindInsertionIndex(times, seconds) - 1

\* LapDuration() of a plain view; loop is loop_after_seconds_. It asserts that
\* the trajectory is not empty.
LapDuration(times, loop) ==
  times[Len(times)] - times[1] + (IF loop >= 0 THEN loop ELSE 0)

\* EnableLooping() or DisableLooping(), as the creating handler calls them.
LoopAfter(times, loop) == IF loop >= 0 /\ times # << >> THEN loop ELSE -1

\* EnableLooping() asserts that there is time to go back to the start.
LoopsInNoTime(loop) == loop = 0

\* GetWaypoint(): the time in the lap at which a plain view is. Before the first
\* waypoint it may be the end of the lap.
TimeInLap(times, loop, seconds) ==
  LET lap == LapDuration(times, loop) IN
  times[1] + IF seconds >= times[1] THEN (seconds - times[1]) % lap
             ELSE lap - ((times[1] - seconds) % lap)

\* The index of the waypoint it is at. Where a lap takes no time its time in the
\* lap is not a number, and the search ends behind the last waypoint.
WaypointIndex(times, loop, seconds) ==
  IF LapDuration(times, loop) = 0 THEN Len(times) - 1
  ELSE FindWaypointAtOrBeforeSeconds(times, TimeInLap(times, loop, seconds))

-----------------------------------------------------------------------------
IsSorted(times) == \A i, j \in DOMAIN times : i < j => times[i] <= times[j]

\* What the search is for: the index of the last waypoint that is not later, or -1.
LastAtOrBefore(times, seconds) ==
  LET found == {i \in 1 .. Len(times) : times[i] <= seconds} IN
  IF found = {} THEN -1 ELSE (CHOOSE i \in found : \A j \in found : j <= i) - 1
=============================================================================
