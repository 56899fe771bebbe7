------------------------------- MODULE Paths --------------------------------
(***************************************************************************)
(* How the outlines of the chart are drawn: an edge that several outlines  *)
(* share is drawn once, by the one in front of those that draw; a route is *)
(* cut at the points that draw on it; and the line of an edge is worked    *)
(* out once and copied by every path that runs it, either way.             *)
(*                                                                         *)
(* A position is of a vertex, the cell of the grid it is in.  An edge is   *)
(* the set of its two vertices.  A line has two points between the ends of *)
(* every edge, so that it tells which way it runs.                         *)
(***************************************************************************)
EXTENDS Naturals, Sequences, FiniteSets, SequencesExt, FiniteSetsExt

CONSTANTS
  VertexOf(_),   \* the vertex of a position
  Outlines,      \* the charts there may be: sequences of outlines, each with
                 \* its part, its layer's rank, its stratum and its positions
  Points,        \* the points of the chart: a vertex, and half the size of the marker
  CLEARANCE,     \* between a marker and the route that stops short of it
  None

(* What the constants are taken to be, assumed where they are given values. *)
PathsAssumption ==
  /\ CLEARANCE \in Nat
  /\ \A point \in Points : point.size \in Nat
  /\ \A outlines \in Outlines : \A o \in Range(outlines) : o.rank \in Nat

VARIABLES
  paths,    \* the paths of the network, front first
  drawn,    \* the parts that draw
  stops,    \* the points that draw
  lines,    \* of each path its line, once asked for
  homes     \* of each edge, the path that first ran it and as which of its edges

vars == <<paths, drawn, stops, lines, homes>>

-----------------------------------------------------------------------------
(* The topology.                                                           *)
(* No two neighbouring positions at one vertex. *)
Distinct(coordinates) ==
  LET stays == {i \in DOMAIN coordinates :
                  i > 1 => VertexOf(coordinates[i]) # VertexOf(coordinates[i - 1])}
  IN [i \in 1 .. Cardinality(stays) |-> coordinates[SetToSortSeq(stays, <)[i]]]

Path(outline) ==
  LET coordinates == Distinct(outline.coordinates)
  IN [part |-> outline.part, coordinates |-> coordinates,
      vertices |-> [i \in DOMAIN coordinates |-> VertexOf(coordinates[i])]]

EdgesOf(path) == 1 .. Len(path.vertices) - 1
Edge(path, i) == {path.vertices[i], path.vertices[i + 1]}

(* Front first, a lower stratum before an upper, then as in the chart. *)
InStack(outline) == 2 * outline.rank + (IF outline.upper THEN 1 ELSE 0)
NetworkOf(outlines) ==
  LET order == SetToSortSeq(DOMAIN outlines, LAMBDA i, j :
                 \/ InStack(outlines[i]) < InStack(outlines[j])
                 \/ (InStack(outlines[i]) = InStack(outlines[j]) /\ i < j))
  IN [i \in DOMAIN order |-> Path(outlines[order[i]])]

Occurrences == UNION {{p} \X EdgesOf(paths[p]) : p \in DOMAIN paths}
EdgeAt(o) == Edge(paths[o[1]], o[2])
IsDrawn(p) == paths[p].part \in drawn

Before(o, q) == o[1] < q[1] \/ (o[1] = q[1] /\ o[2] < q[2])
(* Mutated: an edge is its path's each time the path runs it. *)
OwnsEvery(o) ==
  IsDrawn(o[1]) /\ \A q \in Occurrences :
    (IsDrawn(q[1]) /\ EdgeAt(q) = EdgeAt(o)) => q[1] >= o[1]
(* The first time that a path that draws runs an edge draws it. *)
Owns(o) ==
  IsDrawn(o[1]) /\ \A q \in Occurrences :
    (IsDrawn(q[1]) /\ EdgeAt(q) = EdgeAt(o)) => ~Before(q, o)

Within(i, s) == s.from <= i /\ i < s.to

(* The longest chains of edges in a row that a path owns within a stretch. *)
RunsOf(p, within) ==
  LET owned(i) == Within(i, within) /\ Owns(<<p, i>>)
      at == DOMAIN paths[p].vertices
  IN {r \in [from : at, to : at] :
        /\ r.from < r.to /\ \A i \in r.from .. r.to - 1 : owned(i)
        /\ ~owned(r.from - 1) /\ ~owned(r.to)}

-----------------------------------------------------------------------------
(* The stops of routes.                                                    *)
StopCuts(points) ==
  [v \in {p.vertex : p \in points} |->
     CLEARANCE + Max({p.size : p \in {q \in points : q.vertex = v}})]

(* A path is split at the stops within it, and cut back from each. *)
SpansOf(path, cuts) ==
  LET last == Len(path.vertices)
      isStop(i) == path.vertices[i] \in DOMAIN cuts
      cutAt(i) == IF isStop(i) THEN cuts[path.vertices[i]] ELSE 0
      ends == {1, last} \cup {i \in 2 .. last - 1 : isStop(i)}
      stretches == {s \in [from : ends, to : ends] :
                      s.from < s.to /\ \A i \in ends : i <= s.from \/ s.to <= i}
  IN {[from |-> s.from, to |-> s.to,
       cutBack |-> cutAt(s.from), cutAhead |-> cutAt(s.to)] : s \in stretches}

(* What is drawn of a path: of each span its runs. *)
DrawnRuns(p) ==
  IF IsDrawn(p)
  THEN UNION {{<<s, r>> : r \in RunsOf(p, s)} :
                s \in SpansOf(paths[p], StopCuts(stops))}
  ELSE {}

-----------------------------------------------------------------------------
(* The lines.  A point is an end of an edge, or between its ends and nearer *)
(* one of them, worked out for a path.                                     *)
End(p, v) == [vertex |-> v, between |-> FALSE, by |-> p]
Between(p, v) == [vertex |-> v, between |-> TRUE, by |-> p]

Walked(p, i) ==
  LET v == paths[p].vertices
  IN <<End(p, v[i]), Between(p, v[i]), Between(p, v[i + 1]), End(p, v[i + 1])>>
(* The points of an edge of a line. *)
Slot(line, i) == SubSeq(line, 3 * i - 2, 3 * i + 1)

(* Mutated: an edge is copied the way it was first run. *)
CopiedForward(line, home, i) == Slot(line, home[2])
(* An edge copied of its home's line, the way the path at hand runs it. *)
Copied(line, home, i) ==
  IF paths[home[1]].vertices[home[2]] = i THEN Slot(line, home[2])
  ELSE Reverse(Slot(line, home[2]))

(* A line goes on along an edge: its first point stands when it has one. *)
Joined(line, edge) == IF line = <<>> THEN edge ELSE line \o Tail(edge)

(* Where an edge of a path is known from when the path comes to it. *)
HomeOf(p, e) ==
  IF e \in DOMAIN homes THEN homes[e]
  ELSE <<p, Min({i \in EdgesOf(paths[p]) : Edge(paths[p], i) = e})>>

LineOf(p) ==
  LET home(i) == HomeOf(p, Edge(paths[p], i))
      line[i \in 0 .. Len(paths[p].vertices) - 1] ==
        IF i = 0 THEN <<>>
        ELSE Joined(line[i - 1],
               IF home(i) = <<p, i>> THEN Walked(p, i)
               ELSE Copied(IF home(i)[1] = p THEN line[i - 1] ELSE lines[home(i)[1]],
                           home(i), paths[p].vertices[i]))
  IN line[Len(paths[p].vertices) - 1]

(* A path's line is walked the first time it is asked for, and is the home *)
(* of the edges that no line has run.                                      *)
Walk(p) ==
  LET own == {Edge(paths[p], i) : i \in EdgesOf(paths[p])}
  IN /\ lines[p] = None
     /\ lines' = [lines EXCEPT ![p] = LineOf(p)]
     /\ homes' = [e \in DOMAIN homes \cup own |-> HomeOf(p, e)]
     /\ UNCHANGED <<paths, drawn, stops>>

(* Other items draw, which are other parts and other points. *)
Draw(parts, points) ==
  /\ drawn' = parts /\ stops' = points
  /\ UNCHANGED <<paths, lines, homes>>

Init ==
  /\ \E outlines \in Outlines : paths = NetworkOf(outlines)
  /\ drawn = {} /\ stops = {}
  /\ lines = [p \in DOMAIN paths |-> None]
  /\ homes = <<>>

Next ==
  \/ \E p \in DOMAIN paths : Walk(p)
  \/ \E parts \in SUBSET {paths[p].part : p \in DOMAIN paths}, points \in SUBSET Points :
       Draw(parts, points)

Spec == Init /\ [][Next]_vars

-----------------------------------------------------------------------------
TypeOK ==
  /\ \A p \in DOMAIN paths : \A i \in EdgesOf(paths[p]) : Cardinality(Edge(paths[p], i)) = 2
  /\ DOMAIN lines = DOMAIN paths

(* Whatever draws: every edge of it is drawn once, and nothing else is; it *)
(* is drawn by the path in front of all that run it and draw; no run goes  *)
(* on past a point that draws, and none ends short but at one, at an edge  *)
(* that is another's, or at the end of the path.                           *)
DrawnOnce ==
  \A e \in {EdgeAt(o) : o \in Occurrences} :
    LET drawers == {o \in Occurrences : EdgeAt(o) = e /\ IsDrawn(o[1])}
        runs == UNION {{<<o, r>> : r \in {d \in DrawnRuns(o[1]) : Within(o[2], d[2])}} :
                         o \in {q \in Occurrences : EdgeAt(q) = e}}
    IN /\ Cardinality(runs) = (IF drawers = {} THEN 0 ELSE 1)
       /\ \A d \in runs :
            LET p == d[1][1]
                span == d[2][1]
                run == d[2][2]
                at(point, i) == point.vertex = paths[p].vertices[i]
                stop(i) == \E point \in stops : at(point, i)
            IN /\ \A o \in drawers : p <= o[1]
               /\ \A i \in run.from + 1 .. run.to - 1 : ~stop(i)
               /\ run.to < Len(paths[p].vertices) =>
                    stop(run.to) \/ ~Owns(<<p, run.to>>)
               /\ \A point \in stops :
                    LET cut == CLEARANCE + point.size IN
                    /\ (run.to = span.to /\ at(point, run.to)) => span.cutAhead >= cut
                    /\ (run.from = span.from /\ at(point, run.from)) => span.cutBack >= cut

(* In whatever order lines are asked for: a line passes the vertices of    *)
(* its path in order, and paths that share an edge run through the same    *)
(* points between its ends.                                                *)
LinesAgree ==
  \A p \in DOMAIN paths : lines[p] # None =>
    /\ lines[p] # <<>> => Len(lines[p]) = 3 * Len(paths[p].vertices) - 2
    /\ \A i \in EdgesOf(paths[p]) :
         LET s == Slot(lines[p], i)
             v == paths[p].vertices
         IN /\ [j \in 1 .. 4 |-> s[j].vertex] = <<v[i], v[i], v[i + 1], v[i + 1]>>
            /\ s[2].between /\ s[3].between
            /\ \A q \in DOMAIN paths : lines[q] # None =>
                 \A j \in EdgesOf(paths[q]) :
                   Edge(paths[q], j) = Edge(paths[p], i) =>
                     {s[2], s[3]} = {Slot(lines[q], j)[2], Slot(lines[q], j)[3]}

(* The chart's lines are drawn once, and agree. *)
LinesDrawn == DrawnOnce /\ LinesAgree
=============================================================================
