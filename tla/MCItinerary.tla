---------------------------- MODULE MCItinerary -----------------------------
(***************************************************************************)
(* Small instances of Itinerary for TLC.                                   *)
(***************************************************************************)
EXTENDS ItineraryProperties

Drive(p, q) == [kind |-> "drive", start |-> p, end |-> q]
Stay(p) == [kind |-> "rest", start |-> p, end |-> p]

Trip(days) ==
    [l \in 1..Len(days) |->
        [kind |-> days[l].kind, sort |-> l - 1, start |-> days[l].start,
         end |-> days[l].end, warned |-> FALSE,
         route |-> IF days[l].kind = "drive" /\ None \notin {days[l].start, days[l].end}
                   THEN <<days[l].start, days[l].end>> ELSE None]]

\* Out, a rest, and on; to and fro between two places; and a last day whose end nobody placed.
FirstTrips == {
    Trip(<<Drive(0, 100), Stay(100), Drive(100, 130), Drive(130, 300)>>),
    Trip(<<Drive(130, 0), Drive(0, 100), Drive(100, 0), Drive(0, 100), Drive(100, 300)>>),
    Trip(<<Drive(0, 100), Stay(100), Drive(100, None)>>)}

Blank == [op |-> "rename", leg |-> None, kind |-> "drive", start |-> None, end |-> None,
          sort |-> None, day |-> None]

Delete(l) == [Blank EXCEPT !.op = "delete", !.leg = l]
Update(l, p, q) == [Blank EXCEPT !.op = "update", !.leg = l, !.start = p, !.end = q]
Add(kind, p, q, after, sort) ==
    [Blank EXCEPT !.op = "add", !.kind = kind, !.start = p, !.end = q, !.leg = after,
                  !.sort = sort]
Report(l, p, day) == [Blank EXCEPT !.op = "report", !.leg = l, !.start = p, !.day = day]
Rename(day) == [Blank EXCEPT !.day = day]

Singles ==
    {Delete(l) : l \in 1..4}
    \cup {Update(l, None, 300) : l \in {1, 2}} \cup {Update(3, 0, None), Update(2, None, None)}
    \cup {Add("drive", 130, 0, after, None) : after \in {None, 1}}
    \cup {Add("drive", 100, 300, None, 1), Add("rest", 100, 100, None, None)}
    \cup {Report(None, 130, 5), Report(3, 0, 5), Rename(2)}

\* One edit; or up to three deletes; or edits that belong together.
SomeBatches ==
    {<<e>> : e \in Singles}
    \cup {<<Delete(2), Delete(k)>> : k \in {3, 4}}
    \cup {<<Delete(2), Delete(3), Delete(4)>>}
    \cup {<<Update(3, 0, None), Delete(2)>>,
          <<Add("drive", 100, 0, 1, None), Add("drive", 0, 130, None, None)>>,
          <<Add("drive", None, 100, None, None), Update(9, 130, None)>>,
          <<Report(None, 100, 5), Delete(3)>>}
=============================================================================
