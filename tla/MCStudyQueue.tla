---------------------------- MODULE MCStudyQueue ----------------------------
(* A small deck: new cards of two lessons, cards due now, later today and in
   relearning, so that a page never holds everything that is offered. *)
EXTENDS StudyQueue

MCCard == 1 .. 5
MCNotes == {{1, 2}, {3}, {4}, {5}}
MCPosition == [c \in MCCard |-> IF c = 1 THEN 7 ELSE IF c = 2 THEN -1000 ELSE 3]
MCNoPosition == -1000
MCLesson == [c \in MCCard |-> IF c = 3 THEN 2 ELSE IF c = 1 THEN 1 ELSE 0]
MCShuffle(c, d) == (c * (2 + d)) % 5

Reviewed(state, due, days) ==
    [state |-> state, due |-> due, last |-> -2, days |-> days,
     suspended |-> FALSE, buried |-> Never]
MCInitRow == [c \in MCCard |-> IF c = 4 THEN Reviewed(2, 0, 3)
                               ELSE IF c = 5 THEN Reviewed(2, -1, 1) ELSE NoRow]

(* Meetings on Tuesdays and Thursdays, one of them skipped: the class meets
   for lesson 2 on day 1. *)
Term == [start |-> -9, weekdays |-> {2, 4}, skip |-> {-4}]
MCPreset(new, total, first, cal) ==
    [newPerDay |-> new, revPerDay |-> total, order |-> "due", priority |-> first,
     mix |-> "absent", ahead |-> 0, calendar |-> cal]
MCInitPreset ==
    {MCPreset(1, 1, "due", Term),
     [MCPreset(2, 2, "absent", NoCalendar) EXCEPT !.mix = "mixed", !.order = "random"]}
MCEdit == {[field |-> "priority", value |-> "mixed"], [field |-> "priority", value |-> "new"],
           [field |-> "revPerDay", value |-> 1]}
==============================================================================
