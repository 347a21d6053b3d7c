------------------------- MODULE MCWindowPlacement -------------------------
(* WindowPlacement on a window that fits its work area and, with the       *)
(* taskbar moved to the top, one that is taller than it, on a monitor left *)
(* of the main one.  Where the first belongs is out of the second's reach. *)
(* Checks come in time or after a stall longer than the wait for rest.     *)
EXTENDS WindowPlacement

Screen == [left |-> -8, top |-> 1, right |-> 8, bottom |-> 10]
BelowTaskbar == [Screen EXCEPT !.top = 4]
FittingAndTall ==
  {[width |-> 8, height |-> 5, work |-> Screen],
   [width |-> 6, height |-> 12, work |-> BelowTaskbar]}
\* The corner of the screen, and the place of the tall window.
TwoPlaces == {<<-8, 1>>, <<-3, 4>>}
OnTimeOrStalled == {1, 6}

=============================================================================
