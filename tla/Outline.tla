------------------------------ MODULE Outline -------------------------------
(***************************************************************************)
(* Contours of tagged points, as FT_Outline_Decompose reads them: the      *)
(* stroker (src/src/ffi/handles.rs) and the smooth rasterizer              *)
(* (src/src/grays.rs) hold the same loop.                                  *)
(***************************************************************************)
LOCAL INSTANCE Integers
LOCAL INSTANCE Sequences

\* Halves of coordinates are cut towards zero.
Half(n) == IF n < 0 THEN -((-n) \div 2) ELSE n \div 2
Middle(a, b) == <<Half(a[1] + b[1]), Half(a[2] + b[2])>>

\* The points of a contour become lines and curves: two control points in a row
\* have an implied point between them.  After control points the last curve ends
\* at the start; where the last point is on the outline, the contour is open.
Segments(contour) ==
  LET n == Len(contour)
      conic == contour[1].tag = "conic"
      ends == conic /\ contour[n].tag = "on"
      start == IF ~conic THEN contour[1].at
               ELSE IF ends THEN contour[n].at ELSE Middle(contour[1].at, contour[n].at)
      limit == IF ends THEN n - 1 ELSE n
      Bad == <<[op |-> "bad", points |-> <<>>]>>
      Curve(points) == <<[op |-> "curve", points |-> points]>>
      \* what follows the first i points, of which the last may be a control point
      next[i \in 0..n, control \in BOOLEAN] ==
        LET p == contour[i + 1] IN
        IF control
        THEN LET c == contour[i].at IN
             IF i >= limit THEN Curve(<<c, start>>)
             ELSE CASE p.tag = "on" -> Curve(<<c, p.at>>) \o next[i + 1, FALSE]
                    [] p.tag = "conic" -> Curve(<<c, Middle(c, p.at)>>) \o next[i + 1, TRUE]
                    [] p.tag = "cubic" -> Bad
        ELSE IF i >= limit THEN <<>>
        ELSE CASE p.tag = "on" -> <<[op |-> "line", points |-> <<p.at>>]>> \o next[i + 1, FALSE]
               [] p.tag = "conic" -> next[i + 1, TRUE]
               [] p.tag = "cubic" ->
                    IF i + 2 > limit \/ contour[i + 2].tag # "cubic" THEN Bad
                    ELSE IF i + 3 <= limit
                    THEN Curve(<<p.at, contour[i + 2].at, contour[i + 3].at>>) \o next[i + 3, FALSE]
                    ELSE Curve(<<p.at, contour[i + 2].at, start>>)
  IN [start |-> start, open |-> contour[limit].tag = "on",
      calls |-> IF contour[1].tag = "cubic" THEN Bad
                ELSE next[IF conic THEN 0 ELSE 1, FALSE]]
=============================================================================
