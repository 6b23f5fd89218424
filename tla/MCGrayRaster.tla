---------------------------- MODULE MCGrayRaster ----------------------------
\* Modes and outlines for the runs of GrayRaster.  A pixel is 4 units wide.
EXTENDS GrayRaster

Mode(x1, x2, y1, y2, offset, evenOdd) ==
  [box |-> [minX |-> x1, maxX |-> x2, minY |-> y1, maxY |-> y2], offset |-> offset, evenOdd |-> evenOdd]
MCModes == {Mode(0, 2, 0, 2, <<0, 0>>, FALSE), Mode(0, 2, 0, 1, <<1, 0>>, TRUE),
            Mode(-1, 1, 0, 2, <<0, -1>>, FALSE)}

On(x, y) == [at |-> <<x, y>>, tag |-> "on"]
Conic(x, y) == [at |-> <<x, y>>, tag |-> "conic"]
Cubic(x, y) == [at |-> <<x, y>>, tag |-> "cubic"]

Corners == {-7, 0, 1, 5, 8, 10}
Triangles == { << <<On(1, b), On(c, d), On(e, f)>> >> : b \in {-1, 3}, c, d, e, f \in Corners }

Square(a, b) == <<On(a, a), On(b, a), On(b, b), On(a, b)>>
Eye == <<Conic(-1, 4), Conic(3, 9), Conic(10, 4), Conic(4, -6)>>
Others == {
  <<Square(0, 8), Square(2, 6)>>,                                    \* wound twice
  << <<On(0, 0), On(8, 8), On(8, 0), On(0, 8)>> >>,                  \* crosses itself
  <<Eye>>, <<Square(-3, 9), Eye>>,
  << <<Conic(0, -2), On(9, 3), On(2, 7)>> >>,                        \* starts off the path, ends on it
  << <<On(0, 0), Cubic(12, 1), Cubic(-4, 6), On(7, 8)>> >>,          \* a loop
  << <<On(-2, 2), Cubic(2, 14), Cubic(5, -6), On(10, 3), Conic(4, -9)>> >>,
  << <<On(2, 1), Cubic(3, 20), Cubic(5, 20)>> >>,                    \* mostly above the box
  << <<On(1, 9), Conic(4, 14), On(7, 9), Conic(4, 12)>> >>,          \* all above the box
  <<Square(1, 7), <<On(0, 0), On(4, 4), Cubic(4, 0), On(2, 2)>> >>,  \* a lone cubic control point
  << <<On(0, 0), On(5, 2), Conic(4, 4), Cubic(1, 4)>> >>,
  <<Square(2, 5), <<Cubic(0, 0), On(4, 4)>> >>}                      \* starts with a cubic

MCOutlines == Triangles \union Others
MCAgain == {<<Square(1, 5)>>}
=============================================================================
