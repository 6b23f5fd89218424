----------------------------- MODULE MCStroker ------------------------------
\* Attributes, points, curves and outlines for the runs of Stroker.
EXTENDS Stroker

MCAttributes == {
  [radius |-> 96, cap |-> "round", join |-> "round", limit |-> "least"],
  [radius |-> 80, cap |-> "round", join |-> "round", limit |-> "least"],
  [radius |-> 80, cap |-> "square", join |-> "fixed", limit |-> "large"],
  [radius |-> 96, cap |-> "butt", join |-> "variable", limit |-> "least"],
  [radius |-> 0, cap |-> "butt", join |-> "bevel", limit |-> "least"]}
MCStarts == {<<0, 0>>, <<4, 0>>}
MCVectors == {<<0, 0>>, <<4, 0>>, <<4, 4>>}

\* Both written-down curves, a conic that turns by a quarter, one with a cusp.
MCCurves == {ConicFixture, CubicFixture, << <<4, 0>>, <<4, 4>> >>, << <<8, 0>>, <<0, 0>> >>}
MCTight == {<< <<4, 0>>, <<4, 4>> >>}

Pt(x, y, tag) == [at |-> <<x, y>>, tag |-> tag]
MCOutlines == {
  << <<Pt(0, 0, "on"), Pt(4, 0, "on"), Pt(4, 4, "on")>>, <<Pt(0, 0, "on"), Pt(4, 0, "on")>> >>,
  << <<Pt(0, 0, "conic"), Pt(4, 0, "conic"), Pt(4, 4, "conic"), Pt(0, 4, "conic")>>,
     <<Pt(0, 0, "on")>>, <<Pt(0, 0, "on"), Pt(0, 4, "cubic"), Pt(4, 4, "cubic")>> >>,
  << <<Pt(4, 0, "conic"), Pt(4, 4, "on"), Pt(0, 4, "on"), Pt(0, 0, "on")>> >>,
  << <<Pt(0, 0, "on"), Pt(1, 1, "cubic"), Pt(3, 1, "cubic"), Pt(4, 0, "on")>> >>,
  << <<Pt(0, 0, "on"), Pt(2, 2, "conic"), Pt(4, 0, "on")>>, <<Pt(4, 0, "on"), Pt(4, 4, "on")>> >>,
  << <<Pt(0, 0, "on"), Pt(4, 0, "on"), Pt(4, 4, "conic"), Pt(0, 4, "cubic")>> >>,
  << <<Pt(0, 0, "cubic"), Pt(4, 0, "cubic")>> >>,
  << <<Pt(4, 0, "on"), Pt(4, 0, "on")>>, <<Pt(0, 0, "on"), Pt(4, 4, "cubic"), Pt(4, 0, "on")>> >>}
=============================================================================
