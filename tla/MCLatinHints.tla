---------------------------- MODULE MCLatinHints ----------------------------
EXTENDS LatinHints

On(x, y) == [at |-> <<x, y>>, ctl |-> FALSE]
Off(x, y) == [at |-> <<x, y>>, ctl |-> TRUE]

\* A bar, clockwise or not.
Bar(x, y, w, h) == <<On(x, y), On(x, y + h), On(x + w, y + h), On(x + w, y)>>
Hole(x, y, w, h) == <<On(x, y), On(x + w, y), On(x + w, y + h), On(x, y + h)>>

\* A round shape.
Bowl(x, y, w, h) ==
  <<On(x, y + h \div 2), Off(x, y + h), On(x + w \div 2, y + h), Off(x + w, y + h),
    On(x + w, y + h \div 2), Off(x + w, y), On(x + w \div 2, y), Off(x, y)>>
Counter(x, y, w, h) == Reverse(Bowl(x, y, w, h))

\* A stem with serifs at the foot.
Serifed(x, w, s, t, h) ==
  <<On(x, 0), On(x, t), On(x + s, t), On(x + s, h), On(x + s + w, h), On(x + s + w, t),
    On(x + 2 * s + w, t), On(x + 2 * s + w, 0)>>

Glyph(cs, adv) == [contours |-> cs, advance |-> adv]

O == Glyph(<<Bowl(14, -3, 100, 134), Counter(32, 15, 64, 98)>>, 128)

\* A bar that is higher at its right end, by h.
Step(h) == <<On(8, 0), On(8, 20), On(78, 20), On(78, 20 + h), On(118, 20 + h), On(118, 0)>>

\* Slanted sides, with control points near both ends.
Slanted(h) ==
  <<On(10, 0), Off(11, 3), Off(29, h - 3), On(30, h), On(90, h), Off(91, h - 3), Off(109, 3), On(110, 0)>>

\* A slanted stroke: no segments.
Diamond(x, y, r) == <<On(x, y + r), On(x + r, y), On(x, y - r), On(x - r, y)>>

Zone(ref, shoot, top) ==
  [ref |-> ref, shoot |-> shoot, top |-> top, sub |-> FALSE, neutral |-> FALSE, adjust |-> FALSE,
   ascender |-> 190, descender |-> -60]

\* A font with an x-height, one hinted downwards with zones of every kind, and
\* one whose standard glyph shows no stem, with zones close to each other.
MCFonts ==
  {[standard |-> O.contours, down |-> FALSE, fixed |-> FALSE,
    blues |-> <<Zone(180, 183, TRUE), [Zone(128, 131, TRUE) EXCEPT !.adjust = TRUE], Zone(0, -3, FALSE)>>],
   [standard |-> O.contours, down |-> TRUE, fixed |-> TRUE,
    blues |-> <<[Zone(140, 128, TRUE) EXCEPT !.sub = TRUE], [Zone(128, 131, TRUE) EXCEPT !.neutral = TRUE],
                Zone(120, 124, TRUE), [Zone(16, 10, FALSE) EXCEPT !.neutral = TRUE], Zone(0, -3, FALSE)>>],
   [standard |-> <<Diamond(60, 60, 40)>>, down |-> FALSE, fixed |-> FALSE, 
    blues |-> <<Zone(16, 19, TRUE), Zone(0, -3, FALSE)>>]}

MCOutlines ==
  {O, Glyph(<<Step(10), Bar(58, -50, 50, 75)>>, 130), Glyph(<<Step(40), Bar(8, 150, 100, 20)>>, 130),
   Glyph(<<Diamond(60, 60, 40)>>, 120), Glyph(<<Bar(8, 0, 20, 128), <<On(9, 60)>>>>, 36)}
  \union {Glyph(<<Slanted(h)>>, 120) : h \in {56, 121}}
  \union {Glyph(<<Bar(8, 0, 30, h), Bar(60, 0, 30, 100)>>, 100) : h \in {40, 60}}
  \union {Glyph(<<Bar(x, 0, w, 128), Bar(x + w + g, 0, w, 128)>>, x + 2 * w + g + 10) :
            x \in {5, 11}, w \in {7, 18, 30}, g \in {6, 20, 45}}
  \union {Glyph(<<Bar(8, 0, w, 128), Bar(8 + g, 0, w, 128), Bar(8 + 2 * g, 0, w, 128)>>, 3 * g) :
            w \in {10, 18}, g \in {30, 44}}
  \union {Glyph(<<Bar(8, 0, a, 128), Bar(30 + g, 0, b, 128), Bar(40 + g + b, 0, c, 128)>>, 60 + g + b + c) :
            a \in {12, 30}, b \in {18, 32}, c \in {4, 14}, g \in {14, 26}}
  \union {Glyph(<<Bar(10, 0, 80, 40), Bar(10, 40 + g, 80, h)>>, 100) : g \in {4, 20}, h \in {4, 14}}
  \union {Glyph(<<Serifed(5, w, s, t, h)>>, w + 40) : w \in {12, 20}, s \in {8, 22}, t \in {14, 30}, h \in {150, 180}}
  \union {Glyph(<<Serifed(5, 16, 10, 40, h), Serifed(65, 16, 10, 40, h), Serifed(125, 16, 10, 40, h)>>, 180) : h \in {128}}
  \union {Glyph(<<Bar(10, y, 80, h), Bar(10, y + h + g, 80, h)>>, 100) : y \in {0, 40}, h \in {8, 16}, g \in {10, 50, 102}}

=============================================================================
