--------------------------- MODULE MCInterpreter ----------------------------
\* Programs for the runs of Interpreter: short pieces of bytecode, put together.
EXTENDS Interpreter

Raw == << <<0, 0>>, <<0, 33>>, <<50, 33>>, <<50, 0>>, <<20, 0>>,
          <<0, 0>>, <<60, 0>>, <<0, 40>>, <<0, -10>> >>
MCPoints == [i \in DOMAIN Raw |-> [at |-> <<2 * Raw[i][1], 2 * Raw[i][2]>>, raw |-> Raw[i]]]
MCCvt == <<31 * Grid, 3 * Grid, -20 * Grid>>

MCJob(f, p, g, mode, pedantic, composite) ==
  [fpgm |-> f, prep |-> p, glyph |-> g, points |-> MCPoints, contours |-> <<4>>,
   mode |-> mode, pedantic |-> pedantic, composite |-> composite]

\* Functions 0 (an empty IF around data that look like code), 1 (a call of 0),
\* 2 (itself); instruction 28h.
Fpgm == <<\hB2, 0, 1, 2, \h2C, \hB0, 7, \h2B, \h2D, \h2C, \hB0, 0, \h2B, \h2D,
          \h2C, \h20, \h58, \hB1, \h2D, \h59, \h21, \h21, \h59, \h2D, \hB0, \h28, \h89, \h24, \h21, \h2D>>
Prep == <<\hB1, 1, 70, \h44, \hB1, 4, 3, \h8E, \hB1, 0, 1, \h8E, \hB1, 3, 20, \h8E, \hB0, 5, \h8D, \hB1, 1, 255, \h85, \h85>>
PrepCompat == <<\hB1, 0, 12, \h70, \hB1, 2, 5, \h42>>

\* Pieces that move points.
Moves == {
  <<\h00>>, <<\h01>>,                                       \* SVTCA
  <<\hB0, 1, \h2F>>, <<\hB0, 3, \h2E>>,                     \* MDAP
  <<\hB1, 1, 0, \h3F>>, <<\hB1, 2, 1, \h3E>>,               \* MIAP
  <<\hB0, 2, \hDC>>, <<\hB0, 0, \hC0>>,                     \* MDRP
  <<\hB1, 2, 0, \hFD>>, <<\hB1, 3, 2, \hE4>>,               \* MIRP
  <<\hB1, 3, 50, \h3B>>, <<\hB1, 2, 1, \h17, \h3C>>,        \* MSIRP, ALIGNRP
  <<\h30>>, <<\h31>>, <<\hB1, 2, 70, \h38>>,                \* IUP, SHPIX
  <<\hB4, 4, 2, 3, 0, 1, \h0F>>, <<\hB1, 1, 2, \h27>>,      \* ISECT, ALIGNPTS
  <<\hB0, 4, \h39>>, <<\hB0, 1, \h29>>,                     \* IP, UTP
  <<\hB1, 1, 200, \h48>>,                                   \* SCFS
  <<\hB0, 2, \h32>>, <<\hB0, 0, \h34>>, <<\hB0, 1, \h36>>,  \* SHP, SHC, SHZ
  <<\hB2, \h38, 1, 1, \h5D>>, <<\hB0, 0, \h14>>,            \* DELTAP, SZP1
  <<\hB0, 1, \h12, \hB0, 3, \h11>>                          \* SRP2, SRP1
}

\* Pieces that compute, choose, call and fail.
Others == {
  <<\hB1, 7, 5, \h60, \hB0, 2, \h61, \hB0, 3, \h63, \hB0, 0, \h62>>,
  <<\hB1, 200, 3, \h62, \h64, \h65, \h66, \h67, \h68, \h6C, \h56, \h5C, \h57>>,
  <<\hB1, 1, 2, \h50, \hB0, 1, \h51, \hB0, 1, \h52, \hB0, 1, \h53, \hB0, 1, \h54, \hB0, 1, \h55>>,
  <<\hB1, 1, 0, \h5A, \hB0, 3, \h5B, \hB0, 3, \h8B, \hB0, 3, \h8C>>,
  <<\hB8, 255, 236, \h20, \h23, \h24, \hB0, 2, \h25, \hB0, 2, \h26, \h8A, \h22, \h8A, \h21>>,
  <<\h41, 1, 255, 200, \hB0, 72, \h77, \h68, \hB0, 200, \h76, \h69, \h18, \h6A>>,
  <<\h40, 3, 90, 90, 90, \h19, \h68, \h21, \h3D, \h68, \h21, \h7C, \h68, \h21, \h7D>>,
  <<\h7A, \hB0, 90, \h68, \h4B, \h4C, \hB0, 65, \h88, \h7E, \h7F, \h4D, \h4E>>,
  <<\hB1, 1, 9, \h42, \hB0, 1, \h43, \hB1, 1, 33, \h44, \hB0, 1, \h45, \hB0, 9, \h43>>,
  <<\hB2, \h38, 1, 1, \h73, \hB2, 8, 9, 1, \h74, \h75>>,
  <<\hB1, 0, 3, \h06, \hB1, 0, 1, \h87, \hB1, 0, 1, \h09, \h0C, \h0A, \h0D, \h0B, \h0E, \h02, \h05>>,
  <<\hB1, 1, 2, \h46, \hB0, 1, \h47, \hB1, 1, 2, \h49, \hB0, 2, \h4A, \h4A>>,
  <<\hB0, 0, \h58, \hB1, \h59, \h1B, \h40, 2, \h59, \h59, \h1B, \hB0, 1, \h2E, \h59>>,
  <<\hB0, 1, \h58, \hB0, 3, \h1B, \hB8, \h59, \h59, \h59>>,
  <<\hB1, 2, 0, \h2A>>, <<\hB1, 200, 0, \h2A>>, <<\hB0, 1, \h2B, \h28>>, <<\hB0, 2, \h2B>>, <<\hB1, 3, 1, \h2A>>,
  <<\hB0, 5, \h1C, \h4F, \h4F, \hB8, 255, 253, \h1C>>,      \* jumps on and back
  <<\hB1, 2, 0, \h79, \hB0, 1, \h78>>, <<\hB8, 255, 253, \h1C>>,
  <<\h20, \hB8, 255, 252, \h1C>>, <<\hB1, 4, 3, \h8E>>, <<\hB1, 0, 3, \h8E, \hB1, 1, 1, \h8E>>,
  <<\h2D>>, <<\hB0, 9, \h2B>>, <<\h83>>, <<\hB0, 1, \h2C, \h2D>>, <<\h40>>, <<\h9A>>,
  <<\hB1, 9, 2, \h17, \h80, \h81, \h82, \hB0, 64, \h1A, \hB0, 20, \h1D, \hB0, 40, \h1E, \hB0, 31, \h1F>>,
  <<\hB1, 0, 12, \h70, \hB0, 8, \h5E, \hB0, 2, \h5F, \hB0, 0, \h16, \hB0, 1, \h2F, \hB0, 0, \h13, \hB0, 0, \h15, \h10>>
}

\* Function 0 jumps back to the FDEF of function 1: a glyph that calls it with a
\* 2 on the stack would define a function 2.
Revisited == <<\hB0, 1, \h2C, \h21, \h2D, \hB0, 0, \h2C, \hB8, 255, 247, \h1C, \h2D>>

Confusing == {0, 1, \h1B, \h1C, \h2B, \h2C, \h2D, \h40, \h58, \h59, \hB0, \hB1}
Short == UNION {[1..n -> Confusing] : n \in 0..3}

MCJobs ==
  {MCJob(Fpgm, p, a \o b \o <<\h30, \h31>> \o a, mode, FALSE, FALSE) :
      p \in {PrepCompat}, a \in Moves, b \in Moves, mode \in {"normal", "mono"}}
  \union {MCJob(Fpgm, p, g, "lcdv", pedantic, composite) :
      p \in {Prep, PrepCompat}, g \in Moves \union Others, pedantic \in BOOLEAN, composite \in BOOLEAN}
  \union {MCJob(f, <<\h2B>>, f, "normal", FALSE, FALSE) : f \in Short}
  \union {MCJob(<<\hB1>> \o f \o <<\h1B, \h2D>>, <<\hB0, 0, \h2B>>, <<>>, "normal", FALSE, FALSE) : f \in Short}
  \union {MCJob(<<>>, o, <<\hB0, 0, \h2B>>, "lcd", FALSE, FALSE) : o \in Others}
  \union {MCJob(Revisited, <<>>, <<\hB1, 2, 0, \h2B>>, "normal", FALSE, FALSE),
          MCJob(<<>>, <<>>, <<\hB8, 255, 255, \h17, \h39>>, "normal", FALSE, FALSE),
          MCJob(Fpgm, PrepCompat, <<\h30, \h31, \hB1, 4, 3, \h8E, \h31, \h30>>, "normal", FALSE, FALSE)}

\* A negative loop counter before ALIGNRP, SHP and IP.
SpinJobs == {MCJob(<<>>, <<>>, <<\hB8, 255, 255, \h17, op>>, "normal", pedantic, FALSE) :
                op \in {\h3C, \h33, \h39}, pedantic \in BOOLEAN}
=============================================================================
