------------------------------- MODULE Gates -------------------------------
(***************************************************************************)
(* Amplitudes and the gates' matrices.  The arithmetic is exact: that of   *)
(* the pairs <<re, im>> modulo 31, where 2 has the square root 8 and       *)
(* cos(pi/8) and sin(pi/8) exist too, so that every identity between the   *)
(* complex numbers the gates use holds here as well; the converse may fail *)
(* only by a coincidence modulo 31.  Angles count in units of pi/4.        *)
(***************************************************************************)
EXTENDS Integers

Prime == 31

Complex(re, im) == <<re % Prime, im % Prime>>
Zero == Complex(0, 0)
One == Complex(1, 0)

Plus(a, b) == Complex(a[1] + b[1], a[2] + b[2])
Times(a, b) == Complex(a[1] * b[1] - a[2] * b[2], a[1] * b[2] + a[2] * b[1])
Conj(a) == Complex(a[1], -a[2])
Norm(a) == (a[1] * a[1] + a[2] * a[2]) % Prime

\* cos and sin of k * pi/8: 7, 4 and 18 are cos(pi/8), 1/sqrt(2), sin(pi/8).
Cos(k) == <<1, 7, 4, 18, 0, -18, -4, -7, -1, -7, -4, -18, 0, 18, 4, 7>>[(k % 16) + 1]
Sin(k) == Cos(k - 4)
Phase(k) == Complex(Cos(k), Sin(k))

-----------------------------------------------------------------------------
(* gates.hpp: 2x2 matrices, row-major *)

HMatrix == <<Complex(4, 0), Complex(4, 0), Complex(4, 0), Complex(-4, 0)>>
XMatrix == <<Zero, One, One, Zero>>
YMatrix == <<Zero, Complex(0, -1), Complex(0, 1), Zero>>
ZMatrix == <<One, Zero, Zero, Complex(-1, 0)>>
SMatrix(dagger) == <<One, Zero, Zero, Complex(0, IF dagger THEN -1 ELSE 1)>>
TMatrix(dagger) == <<One, Zero, Zero, Phase(IF dagger THEN -2 ELSE 2)>>

UMatrix(theta, phi, lambda) ==
    <<Complex(Cos(theta), 0),
      Times(Complex(-Sin(theta), 0), Phase(2 * lambda)),
      Times(Complex(Sin(theta), 0), Phase(2 * phi)),
      Times(Complex(Cos(theta), 0), Phase(2 * (phi + lambda)))>>

RXMatrix(theta) ==
    <<Complex(Cos(theta), 0), Complex(0, -Sin(theta)),
      Complex(0, -Sin(theta)), Complex(Cos(theta), 0)>>

RYMatrix(theta) ==
    <<Complex(Cos(theta), 0), Complex(-Sin(theta), 0),
      Complex(Sin(theta), 0), Complex(Cos(theta), 0)>>

RZMatrix(theta) == <<Phase(-theta), Zero, Zero, Phase(theta)>>
=============================================================================
