--------------------------- MODULE MCCicloDiario ---------------------------
EXTENDS CicloDiario

\* The days around which the months differ, and three ordinary ones.
DiasDeBorda == {1, 2, 5, 15, 20, 27, 28, 29, 30, 31}
\* December 2027 to March 2029: a leap and an ordinary February, and a new year.
Dez2027 == Mes(2027, 12)
Mar2029 == Mes(2029, 3)

=============================================================================
