------------------------------ MODULE Calendario ------------------------------
(***************************************************************************)
(* The calendar dates of the card rules.  A time.Time at midnight is a     *)
(* record [mes, dia]: mes counts the months since January of year 0 (so    *)
(* mes \div 12 is the year), dia is the day of the month.  The time of     *)
(* day is abstracted: every date of the domain goes through DateOnly.  The *)
(* zone matters in one comparison only, and Instante (CicloCartao) is the  *)
(* moment of a midnight in a zone.  Month lengths are the Gregorian ones   *)
(* of Go's time package.                                                   *)
(***************************************************************************)
EXTENDS Integers

Menor(a, b) == IF a < b THEN a ELSE b

Bissexto(ano) == ano % 4 = 0 /\ (ano % 100 # 0 \/ ano % 400 = 0)

\* ultimoDia: the number of days of the month.
UltimoDia(mes) ==
  CASE mes % 12 = 1              -> IF Bissexto(mes \div 12) THEN 29 ELSE 28
    [] mes % 12 \in {3, 5, 8, 10} -> 30
    [] OTHER                     -> 31

Mes(ano, m) == 12 * ano + (m - 1)

Data == {d \in [mes : Int, dia : 1 .. 31] : d.dia <= UltimoDia(d.mes)}

Antes(a, b) == a.mes < b.mes \/ (a.mes = b.mes /\ a.dia < b.dia)
AteADataDe(a, b) == a = b \/ Antes(a, b)

\* diaNoMes: the requested day in the month, or its last day when it is shorter.
DiaNoMes(mes, dia) == [mes |-> mes, dia |-> Menor(dia, UltimoDia(mes))]

AddMonthsClamped(t, n) == DiaNoMes(t.mes + n, t.dia)

\* AddDate(0, 0, 1)
DiaSeguinte(t) ==
  IF t.dia < UltimoDia(t.mes) THEN [t EXCEPT !.dia = @ + 1]
                              ELSE [mes |-> t.mes + 1, dia |-> 1]

===============================================================================
