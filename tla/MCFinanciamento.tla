--------------------------- MODULE MCFinanciamento ---------------------------
EXTENDS Financiamento

\* Monthly rates of 2%, 10% and 50%, as numerator and denominator.
Fracoes == [dois |-> <<1, 50>>, dez |-> <<1, 10>>, cinquenta |-> <<1, 2>>]
AsTaxas == {"zero"} \cup DOMAIN Fracoes

\* Half rounds up: all values are positive.
Arredonda(num, den) == (2 * num + den) \div (2 * den)

OsJuros == [t \in DOMAIN Fracoes |-> [s \in 0..MaxValor |->
              Arredonda(s * Fracoes[t][1], Fracoes[t][2])]]

\* pv * i * fator / (fator - 1), where fator = ((den + num) / den) ^ n.
OPmt == [t \in DOMAIN Fracoes |-> [v \in 1..MaxValor |-> [n \in 1..MaxPrazo |->
           LET num == Fracoes[t][1]
               den == Fracoes[t][2]
               cima == (den + num) ^ n
           IN Arredonda(v * num * cima, den * (cima - den ^ n))]]]

=============================================================================
